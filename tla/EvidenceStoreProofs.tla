-------------------------- MODULE EvidenceStoreProofs --------------------------
(***************************************************************************)
(* Proofs about Workbench and Evaluations, two sets of services over the   *)
(* evidence store, for any services, requests, streams and bounds.         *)
(*                                                                         *)
(* Nothing in the store is ever taken back, so what holds of one call      *)
(* holds on while the others step (Grows, Keeps).  IInv says of a call     *)
(* what it has still to write and in which order, that its event names one *)
(* of those or of what is there, and that of a use it returns the event is *)
(* told.  Of the disk: bytes of an export are written once (Steady).       *)
(* EvaluationsInv, in the second part, says which record a call makes,     *)
(* that a settled one has no rival, and what the history tells.  The third *)
(* and fourth parts are about data and not steps: what a prepared dataset  *)
(* is made of (GoodSoFar) and how results are ranked (Grouped).            *)
(***************************************************************************)
EXTENDS Workbench, Evaluations, FiniteSetTheorems, SequenceTheorems, WellFoundedInduction, TLAPS

IsUse(r) == r.type \in {"local_use_session", "adapter_export"}

UseEvent(r) ==
    Outcome("local-use",
            IF r.type = "adapter_export" THEN "adapter-export" ELSE "local-use-session",
            r.id, {r})

\* What a record of a use claims of bytes still holds of what is on disk.
Sound(r) ==
    /\ r.type = "adapter_export" =>
           r.id \in Exports /\ r.body.requirements # <<>> /\ ExportIntact(r)
    /\ r.type = "local_use_session" =>
           \A a \in {x \in r.refs : x.type = "artifact"} :
               r.body.adapter = a.body.content["adapter.bin"]

Names(e, r) ==
    /\ r.id = e.id
    /\ r.type = CASE e.kind = "project-created" -> "project"
                  [] e.kind = "adapter-export" -> "adapter_export"
                  [] e.kind = "local-use-session" -> "local_use_session"
                  [] OTHER -> "experiment"
    /\ e.payload \subseteq {r}

\* A record is written after those it refers to, but for a baseline, which may be
\* fixed to what is not there.
Ordered(todo) ==
    \A i \in DOMAIN todo : todo[i].type # "baseline_policy" =>
        todo[i].refs \subseteq records \cup {todo[j] : j \in 1 .. i - 1}

Fields == {"pc", "todo", "proposed", "single", "settle", "event", "seen", "result"}

\* What a call has still to write, or may yet decide to.
Pending(c) ==
    ToSet(c.todo) \cup IF c.pc \in {"check", "graph"} THEN c.proposed ELSE {}

\* What a call returns is written before it is verified, and what it refers to is
\* what the verification reads.
Returns(c) ==
    /\ \A r \in c.result : r \in records \cup Pending(c) /\ r.type # "baseline_policy"
    /\ c.pc = "verifying" =>
           c.seen \subseteq records /\ \A r \in c.result : r.refs \subseteq c.seen

Good(c) ==
    /\ Returns(c)
    /\ DOMAIN c = Fields
    /\ c.todo \in Seq(ToSet(c.todo)) /\ c.settle = {} /\ IsFiniteSet(c.proposed)
    /\ \A r \in ToSet(c.todo) \cup c.proposed : Sound(r)
    /\ Ordered(c.todo)
    /\ c.pc \notin {"check", "write"} => c.todo = <<>>
    /\ c.pc = "check" /\ c.proposed # {} => c.todo = <<>>
    /\ c.pc \in {"check", "graph", "write", "append"} /\ c.event.kind # "none" =>
           \E r \in records \cup Pending(c) : Names(c.event, r)
    /\ \A r \in c.result : IsUse(r) =>
           /\ c.event = UseEvent(r)
           /\ c.pc \in {"verify", "verifying"} => UseEvent(r) \in ToSet(events["local-use"])

UseFields == {"kind", "id", "artifact", "model", "group", "target", "copied"}

UseOf(u, q) ==
    /\ DOMAIN u = UseFields
    /\ \A f \in UseFields \ {"copied"} : u[f] = q[f]

Serves(c, u) ==
    c.pc \in {"context", "infer", "copy", "bundle"} =>
        /\ \E q \in UseRequest : UseOf(u, q)
        /\ c.proposed = {}
        /\ c.pc # "context" => {u.artifact, u.model, u.group, u.target} \subseteq records
        /\ c.pc \in {"copy", "bundle"} => u.kind = "export"

TypeOK ==
    /\ call = [s \in Service |-> call[s]] /\ use = [s \in Service |-> use[s]]
    /\ DOMAIN events = Stream
    /\ \A n \in Stream : events[n] \in Seq(ToSet(events[n]))
    /\ DOMAIN files = Exports \cup {a.id : a \in SeedArtifacts}
    /\ \A d \in Exports : DOMAIN files[d] = ToSet(Member) \cup {Manifested}

Keyed(n) ==
    \A x, y \in ToSet(events[n]) : x.kind = y.kind /\ x.id = y.id => x = y

Backed(n) == \A e \in ToSet(events[n]) : \E r \in records : Names(e, r)

Told == \A r \in acknowledged : IsUse(r) => UseEvent(r) \in ToSet(events["local-use"])

\* What a call returned has no baseline that dangles.
Whole == \A r \in acknowledged : \A part \in r.refs : part.refs \subseteq records

Shared ==
    /\ Seed \subseteq records /\ ClosedButBaselines(records) /\ Whole
    /\ \A r \in records : Sound(r)
    /\ \A n \in Stream : Keyed(n) /\ Backed(n)
    /\ Told

IInv ==
    /\ TypeOK
    /\ Shared
    /\ \A s \in Service : Good(call[s]) /\ Serves(call[s], use[s])

-----------------------------------------------------------------------------

\* A sequence is one over its own elements, and so are its tail and what Append
\* makes of it.
LEMMA OwnMembers ==
    ASSUME NEW S, NEW q \in Seq(S)
    PROVE  q \in Seq(ToSet(q)) /\ DOMAIN q = 1 .. Len(q) /\ Len(q) \in Nat
<1>1. q \in [1 .. Len(q) -> S] /\ DOMAIN q = 1 .. Len(q) /\ Len(q) \in Nat
  BY LenProperties
<1>2. \A i \in 1 .. Len(q) : q[i] \in ToSet(q)
  BY <1>1 DEF ToSet
<1> QED
  BY <1>1, <1>2

\* The empty sequence has no elements.
LEMMA NoMembers == ToSet(<<>>) = {} /\ <<>> \in Seq(ToSet(<<>>)) /\ DOMAIN <<>> = {}
  BY DEF ToSet

\* A sequence of one has that one element.
LEMMA OneMember == ASSUME NEW x PROVE ToSet(<<x>>) = {x} /\ <<x>> \in Seq(ToSet(<<x>>))
  <1>1. ToSet(<<x>>) = {x}
    BY DEF ToSet
  <1> QED
    BY <1>1

\* The elements of a sequence are its head and those of its tail.
LEMMA HeadTail ==
    ASSUME NEW q, q \in Seq(ToSet(q)), q # <<>>
    PROVE  /\ Tail(q) \in Seq(ToSet(Tail(q))) /\ Head(q) = q[1] /\ Head(q) \in ToSet(q)
           /\ ToSet(q) = {Head(q)} \cup ToSet(Tail(q))
           /\ Len(q) \in Nat \ {0} /\ Len(Tail(q)) = Len(q) - 1
           /\ \A i \in 1 .. Len(q) - 1 : Tail(q)[i] = q[i + 1]
<1> DEFINE S == ToSet(q)
           t == Tail(q)
<1>1. q \in Seq(S) /\ Len(q) \in Nat /\ Len(q) # 0
  BY EmptySeq
<1>2. t \in Seq(S) /\ Len(t) = Len(q) - 1 /\ \A i \in 1 .. Len(q) - 1 : t[i] = q[i + 1]
  BY <1>1
<1>3. DOMAIN q = 1 .. Len(q) /\ DOMAIN t = 1 .. Len(q) - 1
  <2> HIDE DEF t
  <2>1. DOMAIN q = 1 .. Len(q) /\ DOMAIN t = 1 .. Len(t)
    BY <1>1, <1>2, LenProperties, Zenon
  <2> QED
    BY <1>2, <2>1, Zenon
<1>4. t \in Seq(ToSet(t))
  BY <1>2, OwnMembers
<1>5. Head(q) = q[1] /\ q[1] \in ToSet(q)
  BY <1>1, <1>3 DEF ToSet
<1>6. ToSet(q) = {q[1]} \cup ToSet(t)
  <2>1. ASSUME NEW x \in ToSet(q) PROVE x \in {q[1]} \cup ToSet(t)
    <3>1. PICK i \in 1 .. Len(q) : x = q[i]
      BY <1>3, <2>1 DEF ToSet
    <3>2. CASE i # 1
      <4>1. i - 1 \in 1 .. Len(q) - 1 /\ t[i - 1] = q[(i - 1) + 1] /\ (i - 1) + 1 = i
        BY <1>1, <1>2, <3>1, <3>2
      <4> QED
        BY <1>3, <3>1, <4>1 DEF ToSet
    <3> QED
      BY <3>1, <3>2
  <2>2. ASSUME NEW x \in ToSet(t) PROVE x \in ToSet(q)
    <3>1. PICK i \in 1 .. Len(q) - 1 : x = t[i]
      BY <1>3, <2>2 DEF ToSet
    <3>2. i + 1 \in 1 .. Len(q) /\ x = q[i + 1]
      BY <1>1, <1>2, <3>1
    <3> QED
      BY <1>3, <3>2 DEF ToSet
  <2> QED
    BY <1>5, <2>1, <2>2
<1> QED
  BY <1>1, <1>2, <1>4, <1>5, <1>6

\* What is appended joins the elements.
LEMMA Appending ==
    ASSUME NEW q, q \in Seq(ToSet(q)), NEW e
    PROVE  /\ Append(q, e) \in Seq(ToSet(Append(q, e)))
           /\ ToSet(Append(q, e)) = ToSet(q) \cup {e}
<1> DEFINE S == ToSet(q) \cup {e}
           t == Append(q, e)
<1>1. q \in Seq(S) /\ Len(q) \in Nat /\ DOMAIN q = 1 .. Len(q)
  OBVIOUS
<1>2. /\ t \in Seq(S) /\ Len(t) = Len(q) + 1 /\ t[Len(q) + 1] = e
      /\ \A i \in 1 .. Len(q) : t[i] = q[i]
  BY <1>1
<1>3. DOMAIN t = 1 .. Len(q) + 1
  BY <1>1, <1>2
<1>4. t \in Seq(ToSet(t))
  BY <1>2, <1>3 DEF ToSet
<1>5. ASSUME NEW x PROVE x \in ToSet(t) <=> x \in ToSet(q) \cup {e}
  <2>1. x \in ToSet(t) <=> \E i \in 1 .. Len(q) + 1 : x = t[i]
    BY <1>3 DEF ToSet
  <2>2. x \in ToSet(q) <=> \E i \in 1 .. Len(q) : x = q[i]
    BY <1>1 DEF ToSet
  <2>3. \A i : i \in 1 .. Len(q) + 1 <=> i \in 1 .. Len(q) \/ i = Len(q) + 1
    BY <1>1
  <2> HIDE DEF t
  <2> QED
    BY <1>2, <2>1, <2>2, <2>3
<1> QED
  BY <1>4, <1>5

-----------------------------------------------------------------------------
(* The fields of a call                                                    *)

\* A process that serves nothing.
LEMMA IdleFields ==
    /\ DOMAIN Idle = Fields /\ Idle.pc = "idle" /\ Idle.todo = <<>> /\ Idle.proposed = {}
    /\ Idle.single = {} /\ Idle.settle = {} /\ Idle.event = NoEvent /\ Idle.result = {}
  BY DEF Idle, Fields

\* What Request fills in.
LEMMA RequestFields ==
    ASSUME NEW pc, NEW todo, NEW single, NEW event, NEW c, c = Request(pc, todo, single, event)
    PROVE  /\ DOMAIN c = Fields /\ c.pc = pc /\ c.todo = todo /\ c.proposed = {}
           /\ c.single = single /\ c.settle = {} /\ c.event = event
           /\ todo = <<>> => c.result = {}
           /\ todo # <<>> => c.result = {Last(todo)}
  BY DEF Request, Idle, Fields

\* A process that serves nothing has nothing left to write or to tell.
LEMMA IdleGood == Good(Idle) /\ Good(Idle)'
  BY IdleFields, NoMembers, FS_EmptySet DEF Good, Returns, Ordered, NoEvent, Pending

\* It serves no use either.
LEMMA IdleServes ==
    ASSUME NEW u
    PROVE  Serves(Idle, u)
  BY IdleFields DEF Serves

-----------------------------------------------------------------------------
(* What the steps of others leave of a call                                *)

\* What no step takes back: records, events, and bytes that records tell of.
Grows ==
    /\ records \subseteq records'
    /\ \A n \in Stream : ToSet(events[n]) \subseteq ToSet(events'[n])
    /\ \A r : Sound(r) => Sound(r)'

\* A call stays good while the store grows under it.
LEMMA Keeps ==
    ASSUME NEW c, Good(c), Grows
    PROVE  Good(c)'
<1>1. Ordered(c.todo)'
  BY DEF Ordered, Grows, Good
<1>2. \A r \in ToSet(c.todo) \cup c.proposed : Sound(r)'
  BY DEF Grows, Good
<1>3. c.pc \in {"check", "graph", "write", "append"} /\ c.event.kind # "none" =>
           \E r \in records' \cup Pending(c) : Names(c.event, r)
  BY DEF Grows, Good
<1>4. "local-use" \in Stream
  BY StreamAssumption
<1>5. \A r \in c.result : IsUse(r) =>
           /\ c.event = UseEvent(r)
           /\ c.pc \in {"verify", "verifying"} => UseEvent(r) \in ToSet(events'["local-use"])
  BY <1>4 DEF Grows, Good
<1>6. Returns(c)'
  BY DEF Grows, Good, Returns, Pending
<1> QED
  BY <1>1, <1>2, <1>3, <1>5, <1>6 DEF Good

\* So does the use it serves.
LEMMA ServesOn ==
    ASSUME NEW c, NEW u, Serves(c, u), records \subseteq records'
    PROVE  Serves(c, u)'
  BY DEF Serves

\* One process moves on and the others keep what they had.
LEMMA Processes ==
    ASSUME IInv, Grows, NEW s \in Service, NEW c, NEW u,
           call' = [call EXCEPT ![s] = c], use' = [use EXCEPT ![s] = u],
           Good(c)', Serves(c, u)'
    PROVE  /\ call' = [o \in Service |-> call'[o]] /\ use' = [o \in Service |-> use'[o]]
           /\ \A o \in Service : Good(call[o])' /\ Serves(call[o], use[o])'
<1>1. DOMAIN call = Service /\ DOMAIN use = Service
  BY DEF IInv, TypeOK
<1>2. call' = [o \in Service |-> call'[o]] /\ use' = [o \in Service |-> use'[o]]
  BY <1>1
<1>3. ASSUME NEW o \in Service PROVE Good(call[o])' /\ Serves(call[o], use[o])'
  <2>1. CASE o = s
    <3>1. call'[s] = c /\ use'[s] = u
      BY <1>1
    <3> QED
      BY <2>1, <3>1
  <2>2. CASE o # s
    <3>1. PICK d : d = call[o]
      OBVIOUS
    <3>2. PICK v : v = use[o]
      OBVIOUS
    <3>3. call'[o] = d /\ use'[o] = v
      BY <1>1, <2>2, <3>1, <3>2
    <3>4. Good(d) /\ Serves(d, v)
      BY <3>1, <3>2 DEF IInv
    <3>5. Good(d)' /\ Serves(d, v)'
      BY <3>4, Keeps, ServesOn DEF Grows
    <3> QED
      BY <3>3, <3>5
  <2> QED
    BY <2>1, <2>2
<1> QED
  BY <1>2, <1>3

\* A process moves and nothing of the store or of the disk changes.
LEMMA Quiet ==
    ASSUME IInv, NEW s \in Service, NEW c, NEW u,
           call' = [call EXCEPT ![s] = c], use' = [use EXCEPT ![s] = u],
           UNCHANGED <<records, events, acknowledged, files>>,
           Good(c), Serves(c, u)
    PROVE  IInv'
<1>1. Grows
  BY DEF Grows, Sound, ExportIntact
<1>2. Good(c)' /\ Serves(c, u)'
  BY <1>1, Keeps, ServesOn DEF Grows
<1>3. /\ call' = [o \in Service |-> call'[o]] /\ use' = [o \in Service |-> use'[o]]
      /\ \A o \in Service : Good(call[o])' /\ Serves(call[o], use[o])'
  BY <1>1, <1>2, Processes
<1>4. Shared'
  BY DEF IInv, Shared, ClosedButBaselines, Whole, Sound, ExportIntact, Keyed, Backed, Told
<1>5. TypeOK'
  BY <1>3 DEF IInv, TypeOK
<1> QED
  BY <1>3, <1>4, <1>5 DEF IInv

\* Using what is there again: no process but the one that serves a use changes it.
LEMMA SameUse ==
    ASSUME IInv, NEW s \in Service, UNCHANGED use
    PROVE  use' = [use EXCEPT ![s] = use[s]]
  BY DEF IInv, TypeOK

\* The same when the use is what it was.
LEMMA QuietMove ==
    ASSUME IInv, NEW s \in Service, NEW c,
           call' = [call EXCEPT ![s] = c],
           UNCHANGED <<records, events, acknowledged, files, use>>,
           Good(c), Serves(c, use[s])
    PROVE  IInv'
<1>1. PICK u : u = use[s]
  OBVIOUS
<1>2. use' = [use EXCEPT ![s] = u] /\ Serves(c, u)
  BY <1>1, SameUse
<1> QED
  BY <1>2, Quiet

\* A call that ends leaves nothing behind it to keep.
LEMMA EndStep ==
    ASSUME IInv, NEW s \in Service, Ends(s),
           UNCHANGED <<records, events, acknowledged, files, use>>
    PROVE  IInv'
<1>1. PICK c : c = Idle
  OBVIOUS
<1>2. Good(c) /\ Serves(c, use[s])
  BY <1>1, IdleGood, IdleServes
<1> QED
  BY <1>1, <1>2, QuietMove DEF Ends, Moves

\* A request that proposes nothing.
LEMMA GoodRequest ==
    ASSUME NEW pc \in {"check", "context"}, NEW todo, NEW single, NEW event,
           todo \in Seq(ToSet(todo)), Ordered(todo), \A r \in ToSet(todo) : Sound(r),
           pc = "check" \/ todo = <<>>,
           event.kind # "none" => \E r \in ToSet(todo) : Names(event, r),
           todo # <<>> => /\ IsUse(Last(todo)) => event = UseEvent(Last(todo))
                          /\ Last(todo) \in ToSet(todo)
                          /\ Last(todo).type # "baseline_policy"
    PROVE  Good(Request(pc, todo, single, event))
<1>1. PICK c : c = Request(pc, todo, single, event)
  OBVIOUS
<1>2. /\ DOMAIN c = Fields /\ c.pc = pc /\ c.todo = todo /\ c.proposed = {} /\ c.settle = {}
      /\ c.event = event
      /\ todo = <<>> => c.result = {}
      /\ todo # <<>> => c.result = {Last(todo)}
  BY <1>1, RequestFields
<1> HIDE <1>1
<1>3. Returns(c)
  BY <1>2 DEF Returns, Pending
<1>4. Good(c)
  BY <1>2, <1>3, FS_EmptySet DEF Good, Pending
<1> QED
  BY <1>1, <1>4

-----------------------------------------------------------------------------
(* The order in which the records of a graph are written                   *)

\* An order of a candidate graph lists the graph, each record behind those
\* of the graph it refers to.
LEMMA OrdersOf ==
    ASSUME NEW S, IsFiniteSet(S), NEW order \in WriteOrders(S)
    PROVE  /\ order \in Seq(ToSet(order)) /\ ToSet(order) = S
           /\ \A i, j \in DOMAIN order : order[i] \in order[j].refs => i < j
<1> DEFINE D == 1 .. Cardinality(S)
<1>1. order \in SetToSeqs(S) /\ \A i, j \in DOMAIN order : order[i] \in order[j].refs => i < j
  BY DEF WriteOrders
<1>2. Cardinality(S) \in Nat
  BY FS_CardinalityType
<1>3. order \in [D -> S] /\ \A i, j \in D : i # j => order[i] # order[j]
  BY <1>1 DEF SetToSeqs
<1>4. IsFiniteSet(D) /\ Cardinality(D) = Cardinality(S)
  BY <1>2, FS_Interval
<1>5. order \in Injection(D, S)
  BY <1>3 DEF Injection, IsInjective
<1>6. order \in Surjection(D, S)
  BY <1>4, <1>5, FS_Injection
<1>7. \A y \in S : \E i \in D : order[i] = y
  BY <1>6 DEF Surjection
<1>8. ToSet(order) = S /\ DOMAIN order = D
  BY <1>3, <1>7 DEF ToSet
<1>9. order \in Seq(S)
  BY <1>2, <1>3
<1> QED
  BY <1>1, <1>8, <1>9

-----------------------------------------------------------------------------
(* The steps of the store                                                  *)

\* A call that goes on with the proposal, the event and the result it had.
Continues(c, d) ==
    /\ DOMAIN d = Fields /\ d.proposed = c.proposed
    /\ d.settle = c.settle /\ d.event = c.event /\ d.result = c.result

\* A call goes on with what it has.
LEMMA GoodMove ==
    ASSUME NEW c, Good(c), NEW d, Continues(c, d),
           d.todo \in Seq(ToSet(d.todo)), Ordered(d.todo),
           \A r \in ToSet(d.todo) : Sound(r),
           d.pc # "write" => d.todo = <<>>,
           d.pc \in {"graph", "write", "append"} /\ c.event.kind # "none" =>
               \E r \in records \cup Pending(d) : Names(c.event, r),
           d.pc \in {"graph", "write", "append", "verify", "verifying"},
           d.pc \in {"verify", "verifying"} => \A r \in c.result : IsUse(r) =>
               UseEvent(r) \in ToSet(events["local-use"]),
           \A r \in c.result : r \in records \cup Pending(d),
           d.pc = "verifying" =>
               d.seen \subseteq records /\ \A r \in c.result : r.refs \subseteq d.seen
    PROVE  Good(d)
<1>1. /\ c.settle = {} /\ IsFiniteSet(c.proposed) /\ \A r \in c.proposed : Sound(r)
      /\ \A r \in c.result : IsUse(r) => c.event = UseEvent(r)
  BY DEF Good
<1>2. Returns(d)
  BY DEF Good, Returns, Continues
<1> QED
  BY <1>1, <1>2 DEF Good, Continues

\* require_no_conflicting_logical_revision() only reads.
LEMMA CheckRevisionsStep ==
    ASSUME IInv, NEW s \in Service, CheckRevisions(s), UNCHANGED localVars
    PROVE  IInv'
<1>1. /\ call[s].pc = "check" /\ UNCHANGED <<records, events, acknowledged, files, use>>
  BY DEF CheckRevisions, At, localVars
<1>2. CASE Ends(s)
  BY <1>1, <1>2, EndStep
<1>3. CASE Moves(s, [call[s] EXCEPT !.pc = IF call[s].proposed # {} THEN "graph" ELSE "write"])
  <2>1. PICK c : c = call[s]
    OBVIOUS
  <2>2. Good(c) /\ c.pc = "check"
    BY <1>1, <2>1 DEF IInv
  <2>3. PICK d : d = [c EXCEPT !.pc = IF c.proposed # {} THEN "graph" ELSE "write"]
    OBVIOUS
  <2>4. DOMAIN c = Fields
    BY <2>2 DEF Good
  <2>5. Continues(c, d) /\ d.todo = c.todo /\ d.pc = IF c.proposed # {} THEN "graph" ELSE "write"
    BY <2>3, <2>4 DEF Continues, Fields
  <2>6. /\ c.todo \in Seq(ToSet(c.todo)) /\ Ordered(c.todo)
        /\ \A r \in ToSet(c.todo) : Sound(r)
        /\ c.proposed # {} => c.todo = <<>>
    BY <2>2 DEF Good
  <2>7. c.event.kind # "none" => \E r \in records \cup ToSet(c.todo) \cup c.proposed : Names(c.event, r)
    BY <2>2 DEF Good, Pending
  <2>8. c.event.kind # "none" => \E r \in records \cup Pending(d) : Names(c.event, r)
    BY <2>5, <2>7 DEF Pending, Continues
  <2>9. Good(d)
    <3>1. \A r \in c.result : r \in records \cup Pending(d)
      BY <2>2, <2>5 DEF Good, Returns, Pending, Continues
    <3> QED
      BY <2>2, <2>5, <2>6, <2>8, <3>1, GoodMove
  <2>10. Serves(d, use[s])
    BY <2>5 DEF Serves
  <2> QED
    BY <1>1, <1>3, <2>1, <2>3, <2>9, <2>10, QuietMove DEF Moves
<1> QED
  BY <1>2, <1>3 DEF CheckRevisions

\* The scan of verify() begins; the event of a use has been appended.
LEMMA StartVerifyStep ==
    ASSUME IInv, NEW s \in Service, StartVerify(s), UNCHANGED localVars
    PROVE  IInv'
<1>1. /\ call[s].pc = "verify" /\ UNCHANGED <<records, events, acknowledged, files, use>>
      /\ Moves(s, [call[s] EXCEPT !.pc = "verifying", !.seen = records])
  BY DEF StartVerify, At, localVars
<1>2. PICK c : c = call[s]
  OBVIOUS
<1>3. Good(c) /\ c.pc = "verify"
  BY <1>1, <1>2 DEF IInv
<1>4. PICK d : d = [c EXCEPT !.pc = "verifying", !.seen = records]
  OBVIOUS
<1>5. Continues(c, d) /\ d.todo = c.todo /\ d.pc = "verifying" /\ d.seen = records
  BY <1>3, <1>4 DEF Good, Continues, Fields
<1>6. c.todo = <<>> /\ c.todo \in Seq(ToSet(c.todo)) /\ Ordered(c.todo)
  BY <1>3 DEF Good
<1>7. \A r \in c.result : IsUse(r) => UseEvent(r) \in ToSet(events["local-use"])
  BY <1>3 DEF Good
<1>8. Good(d)
  <2>1. \A r \in c.result : r \in records /\ r.type # "baseline_policy"
    BY <1>3, <1>6, NoMembers DEF Good, Returns, Pending
  <2>2. \A r \in c.result : r.refs \subseteq records
    BY <2>1 DEF IInv, Shared, ClosedButBaselines
  <2> QED
    BY <1>3, <1>5, <1>6, <1>7, <2>1, <2>2, NoMembers, GoodMove
<1>9. Serves(d, use[s])
  BY <1>5 DEF Serves
<1> QED
  BY <1>1, <1>2, <1>4, <1>8, <1>9, QuietMove DEF Moves

\* The call returns; what it returns has its event if it is a use.
LEMMA AcknowledgeStep ==
    ASSUME IInv, NEW s \in Service, Acknowledge(s), UNCHANGED localVars
    PROVE  IInv'
<1>1. /\ call[s].pc = "verifying" /\ UNCHANGED <<records, events, files, use>>
      /\ acknowledged' = acknowledged \cup call[s].result /\ call' = [call EXCEPT ![s] = Idle]
  BY DEF Acknowledge, At, localVars, Ends, Moves
<1>2. Grows
  BY <1>1 DEF Grows, Sound, ExportIntact
<1>3. \A r \in call[s].result : IsUse(r) => UseEvent(r) \in ToSet(events["local-use"])
  BY <1>1 DEF IInv, Good
<1>4. Told'
  BY <1>1, <1>3 DEF IInv, Shared, Told
<1>5. Shared'
  <2>1. PICK c : c = call[s]
    OBVIOUS
  <2>2. Good(c) /\ c.pc = "verifying"
    BY <1>1, <2>1 DEF IInv
  <2>3. PICK R : R \in Scans(s) /\ Closed(R)
    BY DEF Acknowledge
  <2>4. c.seen \subseteq R /\ R \subseteq records
    <3>1. PICK i : R = Scanned(s, i)
      BY <2>3 DEF Scans
    <3>2. c.seen \subseteq records
      BY <2>2 DEF Good, Returns
    <3>3. ASSUME NEW r \in c.seen PROVE r \in R
      BY <2>1, <3>1, <3>2, <3>3 DEF Scanned
    <3> QED
      BY <2>1, <3>1, <3>2, <3>3 DEF Scanned
  <2>5. \A r \in c.result : \A part \in r.refs : part.refs \subseteq records
    BY <2>2, <2>3, <2>4 DEF Good, Returns, Closed
  <2>6. Whole'
    BY <1>1, <2>1, <2>5 DEF IInv, Shared, Whole
  <2> QED
    BY <1>1, <1>4, <2>6 DEF IInv, Shared, ClosedButBaselines, Whole, Sound, ExportIntact, Keyed, Backed
<1>6. PICK c : c = Idle
  OBVIOUS
<1>7. PICK u : u = use[s]
  OBVIOUS
<1>8. use' = [use EXCEPT ![s] = u]
  BY <1>1, <1>7, SameUse
<1>9. Good(c)' /\ Serves(c, u)'
  BY <1>6, IdleGood, IdleFields DEF Serves
<1>10. /\ call' = [o \in Service |-> call'[o]] /\ use' = [o \in Service |-> use'[o]]
       /\ \A o \in Service : Good(call[o])' /\ Serves(call[o], use[o])'
  BY <1>1, <1>2, <1>6, <1>8, <1>9, Processes
<1>11. TypeOK'
  BY <1>1, <1>10 DEF IInv, TypeOK
<1> QED
  BY <1>5, <1>10, <1>11 DEF IInv

\* The candidate graph is closed, so its order has no dangling record.
LEMMA PrepareGraphStep ==
    ASSUME IInv, NEW s \in Service, PrepareGraph(s), UNCHANGED localVars
    PROVE  IInv'
<1>1. /\ call[s].pc = "graph" /\ UNCHANGED <<records, events, acknowledged, files, use>>
  BY DEF PrepareGraph, At, localVars
<1>2. CASE Ends(s)
  BY <1>1, <1>2, EndStep
<1>3. CASE /\ Closed(records \cup call[s].proposed)
           /\ \E order \in WriteOrders(call[s].proposed \ records) : Moves(s, [call[s] EXCEPT
                  !.pc = IF order = <<>> THEN "append" ELSE "write", !.todo = order])
  <2>1. PICK c : c = call[s]
    OBVIOUS
  <2>2. Good(c) /\ c.pc = "graph"
    BY <1>1, <2>1 DEF IInv
  <2>3. PICK S : S = c.proposed \ records
    OBVIOUS
  <2>4. IsFiniteSet(S)
    BY <2>2, <2>3, FS_Difference DEF Good
  <2>5. PICK order \in WriteOrders(S) :
            call' = [call EXCEPT ![s] = [c EXCEPT
                !.pc = IF order = <<>> THEN "append" ELSE "write", !.todo = order]]
    BY <1>3, <2>1, <2>3 DEF Moves
  <2>6. /\ order \in Seq(ToSet(order)) /\ ToSet(order) = S
        /\ \A i, j \in DOMAIN order : order[i] \in order[j].refs => i < j
    BY <2>4, OrdersOf
  <2>7. PICK d : d = [c EXCEPT !.pc = IF order = <<>> THEN "append" ELSE "write", !.todo = order]
    OBVIOUS
  <2>8. /\ Continues(c, d) /\ d.todo = order
        /\ d.pc = IF order = <<>> THEN "append" ELSE "write"
    BY <2>2, <2>7 DEF Good, Continues, Fields
  <2>9. Ordered(order)
    <3> SUFFICES ASSUME NEW j \in DOMAIN order, NEW x \in order[j].refs, x \notin records
                 PROVE  \E i \in 1 .. j - 1 : x = order[i]
      BY DEF Ordered
    <3>1. order[j] \in S
      BY <2>6 DEF ToSet
    <3>2. x \in S
      BY <1>3, <2>1, <2>3, <3>1 DEF Closed
    <3>3. PICK i \in DOMAIN order : x = order[i]
      BY <2>6, <3>2 DEF ToSet
    <3>4. i < j
      BY <2>6, <3>3
    <3>5. DOMAIN order = 1 .. Len(order) /\ Len(order) \in Nat
      BY <2>6, LenProperties
    <3>6. i \in 1 .. j - 1
      BY <3>4, <3>5
    <3> QED
      BY <3>3, <3>6
  <2>10. \A r \in ToSet(d.todo) : Sound(r)
    BY <2>2, <2>3, <2>6, <2>8 DEF Good
  <2>11. c.event.kind # "none" => \E r \in records \cup Pending(d) : Names(c.event, r)
    <3>1. c.todo = <<>>
      BY <2>2 DEF Good
    <3>2. c.event.kind # "none" => \E r \in records \cup c.proposed : Names(c.event, r)
      BY <2>2, <3>1, NoMembers DEF Good, Pending
    <3> QED
      BY <2>3, <2>6, <2>8, <3>2 DEF Pending
  <2>12. Good(d)
    <3>1. \A r \in c.result : r \in records \cup Pending(d)
      <4>1. c.todo = <<>>
        BY <2>2 DEF Good
      <4>2. \A r \in c.result : r \in records \cup c.proposed
        BY <2>2, <4>1, NoMembers DEF Good, Returns, Pending
      <4> QED
        BY <2>3, <2>6, <2>8, <4>2 DEF Pending
    <3> QED
      BY <2>2, <2>6, <2>8, <2>9, <2>10, <2>11, <3>1, GoodMove
  <2>13. Serves(d, use[s])
    BY <2>8 DEF Serves
  <2> QED
    BY <1>1, <2>5, <2>7, <2>12, <2>13, QuietMove
<1> QED
  BY <1>2, <1>3 DEF PrepareGraph

\* A refused scan and a crash end the call where it is.
LEMMA RefusedStep ==
    ASSUME IInv, NEW s \in Service, ScanRefused(s) \/ Crash(s), UNCHANGED localVars
    PROVE  IInv'
<1>1. Ends(s) /\ UNCHANGED <<records, events, acknowledged, files, use>>
  BY DEF ScanRefused, Crash, localVars
<1> QED
  BY <1>1, EndStep

\* A record is written when those it refers to are, and what it is written for
\* is still to be written or there.
LEMMA WriteRecordStep ==
    ASSUME IInv, NEW s \in Service, WriteRecord(s), UNCHANGED localVars
    PROVE  IInv'
<1>1. PICK c : c = call[s]
  OBVIOUS
<1>2. Good(c) /\ c.pc = "write" /\ c.todo # <<>>
  BY <1>1 DEF WriteRecord, At, IInv
<1>3. PICK r : r = Head(c.todo)
  OBVIOUS
<1>4. PICK rest : rest = Tail(c.todo)
  OBVIOUS
<1>5. PICK d : d = [c EXCEPT !.todo = rest, !.pc = IF rest = <<>> THEN AfterWrites(c) ELSE @]
  OBVIOUS
<1>6. /\ records' = records \cup {r} /\ call' = [call EXCEPT ![s] = d]
      /\ UNCHANGED <<events, acknowledged, files, use>>
  BY <1>1, <1>3, <1>4, <1>5 DEF WriteRecord, Written, Moves, localVars
<1>7. c.settle = {} /\ c.todo \in Seq(ToSet(c.todo))
  BY <1>2 DEF Good
<1>8. AfterWrites(c) = "append"
  BY <1>7 DEF AfterWrites
<1>9. Continues(c, d) /\ d.todo = rest /\ d.pc = IF rest = <<>> THEN "append" ELSE "write"
  BY <1>2, <1>5, <1>8 DEF Good, Continues, Fields
<1>10. /\ rest \in Seq(ToSet(rest)) /\ r = c.todo[1] /\ ToSet(c.todo) = {r} \cup ToSet(rest)
       /\ Len(c.todo) \in Nat \ {0} /\ Len(rest) = Len(c.todo) - 1
       /\ \A i \in 1 .. Len(c.todo) - 1 : rest[i] = c.todo[i + 1]
  BY <1>2, <1>3, <1>4, <1>7, HeadTail
<1>11. DOMAIN c.todo = 1 .. Len(c.todo) /\ DOMAIN rest = 1 .. Len(c.todo) - 1
  BY <1>7, <1>10, LenProperties
<1>12. (r.type # "baseline_policy" => r.refs \subseteq records) /\ Sound(r)
  <2>1. 1 \in DOMAIN c.todo /\ 1 .. 1 - 1 = {}
    BY <1>10, <1>11
  <2>2. r.type # "baseline_policy" => r.refs \subseteq records \cup {c.todo[j] : j \in 1 .. 1 - 1}
    BY <1>2, <1>10, <2>1 DEF Good, Ordered
  <2> QED
    BY <1>2, <1>10, <2>1, <2>2 DEF Good
<1>13. Grows
  BY <1>6 DEF Grows, Sound, ExportIntact
<1>14. Shared'
  <2>1. ClosedButBaselines(records)' /\ \A q \in records' : Sound(q)'
    BY <1>6, <1>12, <1>13 DEF IInv, Shared, ClosedButBaselines, Grows
  <2>2. Whole'
    BY <1>6 DEF IInv, Shared, Whole
  <2> QED
    BY <1>6, <2>1, <2>2 DEF IInv, Shared, Keyed, Backed, Told
<1>15. Ordered(rest)'
  <2> SUFFICES ASSUME NEW i \in DOMAIN rest, rest[i].type # "baseline_policy",
                      NEW x \in rest[i].refs, x \notin records, x # r
               PROVE  \E j \in 1 .. i - 1 : x = rest[j]
    BY <1>6 DEF Ordered
  <2>1. i \in 1 .. Len(c.todo) - 1 /\ i + 1 \in DOMAIN c.todo /\ rest[i] = c.todo[i + 1]
    BY <1>10, <1>11
  <2>2. PICK k \in 1 .. (i + 1) - 1 : x = c.todo[k]
    BY <1>2, <2>1 DEF Good, Ordered
  <2>3. k # 1
    BY <1>10, <2>2
  <2>4. k - 1 \in 1 .. i - 1 /\ k - 1 \in 1 .. Len(c.todo) - 1 /\ (k - 1) + 1 = k
    BY <1>10, <2>1, <2>2, <2>3
  <2>5. x = rest[k - 1]
    BY <1>10, <2>2, <2>4
  <2> QED
    BY <2>4, <2>5
<1>16. c.event.kind # "none" => \E q \in records' \cup Pending(d) : Names(c.event, q)
  BY <1>2, <1>6, <1>9, <1>10 DEF Good, Pending
<1>17. Good(d)'
  <2>1. \A q \in ToSet(rest) \cup d.proposed : Sound(q)'
    BY <1>2, <1>9, <1>10, <1>13 DEF Good, Grows, Continues
  <2>2. IsFiniteSet(c.proposed) /\ \A q \in c.result : IsUse(q) => c.event = UseEvent(q)
    BY <1>2 DEF Good
  <2>3. Returns(d)'
    <3>1. \A q \in c.result : q \in records \cup {r} \cup ToSet(rest) /\ q.type # "baseline_policy"
      BY <1>2, <1>10 DEF Good, Returns, Pending
    <3>2. d.pc # "verifying"
      BY <1>9
    <3> QED
      BY <1>6, <1>9, <3>1, <3>2 DEF Returns, Pending, Continues
  <2> QED
    BY <1>7, <1>9, <1>10, <1>15, <1>16, <2>1, <2>2, <2>3 DEF Good, Continues
<1>18. PICK u : u = use[s]
  OBVIOUS
<1>19. use' = [use EXCEPT ![s] = u]
  BY <1>6, <1>18, SameUse
<1>20. Serves(d, u)'
  BY <1>9 DEF Serves
<1>21. /\ call' = [o \in Service |-> call'[o]] /\ use' = [o \in Service |-> use'[o]]
       /\ \A o \in Service : Good(call[o])' /\ Serves(call[o], use[o])'
  BY <1>6, <1>13, <1>17, <1>19, <1>20, Processes
<1>22. TypeOK'
  BY <1>6, <1>21 DEF IInv, TypeOK
<1> QED
  BY <1>14, <1>21, <1>22 DEF IInv

\* An event is appended once under its key, after the record it names.
LEMMA AppendEventStep ==
    ASSUME IInv, NEW s \in Service, AppendEvent(s), UNCHANGED localVars
    PROVE  IInv'
<1>1. PICK c : c = call[s]
  OBVIOUS
<1>2. PICK e : e = c.event
  OBVIOUS
<1>3. Good(c) /\ c.pc = "append"
  BY <1>1 DEF AppendEvent, At, IInv
<1>4. c.todo = <<>> /\ DOMAIN c = Fields
  BY <1>3 DEF Good
<1>5. e.kind # "none" => \E r \in records : Names(e, r)
  BY <1>2, <1>3, <1>4, NoMembers DEF Good, Pending
<1>6. /\ UNCHANGED <<records, acknowledged, files, use>>
      /\ IF e.kind = "none" \/ Held(e) # {} THEN UNCHANGED events ELSE events' = Appended(e)
      /\ IF Held(e) \ {e} # {} THEN call' = [call EXCEPT ![s] = Idle]
         ELSE call' = [call EXCEPT ![s] = [c EXCEPT !.pc = "verify"]]
  BY <1>1, <1>2 DEF AppendEvent, Ends, Moves, localVars
<1>7. /\ DOMAIN events = Stream /\ \A n \in Stream : events[n] \in Seq(ToSet(events[n]))
  BY DEF IInv, TypeOK
<1>8. /\ DOMAIN events' = Stream
      /\ \A n \in Stream : \/ events'[n] = events[n]
                           \/ /\ n = e.stream /\ events'[n] = Append(events[n], e)
                              /\ Held(e) = {} /\ e.kind # "none"
  BY <1>6, <1>7 DEF Appended
<1>9. \A n \in Stream : /\ events'[n] \in Seq(ToSet(events'[n]))
                        /\ \/ ToSet(events'[n]) = ToSet(events[n])
                           \/ /\ n = e.stream /\ ToSet(events'[n]) = ToSet(events[n]) \cup {e}
                              /\ Held(e) = {} /\ e.kind # "none"
  <2> SUFFICES ASSUME NEW n \in Stream
               PROVE  /\ events'[n] \in Seq(ToSet(events'[n]))
                      /\ \/ ToSet(events'[n]) = ToSet(events[n])
                         \/ /\ n = e.stream /\ ToSet(events'[n]) = ToSet(events[n]) \cup {e}
                            /\ Held(e) = {} /\ e.kind # "none"
    OBVIOUS
  <2>1. events[n] \in Seq(ToSet(events[n]))
    BY <1>7
  <2>2. CASE events'[n] = events[n]
    BY <2>1, <2>2
  <2>3. CASE /\ n = e.stream /\ events'[n] = Append(events[n], e)
             /\ Held(e) = {} /\ e.kind # "none"
    <3>1. PICK q : q = events[n]
      OBVIOUS
    <3>2. /\ Append(q, e) \in Seq(ToSet(Append(q, e)))
          /\ ToSet(Append(q, e)) = ToSet(q) \cup {e}
      BY <2>1, <3>1, Appending
    <3> QED
      BY <2>3, <3>1, <3>2
  <2> QED
    BY <1>8, <2>2, <2>3
<1>10. Grows
  <2>1. \A n \in Stream : ToSet(events[n]) \subseteq ToSet(events'[n])
    BY <1>9
  <2> QED
    BY <1>6, <2>1 DEF Grows, Sound, ExportIntact
<1>11. \A n \in Stream : Keyed(n)' /\ Backed(n)'
  <2> SUFFICES ASSUME NEW n \in Stream PROVE Keyed(n)' /\ Backed(n)'
    OBVIOUS
  <2>1. Keyed(n) /\ Backed(n)
    BY DEF IInv, Shared
  <2>2. CASE ToSet(events'[n]) = ToSet(events[n])
    BY <1>6, <2>1, <2>2 DEF Keyed, Backed
  <2>3. CASE /\ n = e.stream /\ ToSet(events'[n]) = ToSet(events[n]) \cup {e}
             /\ Held(e) = {} /\ e.kind # "none"
    <3>1. ASSUME NEW x \in ToSet(events[n]) PROVE ~(x.kind = e.kind /\ x.id = e.id)
      BY <2>3 DEF Held
    <3> QED
      BY <1>5, <1>6, <2>1, <2>3, <3>1 DEF Keyed, Backed
  <2> QED
    BY <1>9, <2>2, <2>3
<1>12. "local-use" \in Stream
  BY StreamAssumption
<1>13. Told'
  BY <1>6, <1>10, <1>12 DEF IInv, Shared, Told, Grows
<1>14. Shared'
  BY <1>6, <1>10, <1>11, <1>13 DEF IInv, Shared, ClosedButBaselines, Whole, Grows
<1>15. PICK u : u = use[s]
  OBVIOUS
<1>16. use' = [use EXCEPT ![s] = u]
  BY <1>6, <1>15, SameUse
<1>17. PICK d : call' = [call EXCEPT ![s] = d] /\
                (d = Idle \/ (Held(e) \ {e} = {} /\ d = [c EXCEPT !.pc = "verify"]))
  BY <1>6
<1>18. Good(d)' /\ Serves(d, u)'
  <2>1. CASE d = Idle
    BY <2>1, IdleGood, IdleFields DEF Serves
  <2>2. CASE Held(e) \ {e} = {} /\ d = [c EXCEPT !.pc = "verify"]
    <3>1. Continues(c, d) /\ d.todo = <<>> /\ d.pc = "verify"
      BY <1>4, <2>2 DEF Continues, Fields
    <3>2. ASSUME NEW r \in c.result, IsUse(r) PROVE UseEvent(r) \in ToSet(events'["local-use"])
      <4>1. e = UseEvent(r)
        BY <1>2, <1>3, <3>2 DEF Good
      <4>2. e.stream = "local-use" /\ e.kind # "none"
        BY <4>1 DEF UseEvent, Outcome
      <4>3. CASE Held(e) # {}
        <5>1. e \in Held(e)
          BY <2>2, <4>3
        <5>2. e \in ToSet(events["local-use"])
          BY <1>12, <4>2, <5>1 DEF Held
        <5> QED
          BY <1>10, <1>12, <4>1, <5>2 DEF Grows
      <4>4. CASE Held(e) = {}
        <5>1. events' = Appended(e)
          BY <1>6, <4>2, <4>4
        <5>2. events'["local-use"] = Append(events["local-use"], e)
          BY <1>7, <1>12, <4>2, <5>1 DEF Appended
        <5> QED
          BY <1>7, <1>12, <4>1, <5>2, Appending
      <4> QED
        BY <4>3, <4>4
    <3>3. /\ c.settle = {} /\ IsFiniteSet(c.proposed) /\ \A r \in c.proposed : Sound(r)
          /\ \A r \in c.result : IsUse(r) => c.event = UseEvent(r)
      BY <1>3 DEF Good
    <3>4. Returns(d)'
      <4>1. \A r \in c.result : r \in records /\ r.type # "baseline_policy"
        BY <1>3, <1>4, NoMembers DEF Good, Returns, Pending
      <4> QED
        BY <1>6, <3>1, <4>1 DEF Returns, Continues
    <3>5. Good(d)'
      BY <1>10, <3>1, <3>2, <3>3, <3>4, NoMembers DEF Good, Continues, Ordered, Grows
    <3> QED
      BY <3>1, <3>5 DEF Serves
  <2> QED
    BY <1>17, <2>1, <2>2
<1>19. /\ call' = [o \in Service |-> call'[o]] /\ use' = [o \in Service |-> use'[o]]
       /\ \A o \in Service : Good(call[o])' /\ Serves(call[o], use[o])'
  BY <1>10, <1>16, <1>17, <1>18, Processes
<1>20. TypeOK'
  BY <1>6, <1>8, <1>9, <1>19 DEF IInv, TypeOK
<1> QED
  BY <1>14, <1>19, <1>20 DEF IInv

-----------------------------------------------------------------------------
(* The requests                                                            *)

\* A dataset version is no use and refers to nothing.
LEMMA VersionFields ==
    ASSUME NEW source, NEW request
    PROVE  Version(source, request).type = "dataset_version"
           /\ Version(source, request).refs = {}
  BY DEF Version

\* A call whose request proposes nothing begins with good records to write.
LEMMA RequestStep ==
    ASSUME IInv, NEW s \in Service, NEW c, Called(s, c), UNCHANGED localVars,
           Good(c), c.pc = "check"
    PROVE  IInv'
<1>1. call' = [call EXCEPT ![s] = c] /\ UNCHANGED <<records, events, acknowledged, files, use>>
  BY DEF Called, localVars
<1>2. Serves(c, use[s])
  BY DEF Serves
<1> QED
  BY <1>1, <1>2, QuietMove

\* import_source() goes on to write one version.
LEMMA ImportStep ==
    ASSUME IInv, NEW s \in Service, NEW source, NEW rows, NEW request,
           ImportSource(s, source, rows, request), UNCHANGED localVars
    PROVE  IInv'
<1>1. PICK v : v = Version(source, request)
  OBVIOUS
<1>2. v.type = "dataset_version" /\ v.refs = {}
  BY <1>1, VersionFields
<1>3. Called(s, Request("check", <<v>>, {v}, NoEvent))
  BY <1>1 DEF ImportSource
<1>4. ToSet(<<v>>) = {v} /\ <<v>> \in Seq(ToSet(<<v>>)) /\ <<v>> # <<>> /\ Last(<<v>>) = v
  BY OneMember DEF Last
<1>5. Sound(v) /\ ~IsUse(v) /\ Ordered(<<v>>) /\ NoEvent.kind = "none"
      /\ v.type # "baseline_policy"
  BY <1>2 DEF Sound, IsUse, Ordered, NoEvent
<1>6. Good(Request("check", <<v>>, {v}, NoEvent))
  BY <1>4, <1>5, GoodRequest
<1>7. PICK c : c = Request("check", <<v>>, {v}, NoEvent)
  OBVIOUS
<1>8. c.pc = "check"
  BY <1>7, RequestFields
<1> QED
  BY <1>3, <1>6, <1>7, <1>8, RequestStep

\* A project's task and models, then the project, its baseline and its policy.
LEMMA CreateOrder ==
    ASSUME IInv, NEW q \in ProjectRequest, CreateRequestValid(q)
    PROVE  LET W == CreateWrites(q)
           IN  /\ W \in Seq(ToSet(W)) /\ W # <<>> /\ Ordered(W) /\ Last(W) = q.policy
               /\ q.project \in ToSet(W) /\ q.policy \in ToSet(W)
               /\ \A r \in ToSet(W) : r.type \in {"task_definition", "base_model_revision",
                      "project", "baseline_policy", "project_policy"}
<1> DEFINE W == CreateWrites(q)
           A == <<q.task>> \o q.models
           B == <<q.project, q.baseline, q.policy>>
           S == {q.task, q.project, q.baseline, q.policy} \cup ToSet(q.models)
<1>1. /\ q.models \in Seq(ToSet(q.models))
      /\ q.task.type = "task_definition" /\ q.task.refs = {}
      /\ \A m \in ToSet(q.models) : m.type = "base_model_revision" /\ m.refs = {}
      /\ q.project.type = "project" /\ q.baseline.type = "baseline_policy"
      /\ q.policy.type = "project_policy"
  BY ProjectAssumption
<1>3. /\ q.project.refs = {q.task} \cup ToSet(q.models)
      /\ q.policy.refs = {q.project, q.task, q.baseline}
  BY DEF CreateRequestValid
<1>4. PICK m \in Nat : m = Len(q.models) /\ DOMAIN q.models = 1 .. m
  BY <1>1, LenProperties
<1>5. q.models \in Seq(S) /\ <<q.task>> \in Seq(S) /\ B \in Seq(S)
  BY <1>1
<1>6. A \in Seq(S) /\ Len(A) = m + 1 /\ A[1] = q.task /\ \A i \in 1 .. m : A[i + 1] = q.models[i]
  <2>1. Len(<<q.task>>) = 1 /\ <<q.task>>[1] = q.task
    OBVIOUS
  <2>2. /\ A \in Seq(S) /\ Len(A) = 1 + m
        /\ \A i \in 1 .. 1 + m : A[i] = IF i <= 1 THEN <<q.task>>[i] ELSE q.models[i - 1]
    BY <1>4, <1>5, <2>1, ConcatProperties
  <2> HIDE DEF A
  <2>3. ASSUME NEW i \in 1 .. m PROVE A[i + 1] = q.models[i]
    <3>1. i + 1 \in 1 .. 1 + m /\ ~(i + 1 <= 1) /\ (i + 1) - 1 = i
      BY <1>4
    <3> QED
      BY <2>2, <3>1
  <2> QED
    BY <1>4, <2>1, <2>2, <2>3
<1>7. W = A \o B
  BY DEF CreateWrites
<1>8. Len(B) = 3 /\ B[1] = q.project /\ B[2] = q.baseline /\ B[3] = q.policy
  OBVIOUS
<1> HIDE DEF A, B, W
<1>9. /\ W \in Seq(S) /\ Len(W) = m + 4
      /\ \A i \in 1 .. m + 4 : W[i] = IF i <= m + 1 THEN A[i] ELSE B[i - (m + 1)]
  <2>1. /\ W \in Seq(S) /\ Len(W) = (m + 1) + 3
        /\ \A i \in 1 .. (m + 1) + 3 : W[i] = IF i <= m + 1 THEN A[i] ELSE B[i - (m + 1)]
    <3>1. /\ A \o B \in Seq(S) /\ Len(A \o B) = Len(A) + Len(B)
          /\ \A i \in 1 .. Len(A) + Len(B) : (A \o B)[i] = IF i <= Len(A) THEN A[i] ELSE B[i - Len(A)]
      BY <1>5, <1>6, ConcatProperties
    <3>2. Len(A) = m + 1 /\ Len(B) = 3
      BY <1>6, <1>8
    <3> QED
      BY <1>7, <3>1, <3>2, Zenon
  <2>2. (m + 1) + 3 = m + 4
    BY <1>4
  <2> QED
    BY <2>1, <2>2, Zenon
<1>10. /\ W[1] = q.task /\ W[m + 2] = q.project /\ W[m + 3] = q.baseline /\ W[m + 4] = q.policy
       /\ \A i \in 1 .. m : W[i + 1] = q.models[i]
  <2>1. /\ 1 \in 1 .. m + 4 /\ 1 <= m + 1
        /\ m + 2 \in 1 .. m + 4 /\ ~(m + 2 <= m + 1) /\ (m + 2) - (m + 1) = 1
        /\ m + 3 \in 1 .. m + 4 /\ ~(m + 3 <= m + 1) /\ (m + 3) - (m + 1) = 2
        /\ m + 4 \in 1 .. m + 4 /\ ~(m + 4 <= m + 1) /\ (m + 4) - (m + 1) = 3
    BY <1>4
  <2>2. ASSUME NEW i \in 1 .. m PROVE W[i + 1] = q.models[i]
    <3>1. i + 1 \in 1 .. m + 4 /\ i + 1 <= m + 1
      BY <1>4
    <3> QED
      BY <1>6, <1>9, <3>1
  <2> QED
    BY <1>6, <1>8, <1>9, <2>1, <2>2
<1>11. DOMAIN W = 1 .. m + 4
  BY <1>9, LenProperties
<1>12. \A r \in ToSet(W) : r \in S
  BY <1>9, <1>11 DEF ToSet
<1>13. W \in Seq(ToSet(W))
  BY <1>4, <1>9, <1>11 DEF ToSet
<1>14. q.project \in ToSet(W) /\ q.policy \in ToSet(W)
  <2>1. m + 2 \in DOMAIN W /\ m + 4 \in DOMAIN W
    BY <1>4, <1>11
  <2> QED
    BY <1>10, <2>1 DEF ToSet
<1>15. Last(W) = q.policy /\ W # <<>>
  BY <1>4, <1>9, <1>10, EmptySeq DEF Last
<1>16. Ordered(W)
  <2> SUFFICES ASSUME NEW i \in 1 .. m + 4, W[i].type # "baseline_policy",
                      NEW x \in W[i].refs, x \notin records
               PROVE  \E j \in 1 .. i - 1 : x = W[j]
    BY <1>11 DEF Ordered
  <2>1. i = 1 \/ i \in 2 .. m + 1 \/ i = m + 2 \/ i = m + 3 \/ i = m + 4
    BY <1>4
  <2>2. i # 1 /\ i # m + 3
    BY <1>1, <1>10
  <2>3. i \notin 2 .. m + 1
    <3> SUFFICES ASSUME i \in 2 .. m + 1 PROVE FALSE
      OBVIOUS
    <3>1. i - 1 \in 1 .. m /\ (i - 1) + 1 = i
      BY <1>4
    <3>2. W[i] = q.models[i - 1]
      BY <1>10, <3>1
    <3>3. q.models[i - 1] \in ToSet(q.models)
      BY <1>1, <1>4, <3>1 DEF ToSet
    <3>4. W[i].refs = {}
      BY <1>1, <3>2, <3>3
    <3> QED
      BY <3>4
  <2>4. CASE i = m + 2
    <3>1. CASE x = q.task
      <4>1. 1 \in 1 .. i - 1
        BY <1>4, <2>4
      <4> QED
        BY <1>10, <3>1, <4>1
    <3>2. CASE x \in ToSet(q.models)
      <4>1. PICK k \in 1 .. m : x = q.models[k]
        BY <1>4, <3>2 DEF ToSet
      <4>2. k + 1 \in 1 .. i - 1
        BY <1>4, <2>4, <4>1
      <4> QED
        BY <1>10, <4>1, <4>2
    <3> QED
      BY <1>3, <1>10, <2>4, <3>1, <3>2
  <2>5. CASE i = m + 4
    <3>1. 1 \in 1 .. i - 1 /\ m + 2 \in 1 .. i - 1 /\ m + 3 \in 1 .. i - 1
      BY <1>4, <2>5
    <3>2. x \in {q.project, q.task, q.baseline}
      BY <1>3, <1>10, <2>5
    <3> QED
      BY <1>10, <3>1, <3>2
  <2> QED
    BY <2>1, <2>2, <2>3, <2>4, <2>5
<1>17. \A r \in ToSet(W) : r.type \in {"task_definition", "base_model_revision",
           "project", "baseline_policy", "project_policy"}
  BY <1>1, <1>12
<1> QED
  BY <1>13, <1>14, <1>15, <1>16, <1>17 DEF W

\* create() goes on to write its records in their order.
LEMMA CreateStep ==
    ASSUME IInv, NEW s \in Service, NEW q \in ProjectRequest, CreateProject(s, q),
           UNCHANGED localVars
    PROVE  IInv'
<1> DEFINE event == Outcome("project-lifecycle", "project-created", q.project.id, {})
<1>1. PICK W : W = CreateWrites(q)
  OBVIOUS
<1>2. Called(s, Request("check", W, ToSet(W), event)) /\ CreateRequestValid(q)
  BY <1>1 DEF CreateProject
<1>3. /\ W \in Seq(ToSet(W)) /\ W # <<>> /\ Ordered(W) /\ Last(W) = q.policy
      /\ q.project \in ToSet(W) /\ q.policy \in ToSet(W)
      /\ \A r \in ToSet(W) : r.type \in {"task_definition", "base_model_revision",
             "project", "baseline_policy", "project_policy"}
  BY <1>1, <1>2, CreateOrder
<1>4. \A r \in ToSet(W) : Sound(r)
  BY <1>3 DEF Sound
<1>5. Names(event, q.project) /\ ~IsUse(q.policy) /\ q.policy.type # "baseline_policy"
  BY ProjectAssumption DEF Names, Outcome, IsUse
<1> HIDE DEF event
<1>6. PICK c : c = Request("check", W, ToSet(W), event)
  OBVIOUS
<1>7. Good(c) /\ c.pc = "check"
  BY <1>3, <1>4, <1>5, <1>6, GoodRequest, RequestFields
<1> QED
  BY <1>2, <1>6, <1>7, RequestStep

\* The six records an experiment is frozen with, by their roles.
Supporting == <<"base_model_revision", "recipe", "hardware_requirements",
                "execution_target", "recipe_resolution", "compatibility_group">>

\* The experiment that freeze() makes.
LEMMA FrozenFields ==
    ASSUME NEW q
    PROVE  /\ Frozen(q).type = "experiment" /\ Frozen(q).id = q.id
           /\ Frozen(q).refs = {q.project, q.policy, q.task} \cup ToSet(q.supports)
  BY DEF Frozen

\* The six supports, one by one.
LEMMA SupportsOf ==
    ASSUME NEW q \in FreezeRequest
    PROVE  /\ q.supports \in Seq(ToSet(q.supports)) /\ Len(q.supports) = 6
           /\ DOMAIN q.supports = 1 .. 6
           /\ \A i \in 1 .. 6 : q.supports[i].type = Supporting[i]
           /\ \A i \in 1 .. 4 : q.supports[i].refs = {}
           /\ q.project.type = "project" /\ q.policy.type = "project_policy"
           /\ q.task.type = "task_definition"
<1>1. /\ q.supports \in Seq(ToSet(q.supports))
      /\ [i \in DOMAIN q.supports |-> q.supports[i].type] = Supporting
      /\ \A i \in 1 .. 4 : q.supports[i].refs = {}
      /\ q.project.type = "project" /\ q.policy.type = "project_policy"
      /\ q.task.type = "task_definition"
  BY FreezeAssumption DEF Supporting
<1>2. PICK sp : sp = q.supports
  OBVIOUS
<1>3. DOMAIN Supporting = 1 .. 6
  BY DEF Supporting
<1>4. DOMAIN sp = 1 .. 6 /\ \A i \in 1 .. 6 : sp[i].type = Supporting[i]
  BY <1>1, <1>2, <1>3
<1>5. Len(sp) \in Nat /\ DOMAIN sp = 1 .. Len(sp)
  BY <1>1, <1>2, LenProperties
<1>6. Len(sp) = 6
  BY <1>4, <1>5
<1> QED
  BY <1>1, <1>2, <1>4, <1>6

\* What an experiment refers to by a role is the record frozen in that role.
LEMMA RoleOf ==
    ASSUME NEW q \in FreezeRequest, NEW i \in 1 .. 6
    PROVE  RefTo(Frozen(q), Supporting[i]) = q.supports[i]
<1>1. /\ DOMAIN q.supports = 1 .. 6
      /\ \A k \in 1 .. 6 : q.supports[k].type = Supporting[k]
      /\ q.project.type = "project" /\ q.policy.type = "project_policy"
      /\ q.task.type = "task_definition"
  BY SupportsOf
<1>2. PICK e : e = Frozen(q)
  OBVIOUS
<1>3. e.refs = {q.project, q.policy, q.task} \cup ToSet(q.supports)
  BY <1>2, FrozenFields
<1>4. q.supports[i] \in e.refs /\ q.supports[i].type = Supporting[i]
  BY <1>1, <1>3 DEF ToSet
<1>5. RefTo(e, Supporting[i]) \in e.refs /\ RefTo(e, Supporting[i]).type = Supporting[i]
  BY <1>4 DEF RefTo
<1>6. ASSUME NEW x \in e.refs, x.type = Supporting[i] PROVE x = q.supports[i]
  <2>1. Supporting[i] \notin {"project", "project_policy", "task_definition"}
    BY DEF Supporting
  <2>2. PICK k \in 1 .. 6 : x = q.supports[k]
    BY <1>1, <1>3, <1>6, <2>1 DEF ToSet
  <2>3. Supporting[k] = Supporting[i]
    BY <1>1, <1>6, <2>2
  <2>4. k = i
    BY <2>3 DEF Supporting
  <2> QED
    BY <2>2, <2>4
<1> QED
  BY <1>2, <1>5, <1>6

\* The supports of an experiment are written before what refers to them.
LEMMA FreezeOrder ==
    ASSUME IInv, NEW q \in FreezeRequest, {q.project, q.policy, q.task} \subseteq records,
           DependenciesValid(Frozen(q)), NEW W, W = q.supports \o <<Frozen(q)>>
    PROVE  /\ W \in Seq(ToSet(W)) /\ W # <<>> /\ Ordered(W) /\ Last(W) = Frozen(q)
           /\ Frozen(q) \in ToSet(W) /\ \A r \in ToSet(W) : ~IsUse(r)
<1>1. PICK sp : sp = q.supports
  OBVIOUS
<1>2. PICK e : e = Frozen(q)
  OBVIOUS
<1>3. /\ sp \in Seq(ToSet(sp)) /\ Len(sp) = 6 /\ DOMAIN sp = 1 .. 6
      /\ \A i \in 1 .. 6 : sp[i].type = Supporting[i]
      /\ \A i \in 1 .. 4 : sp[i].refs = {}
  BY <1>1, SupportsOf
<1>4. e.type = "experiment" /\ e.refs = {q.project, q.policy, q.task} \cup ToSet(sp)
  BY <1>1, <1>2, FrozenFields
<1>5. \A i \in 1 .. 6 : RefTo(e, Supporting[i]) = sp[i]
  BY <1>1, <1>2, RoleOf
<1>6. /\ RefTo(e, "base_model_revision") = sp[1] /\ RefTo(e, "recipe") = sp[2]
      /\ RefTo(e, "hardware_requirements") = sp[3] /\ RefTo(e, "execution_target") = sp[4]
      /\ RefTo(e, "recipe_resolution") = sp[5] /\ RefTo(e, "compatibility_group") = sp[6]
  <2>1. /\ Supporting[1] = "base_model_revision" /\ Supporting[2] = "recipe"
        /\ Supporting[3] = "hardware_requirements" /\ Supporting[4] = "execution_target"
        /\ Supporting[5] = "recipe_resolution" /\ Supporting[6] = "compatibility_group"
    BY DEF Supporting
  <2>2. 1 \in 1 .. 6 /\ 2 \in 1 .. 6 /\ 3 \in 1 .. 6 /\ 4 \in 1 .. 6 /\ 5 \in 1 .. 6 /\ 6 \in 1 .. 6
    OBVIOUS
  <2> QED
    BY <1>5, <2>1, <2>2
<1>7. ResolutionMatches(e) /\ GroupMatches(e)
  BY <1>2 DEF DependenciesValid
<1>8. sp[5].refs \subseteq {sp[1], sp[2], sp[3], sp[4]}
  BY <1>6, <1>7 DEF ResolutionMatches
<1>9. sp[6].refs = {sp[1]}
  BY <1>6, <1>7 DEF GroupMatches
<1>10. /\ W \in Seq(ToSet(sp) \cup {e}) /\ Len(W) = 7 /\ W[7] = e
       /\ \A i \in 1 .. 6 : W[i] = sp[i]
  <2> DEFINE S == ToSet(sp) \cup {e}
  <2>1. sp \in Seq(S) /\ <<e>> \in Seq(S) /\ Len(<<e>>) = 1 /\ <<e>>[1] = e
    BY <1>3
  <2>2. /\ sp \o <<e>> \in Seq(S) /\ Len(sp \o <<e>>) = Len(sp) + Len(<<e>>)
        /\ \A i \in 1 .. Len(sp) + Len(<<e>>) :
               (sp \o <<e>>)[i] = IF i <= Len(sp) THEN sp[i] ELSE <<e>>[i - Len(sp)]
    BY <2>1, ConcatProperties
  <2>3. W = sp \o <<e>>
    BY <1>1, <1>2
  <2>4. W \in Seq(S) /\ Len(W) = 7 /\ \A i \in 1 .. 7 : W[i] = IF i <= 6 THEN sp[i] ELSE <<e>>[i - 6]
    <3>1. 6 + 1 = 7
      OBVIOUS
    <3> QED
      BY <1>3, <2>1, <2>2, <2>3, <3>1, Zenon
  <2>5. /\ 7 \in 1 .. 7 /\ ~(7 <= 6) /\ 7 - 6 = 1
        /\ \A i \in 1 .. 6 : i \in 1 .. 7 /\ i <= 6
    OBVIOUS
  <2>6. W[7] = e
    BY <2>1, <2>4, <2>5, Zenon
  <2>7. \A i \in 1 .. 6 : W[i] = sp[i]
    BY <2>4, <2>5, Zenon
  <2> QED
    BY <2>4, <2>6, <2>7, Zenon
<1>11. DOMAIN W = 1 .. 7
  BY <1>10, LenProperties
<1>12. W \in Seq(ToSet(W)) /\ W # <<>> /\ Last(W) = e /\ e \in ToSet(W)
  <2>1. \A i \in 1 .. 7 : W[i] \in ToSet(W)
    BY <1>11, Zenon DEF ToSet
  <2>3. W \in Seq(ToSet(W))
    BY <1>10, OwnMembers
  <2>4. W # <<>> /\ Last(W) = e
    BY <1>10, EmptySeq DEF Last
  <2> QED
    BY <1>10, <2>1, <2>3, <2>4
<1>13. \A i \in 1 .. 7 : ~IsUse(W[i])
  <2>1. \A i \in 1 .. 6 : Supporting[i] \notin {"local_use_session", "adapter_export"}
    BY DEF Supporting
  <2>2. \A i \in 1 .. 7 : i \in 1 .. 6 \/ i = 7
    OBVIOUS
  <2>3. \A i \in 1 .. 6 : W[i].type = Supporting[i]
    BY <1>3, <1>10
  <2>4. \A i \in 1 .. 6 : ~IsUse(W[i])
    BY <2>1, <2>3 DEF IsUse
  <2>5. ~IsUse(W[7])
    BY <1>4, <1>10 DEF IsUse
  <2> QED
    BY <2>2, <2>4, <2>5
<1>14. \A r \in ToSet(W) : ~IsUse(r)
  BY <1>11, <1>13 DEF ToSet
<1>15. Ordered(W)
  <2> SUFFICES ASSUME NEW i \in DOMAIN W, NEW x \in W[i].refs, x \notin records
               PROVE  \E j \in 1 .. i - 1 : x = W[j]
    BY DEF Ordered
  <2>a. i \in 1 .. 7
    BY <1>11
  <2>1. i \in {5, 6, 7}
    BY <1>3, <1>10, <2>a
  <2>2. CASE i = 5
    <3>1. x \in {sp[1], sp[2], sp[3], sp[4]}
      BY <1>8, <1>10, <2>2
    <3>2. 1 \in 1 .. i - 1 /\ 2 \in 1 .. i - 1 /\ 3 \in 1 .. i - 1 /\ 4 \in 1 .. i - 1
      BY <2>2
    <3> QED
      BY <1>10, <3>1, <3>2
  <2>3. CASE i = 6
    BY <1>9, <1>10, <2>3
  <2>4. CASE i = 7
    <3>1. x \in ToSet(sp)
      BY <1>4, <1>10, <2>4
    <3>2. PICK k \in 1 .. 6 : x = sp[k]
      BY <1>3, <3>1 DEF ToSet
    <3>3. k \in 1 .. i - 1
      BY <2>4
    <3> QED
      BY <1>10, <3>2, <3>3
  <2> QED
    BY <2>1, <2>2, <2>3, <2>4
<1> QED
  BY <1>2, <1>12, <1>14, <1>15

\* freeze() goes on to write its supports and the experiment.
LEMMA FreezeStep ==
    ASSUME IInv, NEW s \in Service, NEW q \in FreezeRequest, Freeze(s, q), UNCHANGED localVars
    PROVE  IInv'
<1> DEFINE event == Outcome("experiment-lifecycle", "experiment-frozen", Frozen(q).id, {})
<1>1. PICK e : e = Frozen(q)
  OBVIOUS
<1>2. PICK W : W = q.supports \o <<Frozen(q)>>
  OBVIOUS
<1>3. /\ {q.project, q.policy, q.task} \subseteq records /\ DependenciesValid(Frozen(q))
      /\ Called(s, Request("check", W, {e}, event))
  BY <1>1, <1>2 DEF Freeze
<1>4. /\ W \in Seq(ToSet(W)) /\ W # <<>> /\ Ordered(W) /\ Last(W) = e
      /\ e \in ToSet(W) /\ \A r \in ToSet(W) : ~IsUse(r)
  BY <1>1, <1>2, <1>3, FreezeOrder
<1>5. \A r \in ToSet(W) : Sound(r)
  BY <1>4 DEF Sound, IsUse
<1>6. Names(event, e) /\ e.type # "baseline_policy"
  BY <1>1, FrozenFields DEF Names, Outcome
<1> HIDE DEF event
<1>7. PICK c : c = Request("check", W, {e}, event)
  OBVIOUS
<1>8. Good(c)
  BY <1>4, <1>5, <1>6, <1>7, GoodRequest
<1>9. c.pc = "check"
  BY <1>7, RequestFields
<1> QED
  BY <1>3, <1>7, <1>8, <1>9, RequestStep

\* The experiment that clone() makes.
LEMMA DerivedFields ==
    ASSUME NEW q
    PROVE  Derived(q).type = "experiment"
  BY DEF Derived, WithManifest

\* The derivation that clone() records.
LEMMA EvidenceFields ==
    ASSUME NEW id, NEW parent, NEW derived, NEW evidence,
           evidence = Derivation(id, parent, derived)
    PROVE  evidence.type = "experiment_derivation"
           /\ RefTo(evidence, "manifest_diff").type = "manifest_diff"
<1>1. PICK diff : /\ diff.type = "manifest_diff" /\ evidence.type = "experiment_derivation"
                  /\ evidence.refs = {parent, derived, diff}
  BY DEF Derivation
<1> QED
  BY <1>1 DEF RefTo

\* A derivation proposes no record of a use, and its experiment among others.
LEMMA OutputsOf ==
    ASSUME NEW q
    PROVE  /\ Derived(q) \in Outputs(q) /\ IsFiniteSet(Outputs(q))
           /\ \A r \in Outputs(q) : ~IsUse(r) /\ r.type # "baseline_policy"
<1>1. PICK e : e = Derived(q)
  OBVIOUS
<1>2. PICK v : v = Derivation(q.derivation, q.parent, e)
  OBVIOUS
<1>3. PICK x : x = RefTo(v, "manifest_diff")
  OBVIOUS
<1>4. Outputs(q) = {e, x, v}
  BY <1>1, <1>2, <1>3 DEF Outputs
<1>5. e.type = "experiment" /\ v.type = "experiment_derivation" /\ x.type = "manifest_diff"
  BY <1>1, <1>2, <1>3, DerivedFields, EvidenceFields
<1>6. IsFiniteSet({e, x, v})
  <2>1. PICK A : A = {e}
    OBVIOUS
  <2>2. PICK B : B = A \cup {x}
    OBVIOUS
  <2>3. IsFiniteSet(A)
    BY <2>1, FS_Singleton, Zenon
  <2>4. IsFiniteSet(B)
    BY <2>2, <2>3, FS_AddElement, Zenon
  <2>5. IsFiniteSet(B \cup {v})
    BY <2>4, FS_AddElement, Zenon
  <2>6. {e, x, v} = B \cup {v}
    BY <2>1, <2>2
  <2> QED
    BY <2>5, <2>6
<1> QED
  BY <1>1, <1>4, <1>5, <1>6 DEF IsUse

\* clone() goes on to propose its supports, the experiment and its derivation.
LEMMA CloneStep ==
    ASSUME IInv, NEW s \in Service, NEW q \in CloneRequest, Clone(s, q), UNCHANGED localVars
    PROVE  IInv'
<1>1. PICK e : e = Derived(q)
  OBVIOUS
<1>2. PICK O : O = Outputs(q)
  OBVIOUS
<1>3. PICK event : event = Outcome("experiment-lifecycle", "experiment-derived", e.id, {})
  OBVIOUS
<1>4. PICK b : b = Request("check", <<>>, O, event)
  OBVIOUS
<1>5. PICK c : c = [b EXCEPT !.proposed = q.supports \cup O, !.result = O]
  OBVIOUS
<1>6. Called(s, c)
  BY <1>1, <1>2, <1>3, <1>4, <1>5 DEF Clone
<1>7. /\ DOMAIN b = Fields /\ b.pc = "check" /\ b.todo = <<>> /\ b.settle = {} /\ b.event = event
  BY <1>4, RequestFields
<1>8. /\ DOMAIN c = Fields /\ c.pc = "check" /\ c.todo = <<>> /\ c.settle = {} /\ c.event = event
      /\ c.proposed = q.supports \cup O /\ c.result = O
  BY <1>5, <1>7 DEF Fields
<1>9. e \in O /\ IsFiniteSet(O) /\ \A r \in O : ~IsUse(r) /\ r.type # "baseline_policy"
  BY <1>1, <1>2, OutputsOf
<1>10. IsFiniteSet(q.supports) /\ \A r \in q.supports : ~IsUse(r)
  BY CloneAssumption DEF IsUse
<1>11. IsFiniteSet(c.proposed) /\ \A r \in c.proposed : Sound(r)
  <2>1. IsFiniteSet(c.proposed)
    <3>1. PICK A : A = q.supports
      OBVIOUS
    <3>2. IsFiniteSet(A \cup O)
      BY <1>9, <1>10, <3>1, FS_Union, Zenon
    <3> QED
      BY <1>8, <3>1, <3>2
  <2> QED
    BY <1>8, <1>9, <1>10, <2>1 DEF Sound, IsUse
<1>12. Names(event, e)
  BY <1>1, <1>3, DerivedFields DEF Names, Outcome
<1>13. \E r \in records \cup Pending(c) : Names(c.event, r)
  BY <1>8, <1>9, <1>12 DEF Pending
<1>14. Good(c)
  <2>1. Returns(c)
    BY <1>8, <1>9 DEF Returns, Pending
  <2> QED
    BY <1>8, <1>9, <1>11, <1>13, <2>1, NoMembers DEF Good, Ordered
<1> QED
  BY <1>6, <1>8, <1>14, RequestStep

-----------------------------------------------------------------------------
(* Local uses                                                              *)

Cell == ToSet(Member) \cup {Manifested}

\* Bytes in the directory of an export are never overwritten.
Steady ==
    /\ DOMAIN files' = DOMAIN files
    /\ \A d \in Exports : /\ DOMAIN files'[d] = Cell
                          /\ \A x \in Cell : files[d][x] # <<>> => files'[d][x] = files[d][x]

\* What a record claims of an export stays true while its bytes are not
\* overwritten.
LEMMA StaysSound ==
    ASSUME Steady, NEW r, Sound(r)
    PROVE  Sound(r)'
<1>1. CASE r.type = "adapter_export"
  <2>1. r.id \in Exports /\ r.body.requirements # <<>> /\ ExportIntact(r)
    BY <1>1 DEF Sound
  <2>2. ASSUME NEW a \in {x \in r.refs : x.type = "artifact"}
        PROVE  /\ files'[r.id][Manifested] = r.body.requirements
               /\ \A m \in ToSet(Member) : files'[r.id][m] = <<a.body.content[m]>>
    <3>1. /\ files[r.id][Manifested] = r.body.requirements
          /\ \A m \in ToSet(Member) : files[r.id][m] = <<a.body.content[m]>>
      BY <2>1 DEF ExportIntact
    <3>2. Manifested \in Cell /\ ToSet(Member) \subseteq Cell
      BY DEF Cell
    <3>3. files'[r.id][Manifested] = files[r.id][Manifested]
      BY <2>1, <3>1, <3>2 DEF Steady
    <3>4. ASSUME NEW m \in ToSet(Member) PROVE files'[r.id][m] = <<a.body.content[m]>>
      <4>1. files[r.id][m] = <<a.body.content[m]>> /\ m \in Cell
        BY <3>1, <3>2
      <4>2. files[r.id][m] # <<>>
        BY <4>1
      <4> QED
        BY <2>1, <4>1, <4>2 DEF Steady
    <3> QED
      BY <3>1, <3>3, <3>4
  <2>3. ExportIntact(r)'
    BY <2>2 DEF ExportIntact
  <2> QED
    BY <1>1, <2>1, <2>3 DEF Sound
<1>2. CASE r.type # "adapter_export"
  BY <1>2 DEF Sound
<1> QED
  BY <1>1, <1>2

\* A process moves and no bytes of an export are overwritten.
LEMMA SteadyMove ==
    ASSUME IInv, NEW s \in Service, NEW c, NEW u,
           call' = [call EXCEPT ![s] = c], use' = [use EXCEPT ![s] = u],
           UNCHANGED <<records, events, acknowledged>>, Steady,
           Good(c), Serves(c, u)
    PROVE  IInv'
<1>1. Grows
  BY StaysSound DEF Grows
<1>2. Good(c)' /\ Serves(c, u)'
  BY <1>1, Keeps, ServesOn DEF Grows
<1>3. /\ call' = [o \in Service |-> call'[o]] /\ use' = [o \in Service |-> use'[o]]
      /\ \A o \in Service : Good(call[o])' /\ Serves(call[o], use[o])'
  BY <1>1, <1>2, Processes
<1>4. \A r \in records' : Sound(r)'
  BY StaysSound DEF IInv, Shared
<1>5. Shared'
  BY <1>4 DEF IInv, Shared, ClosedButBaselines, Whole, Keyed, Backed, Told
<1>6. TypeOK'
  BY <1>3 DEF IInv, TypeOK, Steady, Cell
<1> QED
  BY <1>3, <1>5, <1>6 DEF IInv

\* A use goes on to its next step.
UseLabels == {"context", "infer", "copy", "bundle"}

\* The call of a use stays good on its way to its record.
LEMMA GoodServing ==
    ASSUME NEW c, Good(c), c.pc \in UseLabels, NEW pc \in UseLabels, NEW d,
           d = [c EXCEPT !.pc = pc]
    PROVE  Good(d) /\ d.pc = pc /\ d.proposed = c.proposed
<1>1. Continues(c, d) /\ d.todo = c.todo /\ d.pc = pc
  BY DEF Good, Continues, Fields
<1>2. /\ c.settle = {} /\ IsFiniteSet(c.proposed) /\ \A r \in c.proposed : Sound(r)
      /\ \A r \in c.result : IsUse(r) => c.event = UseEvent(r)
      /\ c.todo = <<>>
  BY DEF Good, UseLabels
<1>3. d.pc \notin {"check", "write", "graph", "append", "verify", "verifying"}
  BY <1>1 DEF UseLabels
<1>4. Returns(d)
  BY <1>1, <1>3 DEF Good, Returns, Pending, Continues, UseLabels
<1>5. Good(d)
  BY <1>1, <1>2, <1>3, <1>4, NoMembers DEF Good, Continues, Ordered
<1> QED
  BY <1>1, <1>5 DEF Continues

\* What a use has yet to write is the record of what it did.
LEMMA GoodRecords ==
    ASSUME NEW c, Good(c), c.proposed = {}, NEW r, IsUse(r), Sound(r), r.refs \subseteq records,
           NEW event, event = UseEvent(r), NEW d,
           d = [c EXCEPT !.pc = "check", !.todo = <<r>>, !.single = {r},
                         !.event = event, !.result = {r}]
    PROVE  Good(d) /\ d.pc = "check"
<1>1. /\ DOMAIN d = Fields /\ d.pc = "check" /\ d.todo = <<r>> /\ d.proposed = {}
      /\ d.settle = {} /\ d.event = event /\ d.result = {r}
  BY DEF Good, Fields
<1>2. ToSet(<<r>>) = {r} /\ <<r>> \in Seq(ToSet(<<r>>))
  BY OneMember
<1>3. Ordered(<<r>>)
  BY DEF Ordered
<1>4. Names(event, r)
  BY DEF Names, UseEvent, Outcome, IsUse
<1>5. \E q \in records \cup Pending(d) : Names(d.event, q)
  BY <1>1, <1>2, <1>4 DEF Pending
<1>6. Returns(d)
  BY <1>1, <1>2 DEF Returns, Pending, IsUse
<1> QED
  BY <1>1, <1>2, <1>3, <1>5, <1>6, FS_EmptySet DEF Good

\* The use a process serves is about records of their types.
LEMMA Served ==
    ASSUME IInv, NEW s \in Service, NEW c, NEW u, c = call[s], u = use[s], c.pc \in UseLabels
    PROVE  /\ Good(c) /\ Serves(c, u) /\ c.proposed = {}
           /\ \E q \in UseRequest : UseOf(u, q)
           /\ c.pc # "context" => {u.artifact, u.model, u.group, u.target} \subseteq records
           /\ c.pc \in {"copy", "bundle"} => u.kind = "export"
           /\ u.artifact.type = "artifact" /\ u.model.type = "base_model_revision"
           /\ u.group.type = "compatibility_group" /\ u.target.type = "execution_target"
           /\ u.kind = "export" => u.id \in Exports
<1>1. Good(c) /\ Serves(c, u)
  BY DEF IInv
<1>2. /\ \E q \in UseRequest : UseOf(u, q)
      /\ c.proposed = {}
      /\ c.pc # "context" => {u.artifact, u.model, u.group, u.target} \subseteq records
      /\ c.pc \in {"copy", "bundle"} => u.kind = "export"
  BY <1>1 DEF Serves, UseLabels
<1>3. PICK q \in UseRequest : UseOf(u, q)
  BY <1>2
<1>4. /\ u.artifact = q.artifact /\ u.model = q.model /\ u.group = q.group
      /\ u.target = q.target /\ u.kind = q.kind /\ u.id = q.id
  BY <1>3 DEF UseOf, UseFields
<1>5. /\ q.artifact.type = "artifact" /\ q.model.type = "base_model_revision"
      /\ q.group.type = "compatibility_group" /\ q.target.type = "execution_target"
  BY UseAssumption
<1>6. q.kind = "export" => q.id \in Exports
  BY DEF Exports
<1> QED
  BY <1>1, <1>2, <1>4, <1>5, <1>6

\* A use begins with nothing to write.
LEMMA StartUseStep ==
    ASSUME IInv, NEW s \in Service, NEW q \in UseRequest, StartUse(s, q)
    PROVE  IInv'
<1>1. PICK c : c = Request("context", <<>>, {}, NoEvent)
  OBVIOUS
<1>2. /\ call' = [call EXCEPT ![s] = c] /\ use' = [use EXCEPT ![s] = q]
      /\ UNCHANGED <<records, events, acknowledged, files>>
  BY <1>1 DEF StartUse, Called
<1>3. Good(c)
  BY <1>1, NoMembers, GoodRequest DEF Ordered, NoEvent
<1>4. c.proposed = {} /\ c.pc = "context"
  BY <1>1, RequestFields
<1>5. UseOf(q, q)
  BY UseAssumption DEF UseOf, UseFields
<1>6. Serves(c, q)
  BY <1>4, <1>5 DEF Serves
<1> QED
  BY <1>2, <1>3, <1>6, Quiet

\* A refused verification ends the use.
LEMMA RefuseStep ==
    ASSUME IInv, NEW s \in Service, RefuseArtifact(s)
    PROVE  IInv'
  BY EndStep DEF RefuseArtifact, localVars

\* What a use is about is found in the store before it begins.
LEMMA VerifyArtifactStep ==
    ASSUME IInv, NEW s \in Service, VerifyArtifact(s)
    PROVE  IInv'
<1>1. PICK c : c = call[s]
  OBVIOUS
<1>2. PICK u : u = use[s]
  OBVIOUS
<1>3. PICK d : d = [c EXCEPT !.pc = IF u.kind = "export" THEN "copy" ELSE "infer"]
  OBVIOUS
<1>4. /\ c.pc = "context" /\ call' = [call EXCEPT ![s] = d]
      /\ UNCHANGED <<records, events, acknowledged, files, use>>
      /\ {u.artifact, u.model, u.group, u.target} \subseteq records
  BY <1>1, <1>2, <1>3 DEF VerifyArtifact, At, Moves, ContextMatches, localVars
<1>5. Good(c) /\ c.proposed = {} /\ \E q \in UseRequest : UseOf(u, q)
  <2>1. c.pc \in UseLabels
    BY <1>4 DEF UseLabels
  <2> QED
    BY <1>1, <1>2, <2>1, Served
<1>6. PICK pc : pc = IF u.kind = "export" THEN "copy" ELSE "infer"
  OBVIOUS
<1>7. Good(d) /\ d.pc = pc /\ d.proposed = {}
  BY <1>3, <1>4, <1>5, <1>6, GoodServing DEF UseLabels
<1>8. Serves(d, u)
  BY <1>4, <1>5, <1>6, <1>7 DEF Serves
<1> QED
  BY <1>2, <1>4, <1>7, <1>8, QuietMove

\* The record of a session.
LEMMA SessionFields ==
    ASSUME NEW u, NEW bytes, NEW configuration, NEW r, r = Session(u, bytes, configuration)
    PROVE  /\ r.type = "local_use_session" /\ r.id = u.id /\ r.body.adapter = bytes
           /\ r.refs = {u.artifact, u.model, u.group, u.target}
  BY DEF Session

\* A session is of the bytes that were verified.
LEMMA InferStep ==
    ASSUME IInv, NEW s \in Service, Infer(s)
    PROVE  IInv'
<1>1. PICK c : c = call[s]
  OBVIOUS
<1>2. PICK u : u = use[s]
  OBVIOUS
<1>3. PICK bytes : bytes = files[u.artifact.id]["adapter.bin"]
  OBVIOUS
<1>4. PICK r : r = Session(u, bytes, files[u.artifact.id]["adapter_config.json"])
  OBVIOUS
<1>5. PICK event : event = Outcome("local-use", "local-use-session", r.id, {r})
  OBVIOUS
<1>6. /\ c.pc = "infer" /\ UNCHANGED <<records, events, acknowledged, files, use>>
      /\ \/ Ends(s)
         \/ /\ bytes = u.artifact.body.content["adapter.bin"]
            /\ Records(s, r, event)
  BY <1>1, <1>2, <1>3, <1>4, <1>5 DEF Infer, Inferred, At, localVars
<1>7. CASE Ends(s)
  BY <1>6, <1>7, EndStep
<1>8. CASE bytes = u.artifact.body.content["adapter.bin"] /\ Records(s, r, event)
  <2>1. PICK d : d = [c EXCEPT !.pc = "check", !.todo = <<r>>, !.single = {r},
                              !.event = event, !.result = {r}]
    OBVIOUS
  <2>2. call' = [call EXCEPT ![s] = d]
    BY <1>1, <1>8, <2>1 DEF Records, Moves
  <2>3. /\ Good(c) /\ c.proposed = {}
        /\ {u.artifact, u.model, u.group, u.target} \subseteq records
        /\ u.model.type = "base_model_revision"
        /\ u.group.type = "compatibility_group" /\ u.target.type = "execution_target"
    BY <1>1, <1>2, <1>6, Served DEF UseLabels
  <2>4. /\ r.type = "local_use_session" /\ r.id = u.id /\ r.body.adapter = bytes
        /\ r.refs = {u.artifact, u.model, u.group, u.target}
    BY <1>4, SessionFields
  <2>5. IsUse(r) /\ Sound(r) /\ r.refs \subseteq records /\ event = UseEvent(r)
    BY <1>5, <1>8, <2>3, <2>4 DEF IsUse, Sound, UseEvent
  <2>6. Good(d) /\ d.pc = "check"
    <3>1. Good(c) /\ c.proposed = {}
      BY <2>3
    <3> QED
      BY <2>1, <2>5, <3>1, GoodRecords
  <2>7. Serves(d, use[s])
    BY <2>6 DEF Serves
  <2> QED
    BY <1>6, <2>2, <2>6, <2>7, QuietMove
<1> QED
  BY <1>6, <1>7, <1>8

\* The record of an export.
LEMMA ExportFields ==
    ASSUME NEW u, NEW r, r = Exported(u)
    PROVE  /\ r.type = "adapter_export" /\ r.id = u.id /\ r.body.requirements # <<>>
           /\ r.refs = {u.artifact, u.group}
  BY DEF Exported, Requirements

\* An export is recorded when what is on disk is what was verified.
LEMMA VerifyBundleStep ==
    ASSUME IInv, NEW s \in Service, VerifyBundle(s)
    PROVE  IInv'
<1>1. PICK c : c = call[s]
  OBVIOUS
<1>2. PICK u : u = use[s]
  OBVIOUS
<1>3. PICK r : r = Exported(u)
  OBVIOUS
<1>4. PICK event : event = Outcome("local-use", "adapter-export", r.id, {r})
  OBVIOUS
<1>5. /\ c.pc = "bundle" /\ UNCHANGED <<records, events, acknowledged, files, use>>
      /\ Ends(s) \/ (ExportIntact(r) /\ Records(s, r, event))
  BY <1>1, <1>2, <1>3, <1>4 DEF VerifyBundle, At, localVars
<1>6. CASE Ends(s)
  BY <1>5, <1>6, EndStep
<1>7. CASE ExportIntact(r) /\ Records(s, r, event)
  <2>1. PICK d : d = [c EXCEPT !.pc = "check", !.todo = <<r>>, !.single = {r},
                              !.event = event, !.result = {r}]
    OBVIOUS
  <2>2. call' = [call EXCEPT ![s] = d]
    BY <1>1, <1>7, <2>1 DEF Records, Moves
  <2>3. /\ Good(c) /\ c.proposed = {} /\ u.id \in Exports
        /\ {u.artifact, u.model, u.group, u.target} \subseteq records
    BY <1>1, <1>2, <1>5, Served DEF UseLabels
  <2>4. /\ r.type = "adapter_export" /\ r.id = u.id /\ r.body.requirements # <<>>
        /\ r.refs = {u.artifact, u.group}
    BY <1>3, ExportFields
  <2>5. IsUse(r) /\ Sound(r) /\ r.refs \subseteq records /\ event = UseEvent(r)
    BY <1>4, <1>7, <2>3, <2>4 DEF IsUse, Sound, UseEvent
  <2>6. Good(d) /\ d.pc = "check"
    BY <2>1, <2>3, <2>5, GoodRecords
  <2>7. Serves(d, use[s])
    BY <2>6 DEF Serves
  <2> QED
    BY <1>5, <2>2, <2>6, <2>7, QuietMove
<1> QED
  BY <1>5, <1>6, <1>7

\* A member of an export is written once, and where nothing was written.
LEMMA CopyMemberStep ==
    ASSUME IInv, NEW s \in Service, CopyMember(s)
    PROVE  IInv'
<1>1. PICK c : c = call[s]
  OBVIOUS
<1>2. PICK u : u = use[s]
  OBVIOUS
<1>3. PICK m : m = NextMember(s)
  OBVIOUS
<1>4. PICK bytes : bytes = SourceBytes(u, m)
  OBVIOUS
<1>5. /\ c.pc = "copy" /\ UNCHANGED <<records, events, acknowledged>>
      /\ files' = IF files[u.id][m] = <<>> THEN [files EXCEPT ![u.id][m] = bytes] ELSE files
      /\ \/ Ends(s) /\ UNCHANGED use
         \/ Moves(s, [c EXCEPT !.pc = "bundle"]) /\ UNCHANGED use
         \/ use' = [use EXCEPT ![s].copied = @ \cup {m}] /\ UNCHANGED call
  BY <1>1, <1>2, <1>3, <1>4, Zenon DEF CopyMember, At
<1>6. /\ Good(c) /\ Serves(c, u) /\ c.proposed = {} /\ u.kind = "export" /\ u.id \in Exports
      /\ \E q \in UseRequest : UseOf(u, q)
      /\ {u.artifact, u.model, u.group, u.target} \subseteq records
  <2>1. c.pc \in UseLabels
    BY <1>5 DEF UseLabels
  <2>2. /\ Good(c) /\ Serves(c, u) /\ c.proposed = {}
        /\ u.kind = "export" => u.id \in Exports
        /\ c.pc \in {"copy", "bundle"} => u.kind = "export"
        /\ \E q \in UseRequest : UseOf(u, q)
        /\ c.pc # "context" => {u.artifact, u.model, u.group, u.target} \subseteq records
    BY <1>1, <1>2, <2>1, Served
  <2> QED
    BY <1>5, <2>2
<1>7. Steady
  <2>1. \A d \in Exports : d \in DOMAIN files /\ DOMAIN files[d] = Cell
    BY DEF IInv, TypeOK, Cell
  <2>2. CASE files[u.id][m] = <<>>
    <3>1. files' = [files EXCEPT ![u.id] = [files[u.id] EXCEPT ![m] = bytes]]
      BY <1>5, <2>2
    <3>2. PICK f : f = [files[u.id] EXCEPT ![m] = bytes]
      OBVIOUS
    <3>3. DOMAIN f = Cell /\ \A x \in Cell : x # m => f[x] = files[u.id][x]
      BY <1>6, <2>1, <3>2
    <3>4. DOMAIN files' = DOMAIN files /\ files'[u.id] = f
      BY <1>6, <2>1, <3>1, <3>2
    <3>5. \A d \in Exports : d # u.id => files'[d] = files[d]
      BY <2>1, <3>1
    <3> QED
      BY <2>1, <2>2, <3>3, <3>4, <3>5 DEF Steady
  <2>3. CASE files[u.id][m] # <<>>
    BY <1>5, <2>1, <2>3 DEF Steady
  <2> QED
    BY <2>2, <2>3
<1>8. CASE Ends(s) /\ UNCHANGED use
  <2>1. PICK d : d = Idle
    OBVIOUS
  <2>2. Good(d) /\ Serves(d, u) /\ use' = [use EXCEPT ![s] = u]
    BY <1>2, <1>8, <2>1, IdleGood, IdleServes, SameUse
  <2> QED
    BY <1>5, <1>7, <1>8, <2>1, <2>2, SteadyMove DEF Ends, Moves
<1>9. CASE Moves(s, [c EXCEPT !.pc = "bundle"]) /\ UNCHANGED use
  <2>1. PICK d : d = [c EXCEPT !.pc = "bundle"]
    OBVIOUS
  <2>2. Good(d) /\ d.pc = "bundle" /\ d.proposed = {}
    BY <1>5, <1>6, <2>1, GoodServing DEF UseLabels
  <2>3. Serves(d, u) /\ use' = [use EXCEPT ![s] = u]
    BY <1>2, <1>6, <1>9, <2>2, SameUse DEF Serves
  <2> QED
    BY <1>5, <1>7, <1>9, <2>1, <2>2, <2>3, SteadyMove DEF Moves
<1>10. CASE use' = [use EXCEPT ![s].copied = @ \cup {m}] /\ UNCHANGED call
  <2>1. PICK v : v = [u EXCEPT !.copied = @ \cup {m}]
    OBVIOUS
  <2>2. use' = [use EXCEPT ![s] = v] /\ call' = [call EXCEPT ![s] = c]
    BY <1>1, <1>2, <1>10, <2>1 DEF IInv, TypeOK
  <2>3. PICK q \in UseRequest : UseOf(u, q)
    BY <1>6
  <2>4. UseOf(v, q) /\ v.kind = "export" /\ v.artifact = u.artifact /\ v.model = u.model
        /\ v.group = u.group /\ v.target = u.target
    BY <1>6, <2>1, <2>3 DEF UseOf, UseFields
  <2>5. Serves(c, v)
    BY <1>6, <2>3, <2>4 DEF Serves
  <2> QED
    BY <1>5, <1>6, <1>7, <2>2, <2>5, SteadyMove
<1> QED
  BY <1>5, <1>8, <1>9, <1>10

\* What happens to the files of an artifact is not in the directory of an export.
LEMMA TamperStep ==
    ASSUME IInv, NEW a \in SeedArtifacts, NEW m, Tamper(a, m)
    PROVE  IInv'
<1>1. /\ UNCHANGED <<records, events, call, acknowledged, use>>
      /\ files' = [files EXCEPT ![a.id][m] = "changed"]
  BY DEF Tamper
<1>2. a.id \notin Exports
  BY SeedAssumption
<1>3. Steady
  <2>1. \A d \in Exports : d \in DOMAIN files /\ DOMAIN files[d] = Cell
    BY DEF IInv, TypeOK, Cell
  <2>2. DOMAIN files' = DOMAIN files /\ \A d \in Exports : files'[d] = files[d]
    BY <1>1, <1>2, <2>1
  <2> QED
    BY <2>1, <2>2 DEF Steady
<1>4. Grows
  BY <1>1, <1>3, StaysSound DEF Grows
<1>5. ASSUME NEW s \in Service PROVE Good(call[s])' /\ Serves(call[s], use[s])'
  <2>1. PICK c : c = call[s]
    OBVIOUS
  <2>2. PICK u : u = use[s]
    OBVIOUS
  <2>3. Good(c) /\ Serves(c, u) /\ call'[s] = c /\ use'[s] = u
    BY <1>1, <2>1, <2>2 DEF IInv
  <2>4. Good(c)' /\ Serves(c, u)'
    BY <1>4, <2>3, Keeps, ServesOn DEF Grows
  <2> QED
    BY <2>3, <2>4
<1>6. Shared'
  <2>1. \A r \in records' : Sound(r)'
    BY <1>1, <1>3, StaysSound DEF IInv, Shared
  <2> QED
    BY <1>1, <2>1 DEF IInv, Shared, ClosedButBaselines, Whole, Keyed, Backed, Told
<1>7. TypeOK'
  BY <1>1, <1>3 DEF IInv, TypeOK, Steady, Cell
<1> QED
  BY <1>5, <1>6, <1>7 DEF IInv

-----------------------------------------------------------------------------

\* Nothing was used yet and nothing was appended, and what the store begins with
\* is closed.
LEMMA InitInv == Init => IInv
<1> SUFFICES ASSUME Init PROVE IInv
  OBVIOUS
<1>1. /\ records = Seed /\ acknowledged = Seed
      /\ events = [s \in Stream |-> <<>>]
      /\ call = [s \in Service |-> Idle] /\ use = [s \in Service |-> NoUse]
      /\ files = [d \in Exports \cup {a.id : a \in SeedArtifacts} |->
             IF d \in Exports THEN NoBytes
             ELSE (CHOOSE a \in SeedArtifacts : a.id = d).body.content]
  BY DEF Init
<1>2. \A n \in Stream : events[n] = <<>>
  BY <1>1
<1>3. TypeOK
  <2>1. \A n \in Stream : events[n] \in Seq(ToSet(events[n]))
    BY <1>2, NoMembers
  <2>2. \A d \in Exports : files[d] = NoBytes
    BY <1>1
  <2>3. \A d \in Exports : DOMAIN files[d] = ToSet(Member) \cup {Manifested}
    BY <2>2 DEF NoBytes
  <2> QED
    BY <1>1, <2>1, <2>3 DEF TypeOK
<1>4. Shared
  <2>1. \A r \in Seed : ~IsUse(r)
    BY SeedAssumption DEF IsUse
  <2>2. \A r \in records : Sound(r)
    BY <1>1, <2>1 DEF Sound, IsUse
  <2>3. \A n \in Stream : Keyed(n) /\ Backed(n)
    BY <1>2, NoMembers DEF Keyed, Backed
  <2>4. ClosedButBaselines(records) /\ Whole /\ Seed \subseteq records
    BY <1>1, SeedAssumption DEF ClosedButBaselines, Closed, Whole
  <2> QED
    BY <1>1, <2>1, <2>2, <2>3, <2>4 DEF Shared, Told
<1>5. ASSUME NEW s \in Service PROVE Good(call[s]) /\ Serves(call[s], use[s])
  <2>1. call[s] = Idle
    BY <1>1
  <2> QED
    BY <2>1, IdleGood, IdleServes
<1> QED
  BY <1>3, <1>4, <1>5 DEF IInv

\* A step of the store that a process takes.
LEMMA StoreStepInv ==
    ASSUME IInv, NEW s \in Service, StoreStep(s), UNCHANGED localVars
    PROVE  IInv'
<1>1. CASE CheckRevisions(s)
  BY <1>1, CheckRevisionsStep
<1>2. CASE WriteRecord(s)
  BY <1>2, WriteRecordStep
<1>3. CASE AppendEvent(s)
  BY <1>3, AppendEventStep
<1>4. CASE StartVerify(s)
  BY <1>4, StartVerifyStep
<1>5. CASE Acknowledge(s)
  BY <1>5, AcknowledgeStep
<1>6. CASE ScanRefused(s) \/ Crash(s)
  BY <1>6, RefusedStep
<1> QED
  BY <1>1, <1>2, <1>3, <1>4, <1>5, <1>6 DEF StoreStep

\* A request that a process begins to serve.
LEMMA RequestInv ==
    ASSUME IInv, NEW s \in Service, Request_(s), UNCHANGED localVars
    PROVE  IInv'
<1>1. CASE \E i \in Import : ImportSource(s, i[1], Rows(i[1]), i[2])
  BY <1>1, ImportStep
<1>2. CASE \E q \in ProjectRequest : CreateProject(s, q)
  BY <1>2, CreateStep
<1>3. CASE \E q \in FreezeRequest : Freeze(s, q)
  BY <1>3, FreezeStep
<1>4. CASE \E q \in CloneRequest : Clone(s, q)
  BY <1>4, CloneStep
<1> QED
  BY <1>1, <1>2, <1>3, <1>4 DEF Request_

\* A step of a local use that a process takes.
LEMMA UseStepInv ==
    ASSUME IInv, NEW s \in Service, UseStep(s)
    PROVE  IInv'
<1>1. CASE VerifyArtifact(s)
  BY <1>1, VerifyArtifactStep
<1>2. CASE RefuseArtifact(s)
  BY <1>2, RefuseStep
<1>3. CASE Infer(s)
  BY <1>3, InferStep
<1>4. CASE CopyMember(s)
  BY <1>4, CopyMemberStep
<1>5. CASE VerifyBundle(s)
  BY <1>5, VerifyBundleStep
<1> QED
  BY <1>1, <1>2, <1>3, <1>4, <1>5 DEF UseStep

\* Every step keeps the inductive invariant.
LEMMA NextInv == IInv /\ [Next]_vars => IInv'
<1> SUFFICES ASSUME IInv, [Next]_vars PROVE IInv'
  OBVIOUS
<1>1. CASE \E s \in Service : (Request_(s) \/ PrepareGraph(s) \/ StoreStep(s))
                              /\ UNCHANGED localVars
  BY <1>1, RequestInv, PrepareGraphStep, StoreStepInv
<1>2. CASE \E s \in Service : \E q \in UseRequest : StartUse(s, q)
  BY <1>2, StartUseStep
<1>3. CASE \E s \in Service : UseStep(s)
  BY <1>3, UseStepInv
<1>4. CASE \E a \in SeedArtifacts, m \in ToSet(Member) : Tamper(a, m)
  BY <1>4, TamperStep
<1>5. CASE UNCHANGED vars
  <2> USE <1>5 DEF vars, storeVars, localVars
  <2>1. Shared'
    BY DEF IInv, Shared, ClosedButBaselines, Whole, Sound, ExportIntact, Keyed, Backed, Told
  <2>2. Grows
    BY DEF Grows, Sound, ExportIntact
  <2>3. ASSUME NEW s \in Service PROVE Good(call[s])' /\ Serves(call[s], use[s])'
    <3>1. PICK c : c = call[s]
      OBVIOUS
    <3>2. PICK u : u = use[s]
      OBVIOUS
    <3>3. Good(c) /\ Serves(c, u) /\ call'[s] = c /\ use'[s] = u
      BY <3>1, <3>2 DEF IInv
    <3>4. Good(c)' /\ Serves(c, u)'
      BY <2>2, <3>3, Keeps, ServesOn DEF Grows
    <3> QED
      BY <3>3, <3>4
  <2>4. TypeOK'
    BY DEF IInv, TypeOK
  <2> QED
    BY <2>1, <2>3, <2>4 DEF IInv
<1> QED
  BY <1>1, <1>2, <1>3, <1>4, <1>5 DEF Next

\* Whatever the calls of the services overlap with and wherever they die: what is
\* in the store is closed and tells the truth of bytes on disk, a key of a stream
\* carries one event, every event names a record, every acknowledged use has its
\* event, and every call in flight will keep it so.
THEOREM Inductive == Spec => []IInv
  BY InitInv, NextInv, PTL DEF Spec

\* A record is never in the store without the records it refers to, so that the
\* store opens again after any crash, but for a baseline fixed to what nobody
\* stored; and no call returned with such a baseline behind it
\* (store/evidence.py:590, app_services/projects.py:63).
THEOREM Closedness == Spec => []RecordsClosed
<1>1. IInv => RecordsClosed
  BY DEF IInv, Shared, Whole, RecordsClosed
<1> QED
  BY <1>1, Inductive, PTL

\* An event is never without the record it tells of, whole (store/evidence.py:286).
THEOREM Backing == Spec => []OutcomesBacked
<1>1. IInv => OutcomesBacked
  BY DEF IInv, Shared, Backed, Names, ClosedButBaselines, OutcomesBacked
<1> QED
  BY <1>1, Inductive, PTL

\* Of two revisions of one session or export at most one is acknowledged, however
\* the calls that wrote them overlapped (app_services/_records.py:48).
THEOREM OneAcknowledged == Spec => []OneUseAcknowledged
<1>1. ASSUME IInv, NEW a \in acknowledged, NEW b \in acknowledged,
             IsUse(a), a.type = b.type, a.id = b.id
      PROVE  a = b
  <2>1. "local-use" \in Stream
    BY StreamAssumption
  <2>2. UseEvent(a) \in ToSet(events["local-use"]) /\ UseEvent(b) \in ToSet(events["local-use"])
    BY <1>1 DEF IInv, Shared, Told, IsUse
  <2>3. UseEvent(a).kind = UseEvent(b).kind /\ UseEvent(a).id = UseEvent(b).id
    BY <1>1 DEF UseEvent, Outcome
  <2>4. UseEvent(a) = UseEvent(b)
    BY <2>1, <2>2, <2>3, <1>1 DEF IInv, Shared, Keyed
  <2>5. UseEvent(a).payload = {a} /\ UseEvent(b).payload = {b}
    BY DEF UseEvent, Outcome
  <2> QED
    BY <2>4, <2>5
<1>2. IInv => OneUseAcknowledged
  BY <1>1 DEF OneUseAcknowledged, IsUse
<1> QED
  BY <1>2, Inductive, PTL

\* The adapter of a recorded session and every file of a recorded export are what
\* was verified, whatever changes on disk between the reads, and the export stays
\* so.  Of the configuration a session is inferred under it says nothing
\* (app_services/local_use.py:437, :312).
THEOREM OnlyVerified == Spec => []VerifiedBytesOnly
<1>1. IInv => VerifiedBytesOnly
  BY DEF IInv, Shared, Sound, VerifiedBytesOnly
<1> QED
  BY <1>1, Inductive, PTL

-----------------------------------------------------------------------------
(* Evaluations                                                             *)

Revision(r) == r.type \in {"evaluation_suite", "review"}

\* The steps of a call that follow the last reading of its lineage.
Past == {"append", "verify", "verifying"}

\* What a call makes of the one record it is about.
Makes(c, r) ==
    /\ c.result = {r} /\ c.event = Event(r) /\ WellMade(r)
    /\ r.type \in Announced \cup {"user_decision"}
    /\ c.settle \in {{}, {r}}
    /\ c.settle = {} /\ Revision(r) => Prior(r) = {}
    /\ c.pc \in {"check", "write"} => c.todo = <<r>>
    /\ c.pc \in {"settle"} \cup Past => r \in records
    /\ c.pc \in {"verify", "verifying"} /\ r.type = "user_decision" =>
           Event(r) \in ToSet(events["user-decisions"])

Kept(c) ==
    /\ DOMAIN c = Fields /\ c.proposed = {}
    /\ c.pc \in {"idle", "check", "write", "settle"} \cup Past
    /\ c.pc # "idle" => \E r \in c.result : Makes(c, r)

\* The records whose lineage was found linear after they were written.
Settled ==
    acknowledged \cup
    UNION {call[s].result : s \in {o \in Service : call[o].pc \in Past}}

Single ==
    \A a, b \in Settled :
        Revision(a) /\ Revision(b) /\ Prior(a) # {} /\ Prior(a) = Prior(b) => a = b

\* The history of decisions: an event for each that is acknowledged, once.
History ==
    LET stream == events["user-decisions"] IN
    /\ stream \in Seq(ToSet(stream))
    /\ \A e \in ToSet(stream) : \E d \in Decisions : e = Event(d)
    /\ \A i, j \in DOMAIN stream : stream[i].id = stream[j].id => i = j
    /\ \A d \in acknowledged : d.type = "user_decision" => Event(d) \in ToSet(stream)

EvaluationsInv ==
    /\ call = [s \in Service |-> call[s]] /\ DOMAIN events = Stream
    /\ acknowledged \subseteq records
    /\ \A r \in records : WellMade(r)
    /\ \A s \in Service : Kept(call[s])
    /\ Single /\ History

\* Of what a call has made and of what it has told, nothing is taken back.
LEMMA KeptOn ==
    ASSUME NEW c, Kept(c), records \subseteq records',
           ToSet(events["user-decisions"]) \subseteq ToSet(events["user-decisions"])'
    PROVE  Kept(c)'
<1>1. ASSUME NEW r, Makes(c, r) PROVE Makes(c, r)'
  BY <1>1 DEF Makes
<1> QED
  BY <1>1 DEF Kept

\* The event of a decision has the decision for its identity and goes to the
\* decisions' stream, where no other event goes.
LEMMA EventStreams ==
    ASSUME NEW r, WellMade(r), r.type \in Announced \cup {"user_decision"}
    PROVE  /\ r.type = "user_decision" =>
                  Event(r) = Outcome("user-decisions", "user-decision-recorded", r, {})
           /\ r.type # "user_decision" => Event(r).stream # "user-decisions"
<1>1. CASE r.type = "user_decision"
  BY <1>1 DEF Event
<1>2. CASE r.type = "evaluation_suite"
  <2>1. r.id \in LineageIds
    BY <1>2 DEF WellMade
  <2>2. "evaluation-suite-" \o r.id # "user-decisions"
    BY <2>1, NamesAssumption, Zenon
  <2>3. Event(r).stream = "evaluation-suite-" \o r.id
    BY <1>2 DEF Event, Outcome
  <2> QED
    BY <1>2, <2>2, <2>3
<1>3. CASE r.type = "review"
  <2>1. r.id \in LineageIds
    BY <1>3 DEF WellMade
  <2>2. "review-" \o r.id # "user-decisions"
    BY <2>1, NamesAssumption, Zenon
  <2>3. Event(r).stream = "review-" \o r.id
    BY <1>3 DEF Event, Outcome
  <2> QED
    BY <1>3, <2>2, <2>3
<1>4. CASE r.type \in {"evaluation_result", "recommendation_policy", "recommendation"}
  BY <1>4 DEF Event, Outcome
<1> QED
  BY <1>1, <1>2, <1>3, <1>4 DEF Announced

\* What is settled is in the store.
LEMMA SettledStored == ASSUME EvaluationsInv PROVE Settled \subseteq records
<1>1. ASSUME NEW o \in Service, call[o].pc \in Past PROVE call[o].result \subseteq records
  <2>1. Kept(call[o]) /\ call[o].pc # "idle"
    BY <1>1 DEF EvaluationsInv, Past
  <2>2. PICK r \in call[o].result : Makes(call[o], r)
    BY <2>1 DEF Kept
  <2> QED
    BY <1>1, <2>2 DEF Makes
<1> QED
  BY <1>1 DEF Settled, EvaluationsInv

Unrivalled(r) ==
    \A b \in Settled :
        Revision(r) /\ Revision(b) /\ Prior(r) # {} /\ Prior(r) = Prior(b) => b = r

\* A lineage that is linear holds no other successor of the same revision.
LEMMA LinearUnrivalled ==
    ASSUME EvaluationsInv, NEW r \in records, Linear(Lineage(r))
    PROVE  Unrivalled(r)
<1> SUFFICES ASSUME NEW b \in Settled, Revision(r), Revision(b), Prior(r) # {},
                    Prior(r) = Prior(b)
             PROVE  b = r
  BY DEF Unrivalled
<1>1. b \in records
  BY SettledStored
<1>2. WellMade(r) /\ WellMade(b)
  BY <1>1 DEF EvaluationsInv
<1>3. PICK p : p \in Prior(r)
  OBVIOUS
<1>4. p.id = r.id /\ p.id = b.id /\ p.type = r.type /\ p.type = b.type
  BY <1>2, <1>3 DEF WellMade, Revision, Prior, RefsTo
<1>5. b \in Lineage(r) /\ r \in Lineage(r)
  BY <1>1, <1>4 DEF Lineage
<1>6. \A q \in Lineage(r) \ {r} : Prior(q) # Prior(r)
  BY <1>5 DEF Linear
<1> QED
  BY <1>5, <1>6

\* A step of one process, after which it is at c and what N says is settled too.
LEMMA EvaluationMove ==
    ASSUME EvaluationsInv, NEW s \in Service, NEW c, NEW N,
           call' = [call EXCEPT ![s] = c], records \subseteq records',
           DOMAIN events' = Stream, ToSet(events["user-decisions"])
               \subseteq ToSet(events["user-decisions"])',
           \A r \in records' \ records : WellMade(r),
           acknowledged' \subseteq records', acknowledged' \subseteq Settled \cup N,
           Kept(c)', c.pc \in Past => c.result \subseteq Settled \cup N,
           \A a, b \in N : a = b, \A r \in N : Unrivalled(r), History'
    PROVE  EvaluationsInv'
<1>1. /\ call' = [o \in Service |-> call'[o]] /\ call'[s] = c
      /\ \A o \in Service \ {s} : call'[o] = call[o]
  BY DEF EvaluationsInv
<1>2. \A r \in records' : WellMade(r)
  BY DEF EvaluationsInv
<1>3. ASSUME NEW o \in Service PROVE Kept(call[o])'
  <2>1. CASE o = s
    BY <1>1, <2>1 DEF Kept, Makes
  <2>2. CASE o # s
    <3>1. PICK d : d = call[o]
      OBVIOUS
    <3>2. Kept(d)
      BY <3>1 DEF EvaluationsInv
    <3>3. Kept(d)'
      BY <3>2, KeptOn
    <3>4. call'[o] = d
      BY <1>1, <2>2, <3>1
    <3> QED
      BY <3>3, <3>4 DEF Kept, Makes
  <2> QED
    BY <2>1, <2>2
<1>4. Settled' \subseteq Settled \cup N
  <2>1. ASSUME NEW o \in Service, call'[o].pc \in Past
        PROVE  call'[o].result \subseteq Settled \cup N
    BY <1>1, <2>1 DEF Settled
  <2> QED
    BY <2>1 DEF Settled, Past
<1>5. Single'
  <2> SUFFICES ASSUME NEW a \in Settled', NEW b \in Settled', Revision(a), Revision(b),
                      Prior(a) # {}, Prior(a) = Prior(b)
               PROVE  a = b
    BY DEF Single, Revision, Prior, RefsTo
  <2>1. a \in Settled \cup N /\ b \in Settled \cup N
    BY <1>4
  <2>2. CASE a \in Settled /\ b \in Settled
    BY <2>2 DEF EvaluationsInv, Single
  <2>3. CASE a \in N /\ b \in N
    BY <2>3
  <2>4. CASE a \in N /\ b \in Settled
    BY <2>4 DEF Unrivalled
  <2>5. CASE a \in Settled /\ b \in N
    BY <2>5 DEF Unrivalled
  <2> QED
    BY <2>1, <2>2, <2>3, <2>4, <2>5
<1> QED
  BY <1>1, <1>2, <1>3, <1>5 DEF EvaluationsInv

\* The history stays as it is while its stream does and nothing is acknowledged.
LEMMA HistoryOn ==
    ASSUME History, records \subseteq records',
           events["user-decisions"]' = events["user-decisions"],
           \A d \in acknowledged' \ acknowledged : d.type = "user_decision" =>
               Event(d) \in ToSet(events["user-decisions"])
    PROVE  History'
  BY DEF History, Decisions

\* A step that only moves one process, and settles nothing new.
LEMMA EvaluationQuiet ==
    ASSUME EvaluationsInv, NEW s \in Service, NEW c, call' = [call EXCEPT ![s] = c],
           UNCHANGED <<records, events, acknowledged>>, Kept(c),
           c.pc \in Past => call[s].pc \in Past /\ c.result = call[s].result
    PROVE  EvaluationsInv'
<1>1. Kept(c)' /\ History'
  BY KeptOn, HistoryOn DEF EvaluationsInv
<1>2. acknowledged' \subseteq Settled /\ (c.pc \in Past => c.result \subseteq Settled)
  BY DEF Settled
<1> DEFINE N == {}
<1>3. /\ acknowledged' \subseteq records' /\ DOMAIN events' = Stream
      /\ acknowledged' \subseteq Settled \cup N
      /\ c.pc \in Past => c.result \subseteq Settled \cup N
      /\ \A a, b \in N : a = b
      /\ \A x \in N : Unrivalled(x)
  BY <1>2 DEF EvaluationsInv
<1> HIDE DEF N
<1> QED
  BY <1>1, <1>3, EvaluationMove

\* A call that ends leaves nothing behind.
LEMMA EvaluationEnds ==
    ASSUME EvaluationsInv, NEW s \in Service, Ends(s),
           UNCHANGED <<records, events, acknowledged>>
    PROVE  EvaluationsInv'
<1>1. Kept(Idle) /\ Idle.pc \notin Past
  BY IdleFields DEF Kept, Past
<1> QED
  BY <1>1, EvaluationQuiet DEF Ends, Moves

\* What a call that is not idle makes, and that it is a record of its fields.
LEMMA EvaluationMade ==
    ASSUME EvaluationsInv, NEW s \in Service, NEW pc, At(s, pc), pc # "idle"
    PROVE  /\ DOMAIN call[s] = Fields /\ call[s].proposed = {}
           /\ \E r : call[s].result = {r} /\ Makes(call[s], r)
<1>1. Kept(call[s]) /\ call[s].pc # "idle"
  BY DEF EvaluationsInv, At
<1> QED
  BY <1>1 DEF Kept, Makes

\* The checks of a call done, its record is written next.
LEMMA EvaluationChecked ==
    ASSUME EvaluationsInv, NEW s \in Service, CheckRevisions(s) PROVE EvaluationsInv'
<1>1. CASE Ends(s)
  BY <1>1, EvaluationEnds DEF CheckRevisions
<1>2. CASE ~Ends(s)
  <2>1. PICK c : c = call[s]
    OBVIOUS
  <2>2. PICK r : c.result = {r} /\ Makes(c, r)
    BY <2>1, EvaluationMade DEF CheckRevisions
  <2>3. c.pc = "check" /\ DOMAIN c = Fields /\ c.proposed = {}
    BY <2>1, EvaluationMade DEF CheckRevisions, At
  <2>4. PICK d : d = [c EXCEPT !.pc = "write"]
    OBVIOUS
  <2>5. call' = [call EXCEPT ![s] = d] /\ UNCHANGED <<records, events, acknowledged>>
    BY <1>2, <2>1, <2>3, <2>4 DEF CheckRevisions, Moves
  <2>6. /\ DOMAIN d = Fields /\ d.pc = "write" /\ d.proposed = {} /\ d.result = c.result
        /\ d.event = c.event /\ d.settle = c.settle /\ d.todo = c.todo
    BY <2>3, <2>4 DEF Fields
  <2>7. Makes(d, r)
    BY <2>2, <2>3, <2>6 DEF Makes, Past
  <2>8. Kept(d) /\ d.pc \notin Past
    BY <2>2, <2>6, <2>7 DEF Kept, Past
  <2> QED
    BY <2>5, <2>8, EvaluationQuiet
<1> QED
  BY <1>1, <1>2

\* The record written, its lineage is read again, unless it is of none.
LEMMA EvaluationWritten ==
    ASSUME EvaluationsInv, NEW s \in Service, WriteRecord(s) PROVE EvaluationsInv'
<1>1. PICK c : c = call[s]
  OBVIOUS
<1>2. PICK r : c.result = {r} /\ Makes(c, r)
  BY <1>1, EvaluationMade DEF WriteRecord
<1>3. c.pc = "write" /\ DOMAIN c = Fields /\ c.proposed = {} /\ c.todo = <<r>>
  BY <1>1, <1>2, EvaluationMade DEF WriteRecord, At, Makes
<1>4. Head(c.todo) = r /\ Tail(c.todo) = <<>>
  BY <1>3
<1>5. PICK d : d = [c EXCEPT !.todo = <<>>, !.pc = AfterWrites(c)]
  OBVIOUS
<1>6. /\ records' = records \cup {r} /\ call' = [call EXCEPT ![s] = d]
      /\ UNCHANGED <<events, acknowledged>>
  BY <1>1, <1>4, <1>5 DEF WriteRecord, Written, Moves
<1>7. /\ DOMAIN d = Fields /\ d.pc = AfterWrites(c) /\ d.proposed = {}
      /\ d.result = c.result /\ d.event = c.event /\ d.settle = c.settle
  BY <1>3, <1>5 DEF Fields
<1>8. Makes(d, r)'
  <2>1. d.pc \in {"settle", "append"}
    BY <1>7 DEF AfterWrites
  <2> QED
    BY <1>2, <1>6, <1>7, <2>1 DEF Makes, Past
<1>9. Kept(d)'
  <2>1. d.pc \in {"settle", "append"}
    BY <1>7 DEF AfterWrites
  <2> QED
    BY <1>2, <1>7, <1>8, <2>1 DEF Kept, Past
<1>10. /\ WellMade(r) /\ acknowledged' \subseteq records' /\ acknowledged' \subseteq Settled
       /\ DOMAIN events' = Stream
  BY <1>2, <1>6 DEF Makes, EvaluationsInv, Settled
<1>11. History'
  BY <1>6, HistoryOn DEF EvaluationsInv
<1>12. CASE c.settle = {}
  <2> DEFINE N == {r}
  <2>1. Unrivalled(r)
    BY <1>2, <1>12 DEF Makes, Unrivalled
  <2>2. /\ \A a, b \in N : a = b
        /\ \A x \in N : Unrivalled(x)
        /\ d.result \subseteq Settled \cup N /\ acknowledged' \subseteq Settled \cup N
    BY <1>2, <1>7, <1>10, <2>1
  <2> HIDE DEF N
  <2> QED
    BY <1>6, <1>9, <1>10, <1>11, <2>2, EvaluationMove
<1>13. CASE c.settle # {}
  <2> DEFINE N == {}
  <2>1. /\ \A a, b \in N : a = b
        /\ \A x \in N : Unrivalled(x)
        /\ d.pc \notin Past /\ acknowledged' \subseteq Settled \cup N
    BY <1>7, <1>10, <1>13 DEF AfterWrites, Past
  <2> HIDE DEF N
  <2> QED
    BY <1>6, <1>9, <1>10, <1>11, <2>1, EvaluationMove
<1> QED
  BY <1>12, <1>13

\* A call goes on to its event only if the lineage it wrote to is linear.
LEMMA EvaluationSettled ==
    ASSUME EvaluationsInv, NEW s \in Service, Settle(s) PROVE EvaluationsInv'
<1>1. CASE Ends(s)
  BY <1>1, EvaluationEnds DEF Settle
<1>2. CASE ~Ends(s)
  <2>1. PICK c : c = call[s]
    OBVIOUS
  <2>2. PICK r : c.result = {r} /\ Makes(c, r)
    BY <2>1, EvaluationMade DEF Settle
  <2>3. c.pc = "settle" /\ DOMAIN c = Fields /\ c.proposed = {}
    BY <2>1, EvaluationMade DEF Settle, At
  <2>4. PICK d : d = [c EXCEPT !.pc = "append"]
    OBVIOUS
  <2>5. /\ call' = [call EXCEPT ![s] = d] /\ UNCHANGED <<records, events, acknowledged>>
        /\ \A x \in c.settle : Linear(Lineage(x))
    BY <1>2, <2>1, <2>4 DEF Settle, Moves
  <2>6. /\ DOMAIN d = Fields /\ d.pc = "append" /\ d.proposed = {} /\ d.result = c.result
        /\ d.event = c.event /\ d.settle = c.settle /\ d.todo = c.todo
    BY <2>3, <2>4 DEF Fields
  <2>7. Makes(d, r) /\ r \in records
    BY <2>2, <2>3, <2>6 DEF Makes, Past
  <2>8. Kept(d)
    BY <2>2, <2>6, <2>7 DEF Kept, Past
  <2>9. Kept(d)' /\ History'
    BY <2>5, <2>8, KeptOn, HistoryOn DEF EvaluationsInv
  <2>10. Unrivalled(r)
    <3>1. CASE c.settle = {}
      BY <2>2, <3>1 DEF Makes, Unrivalled
    <3>2. CASE c.settle # {}
      BY <2>2, <2>5, <2>7, <3>2, LinearUnrivalled DEF Makes
    <3> QED
      BY <3>1, <3>2
  <2> DEFINE N == {r}
  <2>11. /\ \A a, b \in N : a = b
         /\ \A x \in N : Unrivalled(x)
         /\ d.result \subseteq Settled \cup N /\ acknowledged' \subseteq Settled \cup N
         /\ acknowledged' \subseteq records' /\ DOMAIN events' = Stream
    BY <2>2, <2>5, <2>6, <2>10 DEF EvaluationsInv, Settled
  <2> HIDE DEF N
  <2> QED
    BY <2>5, <2>9, <2>11, EvaluationMove
<1> QED
  BY <1>1, <1>2

\* The verification begins with what is there.
LEMMA EvaluationVerified ==
    ASSUME EvaluationsInv, NEW s \in Service, StartVerify(s) PROVE EvaluationsInv'
<1>1. PICK c : c = call[s]
  OBVIOUS
<1>2. PICK r : c.result = {r} /\ Makes(c, r)
  BY <1>1, EvaluationMade DEF StartVerify
<1>3. c.pc = "verify" /\ DOMAIN c = Fields /\ c.proposed = {}
  BY <1>1, EvaluationMade DEF StartVerify, At
<1>4. PICK d : d = [c EXCEPT !.pc = "verifying", !.seen = records]
  OBVIOUS
<1>5. call' = [call EXCEPT ![s] = d] /\ UNCHANGED <<records, events, acknowledged>>
  BY <1>1, <1>4 DEF StartVerify, Moves
<1>6. /\ DOMAIN d = Fields /\ d.pc = "verifying" /\ d.proposed = {} /\ d.result = c.result
      /\ d.event = c.event /\ d.settle = c.settle /\ d.todo = c.todo
  BY <1>3, <1>4 DEF Fields
<1>7. Makes(d, r)
  BY <1>2, <1>3, <1>6 DEF Makes, Past
<1>8. Kept(d)
  BY <1>2, <1>6, <1>7 DEF Kept, Past
<1> QED
  BY <1>1, <1>3, <1>5, <1>6, <1>8, EvaluationQuiet DEF Past

\* A call that is acknowledged was settled, and what it decided is told.
LEMMA EvaluationAcknowledged ==
    ASSUME EvaluationsInv, NEW s \in Service, Acknowledge(s) PROVE EvaluationsInv'
<1>1. PICK r : call[s].result = {r} /\ Makes(call[s], r)
  BY EvaluationMade DEF Acknowledge
<1>2. call[s].pc = "verifying" /\ r \in Settled /\ r \in records
  BY <1>1 DEF Acknowledge, At, Settled, Past, Makes
<1>3. /\ acknowledged' = acknowledged \cup {r} /\ call' = [call EXCEPT ![s] = Idle]
      /\ UNCHANGED <<records, events>>
  BY <1>1 DEF Acknowledge, Ends, Moves
<1>4. r.type = "user_decision" => Event(r) \in ToSet(events["user-decisions"])
  BY <1>1, <1>2 DEF Makes
<1>5. History'
  BY <1>3, <1>4, HistoryOn DEF EvaluationsInv
<1>6. Kept(Idle)' /\ Idle.pc \notin Past
  BY IdleFields DEF Kept, Past
<1> DEFINE N == {}
<1>7. /\ \A a, b \in N : a = b
      /\ \A x \in N : Unrivalled(x)
      /\ acknowledged' \subseteq Settled \cup N
      /\ acknowledged' \subseteq records' /\ DOMAIN events' = Stream
  BY <1>2, <1>3 DEF EvaluationsInv, Settled
<1> HIDE DEF N
<1> QED
  BY <1>3, <1>5, <1>6, <1>7, EvaluationMove

\* The event is appended once; only that of a decision goes to the history, which
\* holds no other under its identity.
LEMMA EvaluationTold ==
    ASSUME EvaluationsInv, NEW s \in Service, AppendEvent(s) PROVE EvaluationsInv'
<1>1. PICK c : c = call[s]
  OBVIOUS
<1>2. PICK r : c.result = {r} /\ Makes(c, r)
  BY <1>1, EvaluationMade DEF AppendEvent
<1>3. c.pc = "append" /\ DOMAIN c = Fields /\ c.proposed = {}
  BY <1>1, EvaluationMade DEF AppendEvent, At
<1>4. PICK e : e = Event(r)
  OBVIOUS
<1>5. /\ c.event = e /\ WellMade(r) /\ r.type \in Announced \cup {"user_decision"}
      /\ r \in records
  BY <1>2, <1>3, <1>4 DEF Makes, Past
<1>6. /\ IF e.kind = "none" \/ Held(e) # {} THEN UNCHANGED events ELSE events' = Appended(e)
      /\ IF Held(e) \ {e} # {} THEN Ends(s) ELSE Moves(s, [c EXCEPT !.pc = "verify"])
      /\ UNCHANGED <<records, acknowledged>>
  BY <1>1, <1>5 DEF AppendEvent
<1>7. CASE Held(e) \ {e} # {}
  BY <1>6, <1>7, EvaluationEnds
<1>8. CASE Held(e) \subseteq {e}
  <2> DEFINE stream == events["user-decisions"]
  <2>1. PICK d : d = [c EXCEPT !.pc = "verify"]
    OBVIOUS
  <2>2. call' = [call EXCEPT ![s] = d]
    BY <1>6, <1>8, <2>1 DEF Moves
  <2>3. /\ DOMAIN d = Fields /\ d.pc = "verify" /\ d.proposed = {} /\ d.result = c.result
        /\ d.event = c.event /\ d.settle = c.settle /\ d.todo = c.todo
    BY <1>3, <2>1 DEF Fields
  <2>4. History /\ DOMAIN events = Stream /\ "user-decisions" \in Stream
    BY NamesAssumption DEF EvaluationsInv
  <2>5. DOMAIN events' = Stream
    BY <1>6, <2>4 DEF Appended
  <2>6. /\ ToSet(stream) \subseteq ToSet(stream') /\ History'
        /\ r.type = "user_decision" => e \in ToSet(stream')
    <3>1. CASE r.type # "user_decision"
      <4>1. e.stream # "user-decisions"
        BY <1>4, <1>5, <3>1, EventStreams
      <4>2. stream' = stream
        BY <1>6, <2>4, <4>1 DEF Appended
      <4> QED
        BY <1>6, <2>4, <3>1, <4>2, HistoryOn
    <3>2. CASE r.type = "user_decision"
      <4>1. e = Outcome("user-decisions", "user-decision-recorded", r, {})
        BY <1>4, <1>5, <3>2, EventStreams
      <4>2. /\ e.stream = "user-decisions" /\ e.kind = "user-decision-recorded" /\ e.id = r
        BY <4>1 DEF Outcome
      <4>3. ASSUME NEW x \in ToSet(stream), x.id = r PROVE x = e /\ x \in Held(e)
        <5>1. PICK o \in Decisions : x = Event(o)
          BY <2>4, <4>3 DEF History
        <5>2. o.type = "user_decision" /\ WellMade(o)
          BY <5>1 DEF Decisions, EvaluationsInv
        <5>3. Event(o) = Outcome("user-decisions", "user-decision-recorded", o, {})
          BY <5>2, EventStreams
        <5>4. o = r
          BY <4>3, <5>1, <5>3 DEF Outcome
        <5>5. x = e
          BY <1>4, <5>1, <5>4
        <5>6. ToSet(stream) \in {ToSet(events[n]) : n \in Stream \cap {e.stream}}
          BY <2>4, <4>2
        <5>7. x \in UNION {ToSet(events[n]) : n \in Stream \cap {e.stream}}
          BY <4>3, <5>6, Zenon
        <5> QED
          BY <5>5, <5>7 DEF Held
      <4>4. CASE Held(e) # {}
        <5>1. stream' = stream
          BY <1>6, <4>4
        <5>2. e \in Held(e)
          BY <1>8, <4>4
        <5>3. PICK n \in Stream \cap {e.stream} : e \in ToSet(events[n])
          BY <5>2 DEF Held
        <5>4. n = "user-decisions"
          BY <4>2, <5>3
        <5>5. e \in ToSet(stream)
          BY <5>3, <5>4
        <5> QED
          BY <1>6, <2>4, <5>1, <5>5, HistoryOn
      <4>5. CASE Held(e) = {}
        <5>1. stream' = Append(stream, e)
          BY <1>6, <2>4, <4>2, <4>5 DEF Appended
        <5>2. PICK q : q = stream
          OBVIOUS
        <5>3. q \in Seq(ToSet(q))
          BY <2>4, <5>2 DEF History
        <5>4. \A x \in ToSet(q) : x.id # r
          BY <4>3, <4>5, <5>2
        <5>5. PICK t : t = Append(q, e)
          OBVIOUS
        <5>6. t \in Seq(ToSet(t)) /\ ToSet(t) = ToSet(q) \cup {e}
          BY <5>3, <5>5, Appending
        <5>7. \A i, j \in DOMAIN t : t[i].id = t[j].id => i = j
          <6> DEFINE n == Len(q)
          <6>1. n \in Nat /\ DOMAIN q = 1 .. n /\ DOMAIN t = 1 .. n + 1
            BY <5>3, <5>5
          <6>2. t[n + 1] = e /\ \A i \in 1 .. n : t[i] = q[i]
            BY <5>3, <5>5
          <6>3. \A i, j \in 1 .. n : q[i].id = q[j].id => i = j
            BY <2>4, <5>2, <6>1 DEF History
          <6>4. \A i \in 1 .. n : q[i] \in ToSet(q)
            BY <6>1 DEF ToSet
          <6>5. \A i \in 1 .. n : q[i].id # r
            BY <5>4, <6>4
          <6> HIDE DEF n
          <6>6. \A i \in 1 .. n + 1 : i \in 1 .. n \/ i = n + 1
            BY <6>1
          <6> SUFFICES ASSUME NEW i \in 1 .. n + 1, NEW j \in 1 .. n + 1,
                              t[i].id = t[j].id
                       PROVE  i = j
            BY <6>1
          <6>7. CASE i \in 1 .. n /\ j \in 1 .. n
            BY <6>2, <6>3, <6>7
          <6>8. CASE i = n + 1 /\ j \in 1 .. n
            BY <4>2, <6>2, <6>5, <6>8
          <6>9. CASE i \in 1 .. n /\ j = n + 1
            BY <4>2, <6>2, <6>5, <6>9
          <6> QED
            BY <6>6, <6>7, <6>8, <6>9
        <5>8. Decisions' = Decisions /\ r \in Decisions
          BY <1>5, <1>6, <3>2 DEF Decisions
        <5>9. stream' = t
          BY <5>1, <5>2, <5>5
        <5>10. \A x \in ToSet(t) : \E o \in Decisions : x = Event(o)
          BY <1>4, <2>4, <5>2, <5>6, <5>8 DEF History
        <5>11. \A o \in acknowledged : o.type = "user_decision" => Event(o) \in ToSet(t)
          BY <2>4, <5>2, <5>6 DEF History
        <5>12. History'
          BY <1>6, <5>6, <5>7, <5>8, <5>9, <5>10, <5>11 DEF History
        <5> QED
          BY <5>2, <5>6, <5>9, <5>12
      <4> QED
        BY <4>4, <4>5
    <3> QED
      BY <3>1, <3>2
  <2>7. Makes(d, r)'
    BY <1>2, <1>4, <1>5, <1>6, <2>3, <2>6 DEF Makes, Past
  <2>8. Kept(d)'
    BY <1>2, <2>3, <2>7 DEF Kept, Past
  <2>9. d.result \subseteq Settled
    BY <1>1, <1>3, <2>3 DEF Settled, Past
  <2> DEFINE N == {}
  <2>10. /\ \A a, b \in N : a = b
         /\ \A x \in N : Unrivalled(x)
         /\ d.result \subseteq Settled \cup N /\ acknowledged' \subseteq Settled \cup N
         /\ acknowledged' \subseteq records' /\ records \subseteq records'
         /\ \A x \in records' \ records : WellMade(x)
    BY <1>6, <2>9 DEF EvaluationsInv, Settled
  <2> HIDE DEF N
  <2> QED
    BY <2>2, <2>5, <2>6, <2>8, <2>10, EvaluationMove
<1> QED
  BY <1>7, <1>8

\* Every step of a call on the store keeps the invariant.
LEMMA EvaluationStoreStep ==
    ASSUME EvaluationsInv, NEW s \in Service, StoreStep(s) PROVE EvaluationsInv'
<1>1. CASE ScanRefused(s) \/ Crash(s)
  BY <1>1, EvaluationEnds DEF ScanRefused, Crash
<1> QED
  BY <1>1, EvaluationChecked, EvaluationWritten, EvaluationTold, EvaluationVerified,
     EvaluationAcknowledged
     DEF StoreStep

\* A call that makes a record of no lineage, or the root of one.
LEMMA EvaluationPersist ==
    ASSUME EvaluationsInv, NEW s \in Service, NEW r, PersistNew(s, r), WellMade(r),
           r.type \in Announced \cup {"user_decision"}, Revision(r) => Prior(r) = {}
    PROVE  EvaluationsInv'
<1>1. PICK c : c = Request("check", <<r>>, {r}, Event(r))
  OBVIOUS
<1>2. call' = [call EXCEPT ![s] = c] /\ UNCHANGED <<records, events, acknowledged>>
  BY <1>1 DEF PersistNew, Called
<1>3. /\ DOMAIN c = Fields /\ c.pc = "check" /\ c.todo = <<r>> /\ c.proposed = {}
      /\ c.settle = {} /\ c.event = Event(r) /\ c.result = {Last(<<r>>)}
  BY <1>1, RequestFields
<1>4. c.result = {r}
  BY <1>3 DEF Last
<1>5. Makes(c, r)
  BY <1>3, <1>4 DEF Makes, Past
<1>6. Kept(c) /\ c.pc \notin Past
  BY <1>3, <1>4, <1>5 DEF Kept, Past
<1> QED
  BY <1>2, <1>6, EvaluationQuiet

\* A step of a call whose record is settled by it, the store being as it was.
LEMMA EvaluationTaken ==
    ASSUME EvaluationsInv, NEW s \in Service, NEW c, call' = [call EXCEPT ![s] = c],
           UNCHANGED <<records, events>>, Kept(c), NEW r \in records,
           Unrivalled(r), c.pc \in Past => c.result \subseteq Settled \cup {r},
           r.type # "user_decision", acknowledged' \subseteq acknowledged \cup {r}
    PROVE  EvaluationsInv'
<1>1. Kept(c)' /\ History'
  BY KeptOn, HistoryOn DEF EvaluationsInv
<1> DEFINE N == {r}
<1>2. /\ \A a, b \in N : a = b
      /\ \A x \in N : Unrivalled(x)
      /\ acknowledged' \subseteq Settled \cup N
      /\ c.pc \in Past => c.result \subseteq Settled \cup N
      /\ acknowledged' \subseteq records' /\ DOMAIN events' = Stream
  BY DEF EvaluationsInv, Settled
<1> HIDE DEF N
<1> QED
  BY <1>1, <1>2, EvaluationMove

\* A call that makes a successor, or takes the one that is there.
LEMMA EvaluationRevise ==
    ASSUME EvaluationsInv, NEW s \in Service, NEW old, NEW r, PersistRevision(s, old, r),
           WellMade(r), r.type = old.type, r.id = old.id, Revision(r)
    PROVE  EvaluationsInv'
<1> DEFINE successors == {q \in Lineage(old) : Prior(q) = {old}}
<1>1. PICK b : b = Request("write", <<r>>, {}, Event(r))
  OBVIOUS
<1> DEFINE pc == IF successors = {} THEN "write" ELSE "append"
<1>2. PICK c : c = [b EXCEPT !.pc = pc, !.settle = {r}]
  <2> HIDE DEF pc
  <2> QED
    OBVIOUS
<1>3. /\ call' = [call EXCEPT ![s] = c] /\ UNCHANGED <<records, events, acknowledged>>
      /\ Linear(Lineage(old)) /\ successors \subseteq {r}
  BY <1>1, <1>2 DEF PersistRevision, Called
<1>4. /\ DOMAIN b = Fields /\ b.todo = <<r>> /\ b.proposed = {} /\ b.event = Event(r)
      /\ b.result = {Last(<<r>>)}
  BY <1>1, RequestFields
<1>5. /\ DOMAIN c = Fields /\ c.todo = <<r>> /\ c.proposed = {} /\ c.event = Event(r)
      /\ c.result = {r} /\ c.settle = {r}
      /\ c.pc = IF successors = {} THEN "write" ELSE "append"
  BY <1>2, <1>4 DEF Fields, Last
<1>6. r.type \in Announced
  BY DEF Revision, Announced
<1>7. CASE successors = {}
  <2>1. c.pc = "write"
    BY <1>5, <1>7
  <2>2. Makes(c, r)
    BY <1>5, <1>6, <2>1 DEF Makes, Past
  <2>3. Kept(c) /\ c.pc \notin Past
    BY <1>5, <2>1, <2>2 DEF Kept, Past
  <2> QED
    BY <1>3, <2>3, EvaluationQuiet
<1>8. CASE successors # {}
  <2>1. c.pc = "append" /\ r \in Lineage(old)
    BY <1>3, <1>5, <1>8
  <2>2. r \in records /\ Lineage(r) = Lineage(old)
    BY <2>1 DEF Lineage
  <2>3. Unrivalled(r)
    BY <1>3, <2>2, LinearUnrivalled
  <2>4. Makes(c, r)
    BY <1>5, <1>6, <2>1, <2>2 DEF Makes, Past
  <2>5. Kept(c)
    BY <1>5, <2>1, <2>4 DEF Kept, Past
  <2>6. r.type # "user_decision" /\ c.result \subseteq Settled \cup {r}
    BY <1>5 DEF Revision
  <2> QED
    BY <1>3, <2>2, <2>3, <2>5, <2>6, EvaluationTaken
<1> QED
  BY <1>7, <1>8

\* The revision of a suite is well made if what it seals was never opened.
LEMMA SuiteRevision ==
    ASSUME EvaluationsInv, NEW s \in Service, NEW suite \in Suites, NEW state, NEW cases,
           state \in {"unsealed", "sealed", "modified", "contaminated", "retired"},
           state = "sealed" => Prior(suite) = {} /\ cases = suite.body.cases,
           ReviseSuite(s, suite, state, cases)
    PROVE  EvaluationsInv'
<1>1. PICK r : r = [suite EXCEPT !.refs = {suite}, !.body.state = state, !.body.cases = cases]
  OBVIOUS
<1>2. PersistRevision(s, suite, r)
  BY <1>1 DEF ReviseSuite
<1>3. suite.type = "evaluation_suite" /\ WellMade(suite)
  BY DEF Suites, EvaluationsInv
<1>4. /\ DOMAIN suite = {"type", "id", "refs", "body"} /\ suite.id \in LineageIds
      /\ {"state", "cases"} \subseteq DOMAIN suite.body
  BY <1>3 DEF WellMade
<1>5. PICK b : b = [suite.body EXCEPT !.state = state, !.cases = cases]
  OBVIOUS
<1>6. b.state = state /\ b.cases = cases /\ {"state", "cases"} \subseteq DOMAIN b
  BY <1>4, <1>5
<1>7. /\ DOMAIN r = {"type", "id", "refs", "body"} /\ r.type = suite.type
      /\ r.id = suite.id /\ r.refs = {suite} /\ r.body = b
  BY <1>1, <1>4, <1>5
<1>8. Prior(r) = {suite}
  BY <1>7 DEF Prior, RefsTo
<1>9. state = "sealed" => SealedOnce(r)
  BY <1>6, <1>7, <1>8 DEF SealedOnce
<1>10. WellMade(r)
  BY <1>3, <1>4, <1>6, <1>7, <1>8, <1>9 DEF WellMade
<1> QED
  BY <1>2, <1>3, <1>7, <1>10, EvaluationRevise DEF Revision

\* Every call on suites keeps the invariant.
LEMMA SuiteCalls ==
    ASSUME EvaluationsInv, NEW s \in Service,
           (\E suite \in SuiteRequest : RegisterSuite(s, suite)) \/ ReviseSuites(s)
    PROVE  EvaluationsInv'
<1>1. ASSUME NEW suite \in SuiteRequest, RegisterSuite(s, suite) PROVE EvaluationsInv'
  <2>1. /\ PersistNew(s, suite) /\ Prior(suite) = {} /\ suite.body.state = "unsealed"
        /\ suite.type = "evaluation_suite"
    BY <1>1, RequestAssumption DEF RegisterSuite, ValidSuite
  <2>2. suite.id \in LineageIds
    BY DEF LineageIds
  <2>3. WellMade(suite)
    BY <2>1, <2>2, RequestAssumption DEF WellMade
  <2> QED
    BY <2>1, <2>3, EvaluationPersist DEF Announced
<1>2. ASSUME NEW suite \in Suites, AlreadyMarked(s, suite) PROVE EvaluationsInv'
  <2>1. suite \in records /\ suite.type = "evaluation_suite" /\ Linear(Lineage(suite))
    BY <1>2 DEF AlreadyMarked, Current, Suites
  <2>2. Unrivalled(suite)
    BY <2>1, LinearUnrivalled
  <2>3. PICK c : c = call[s]
    OBVIOUS
  <2>4. call' = [call EXCEPT ![s] = c] /\ Kept(c)
    BY <1>2, <2>3 DEF AlreadyMarked, EvaluationsInv
  <2>5. c.pc \notin Past
    BY <1>2, <2>3 DEF AlreadyMarked, CanCall, At, Past
  <2> QED
    BY <1>2, <2>1, <2>2, <2>4, <2>5, EvaluationTaken DEF AlreadyMarked
<1>3. ASSUME NEW suite \in Suites,
             \/ SealSuite(s, suite) \/ InspectConfirmationSuite(s, suite)
             \/ MarkSuiteContaminated(s, suite) \/ RetireSuite(s, suite)
             \/ \E cases \in Cases : ModifySuite(s, suite, cases)
      PROVE  EvaluationsInv'
  <2>1. CASE SealSuite(s, suite)
    BY <2>1, SuiteRevision DEF SealSuite
  <2>2. CASE InspectConfirmationSuite(s, suite)
    BY <2>2, SuiteRevision DEF InspectConfirmationSuite
  <2>3. CASE MarkSuiteContaminated(s, suite)
    BY <2>3, SuiteRevision DEF MarkSuiteContaminated
  <2>4. CASE RetireSuite(s, suite)
    BY <2>4, SuiteRevision DEF RetireSuite
  <2>5. ASSUME NEW cases \in Cases, ModifySuite(s, suite, cases) PROVE EvaluationsInv'
    BY <2>5, SuiteRevision DEF ModifySuite
  <2> QED
    BY <1>3, <2>1, <2>2, <2>3, <2>4, <2>5
<1> QED
  BY <1>1, <1>2, <1>3 DEF ReviseSuites

\* A blind preparation refers to the candidates and to nothing else.
LEMMA PreparationRoot ==
    ASSUME NEW id \in LineageIds, NEW mapping, NEW nonce, NEW outputs, NEW p,
           p = BlindPreparation(id, mapping, nonce, outputs),
           \A c \in ToSet(mapping) : c.type = "artifact"
    PROVE  WellMade(p) /\ p.type = "review" /\ Prior(p) = {}
<1>1. /\ DOMAIN p = {"type", "id", "refs", "body"} /\ p.type = "review" /\ p.id = id
      /\ p.refs = ToSet(mapping) /\ "stage" \in DOMAIN p.body
      /\ p.body.mapping = mapping
  BY DEF BlindPreparation
<1>2. Prior(p) = {}
  BY <1>1 DEF Prior, RefsTo
<1> QED
  BY <1>1, <1>2 DEF WellMade

\* A sequence of all the elements of a set has no others.
LEMMA OrderedMembers ==
    ASSUME NEW S, NEW q \in SetToSeqs(S)
    PROVE  ToSet(q) \subseteq S
  BY DEF SetToSeqs, ToSet

\* Preparing a blind review, new or again.
LEMMA PrepareCall ==
    ASSUME EvaluationsInv, NEW s \in Service, NEW q \in ReviewRequest, PrepareBlindReview(s, q)
    PROVE  EvaluationsInv'
<1> DEFINE existing == {r \in Reviews : r.id = q.id}
<1>1. q.id \in LineageIds /\ \A c \in DOMAIN q.outputs : c.type = "artifact"
  BY RequestAssumption DEF LineageIds
<1>2. ASSUME NEW mapping \in SetToSeqs(DOMAIN q.outputs),
             PersistNew(s, BlindPreparation(q.id, mapping, calls, q.outputs))
      PROVE  EvaluationsInv'
  <2>1. PICK p : p = BlindPreparation(q.id, mapping, calls, q.outputs)
    OBVIOUS
  <2>2. \A c \in ToSet(mapping) : c.type = "artifact"
    BY <1>1, OrderedMembers
  <2>3. WellMade(p) /\ p.type = "review" /\ Prior(p) = {}
    BY <1>1, <2>1, <2>2, PreparationRoot
  <2>4. PersistNew(s, p)
    BY <1>2, <2>1
  <2> QED
    BY <2>3, <2>4, EvaluationPersist DEF Announced
<1>3. ASSUME NEW p \in existing, Linear(existing),
             ToSet(p.body.mapping) = DOMAIN q.outputs,
             p = BlindPreparation(q.id, p.body.mapping, p.body.packet.commitment[1], q.outputs),
             Called(s, [Request("append", <<>>, {}, Event(p)) EXCEPT !.result = {p}])
      PROVE  EvaluationsInv'
  <2>1. \A c \in ToSet(p.body.mapping) : c.type = "artifact"
    BY <1>1, <1>3
  <2>2. WellMade(p) /\ p.type = "review" /\ Prior(p) = {}
    BY <1>1, <1>3, <2>1, PreparationRoot
  <2>3. PICK b : b = Request("append", <<>>, {}, Event(p))
    OBVIOUS
  <2>4. PICK c : c = [b EXCEPT !.result = {p}]
    OBVIOUS
  <2>5. call' = [call EXCEPT ![s] = c] /\ UNCHANGED <<records, events, acknowledged>>
    BY <1>3, <2>3, <2>4 DEF Called
  <2>6. /\ DOMAIN b = Fields /\ b.pc = "append" /\ b.todo = <<>> /\ b.proposed = {}
        /\ b.settle = {} /\ b.event = Event(p)
    BY <2>3, RequestFields
  <2>7. /\ DOMAIN c = Fields /\ c.pc = "append" /\ c.todo = <<>> /\ c.proposed = {}
        /\ c.settle = {} /\ c.event = Event(p) /\ c.result = {p}
    BY <2>4, <2>6 DEF Fields
  <2>8. p \in records
    BY DEF Reviews
  <2>9. Makes(c, p)
    BY <2>2, <2>7, <2>8 DEF Makes, Past, Announced
  <2>10. Kept(c)
    BY <2>7, <2>9 DEF Kept, Past
  <2>11. Unrivalled(p)
    BY <2>2 DEF Unrivalled
  <2> QED
    BY <2>2, <2>5, <2>7, <2>8, <2>10, <2>11, EvaluationTaken
<1> QED
  BY <1>2, <1>3 DEF PrepareBlindReview

\* Sealing a review keeps its lineage and what it was prepared with.
LEMMA SealCall ==
    ASSUME EvaluationsInv, NEW s \in Service, NEW p \in Packets, NEW judgments,
           SealBlindReview(s, p, judgments)
    PROVE  EvaluationsInv'
<1>1. PICK r : r = [p EXCEPT !.refs = {p}, !.body.stage = "blind_sealed",
                             !.body.mapping = <<>>, !.body.judgments = judgments]
  OBVIOUS
<1>2. PersistRevision(s, p, r)
  BY <1>1 DEF SealBlindReview
<1>3. p.type = "review" /\ WellMade(p)
  BY DEF Packets, EvaluationsInv
<1>4. /\ DOMAIN p = {"type", "id", "refs", "body"} /\ p.id \in LineageIds
      /\ "stage" \in DOMAIN p.body
  BY <1>3 DEF WellMade
<1>5. PICK b : b = [p.body EXCEPT !.stage = "blind_sealed", !.mapping = <<>>,
                                  !.judgments = judgments]
  OBVIOUS
<1>6. b.stage = "blind_sealed" /\ "stage" \in DOMAIN b
  BY <1>4, <1>5
<1>7. /\ DOMAIN r = {"type", "id", "refs", "body"} /\ r.type = p.type /\ r.id = p.id
      /\ r.refs = {p} /\ r.body = b
  BY <1>1, <1>4, <1>5
<1>8. Prior(r) = {p}
  BY <1>3, <1>7 DEF Prior, RefsTo
<1>9. WellMade(r)
  BY <1>3, <1>4, <1>6, <1>7, <1>8 DEF WellMade
<1> QED
  BY <1>2, <1>3, <1>7, <1>9, EvaluationRevise DEF Revision

\* Revealing a review refers to the sealed one and to the candidates.
LEMMA RevealCall ==
    ASSUME EvaluationsInv, NEW s \in Service, NEW p \in Packets, NEW sealed \in Reviews,
           RevealBlindReview(s, p, sealed)
    PROVE  EvaluationsInv'
<1>1. PICK r : r = [sealed EXCEPT !.refs = ToSet(p.body.mapping) \cup {sealed},
                         !.body.stage = "blind_revealed", !.body.mapping = p.body.mapping]
  OBVIOUS
<1>2. PersistRevision(s, sealed, r)
  BY <1>1 DEF RevealBlindReview
<1>3. /\ p.type = "review" /\ WellMade(p) /\ p.body.stage = "blind_prepared"
      /\ sealed.type = "review" /\ WellMade(sealed)
  BY DEF Packets, Reviews, EvaluationsInv
<1>4. /\ DOMAIN sealed = {"type", "id", "refs", "body"} /\ sealed.id \in LineageIds
      /\ "stage" \in DOMAIN sealed.body
      /\ \A c \in ToSet(p.body.mapping) : c.type = "artifact"
  BY <1>3 DEF WellMade
<1>5. PICK b : b = [sealed.body EXCEPT !.stage = "blind_revealed",
                                       !.mapping = p.body.mapping]
  OBVIOUS
<1>6. b.stage = "blind_revealed" /\ "stage" \in DOMAIN b
  BY <1>4, <1>5
<1>7. /\ DOMAIN r = {"type", "id", "refs", "body"} /\ r.type = sealed.type
      /\ r.id = sealed.id /\ r.refs = ToSet(p.body.mapping) \cup {sealed} /\ r.body = b
  BY <1>1, <1>4, <1>5
<1>8. Prior(r) \subseteq {sealed}
  BY <1>3, <1>4, <1>7 DEF Prior, RefsTo
<1>9. WellMade(r)
  BY <1>3, <1>4, <1>6, <1>7, <1>8 DEF WellMade
<1> QED
  BY <1>2, <1>3, <1>7, <1>9, EvaluationRevise DEF Revision

\* A solo review is the root of its lineage.
LEMMA SoloCall ==
    ASSUME EvaluationsInv, NEW s \in Service, NEW r \in SoloRequest, RecordSoloReview(s, r)
    PROVE  EvaluationsInv'
<1>1. PersistNew(s, r) /\ r.type = "review" /\ r.body.mode = "solo" /\ ValidReview(r)
  BY RequestAssumption DEF RecordSoloReview
<1>2. r.body.stage = "recorded" /\ Prior(r) = {}
  BY <1>1 DEF ValidReview
<1>3. r.id \in LineageIds
  BY DEF LineageIds
<1>4. WellMade(r)
  BY <1>1, <1>2, <1>3, RequestAssumption DEF WellMade
<1> QED
  BY <1>1, <1>2, <1>4, EvaluationPersist DEF Announced

\* A result that counts is of suites nobody has opened.
LEMMA ResultCall ==
    ASSUME EvaluationsInv, NEW s \in Service, NEW result,
           result.type = "evaluation_result", RecordResult(s, result)
    PROVE  EvaluationsInv'
<1>1. ASSUME NEW suite \in RefsTo(result, "evaluation_suite"),
             suite.body.kind = "confirmation", result.body.evidence # "contaminated"
      PROVE  SealedOnce(suite)
  <2>1. SuiteAdmits(result, suite)
    BY DEF RecordResult
  <2>2. /\ suite \in records /\ suite.type = "evaluation_suite"
        /\ suite.body.state \notin {"unsealed", "modified", "contaminated", "retired"}
    BY <1>1, <2>1 DEF SuiteAdmits, EvidenceAdmits, Current, RefsTo
  <2>3. WellMade(suite)
    BY <2>2 DEF EvaluationsInv
  <2>4. suite.body.state = "sealed"
    BY <2>2, <2>3 DEF WellMade
  <2> QED
    BY <2>2, <2>3, <2>4 DEF WellMade
<1>2. WellMade(result)
  BY <1>1 DEF WellMade, Unseen, CountsOn
<1> QED
  BY <1>2, EvaluationPersist DEF RecordResult, Revision, Announced

\* Policies, recommendations and decisions are of no lineage.
LEMMA PlainCall ==
    ASSUME EvaluationsInv, NEW s \in Service, NEW r, PersistNew(s, r),
           r.type \in {"recommendation_policy", "recommendation", "user_decision"}
    PROVE  EvaluationsInv'
<1>1. WellMade(r)
  BY DEF WellMade
<1> QED
  BY <1>1, EvaluationPersist DEF Revision, Announced

\* Every call on policies, recommendations and decisions keeps the invariant.
LEMMA ChoiceCall ==
    ASSUME EvaluationsInv, NEW s \in Service, ChoiceCalls(s) PROVE EvaluationsInv'
<1>1. ASSUME NEW policy \in PolicyRequest, RegisterPolicy(s, policy) PROVE EvaluationsInv'
  BY <1>1, RequestAssumption, PlainCall DEF RegisterPolicy
<1>2. ASSUME NEW id, NEW policy, NEW results, Recommend(s, id, policy, results)
      PROVE  EvaluationsInv'
  <2>1. PICK made : /\ made = [type |-> "recommendation", id |-> id,
                            refs |-> {policy} \cup results \cup {CandidateOf(r) : r \in results},
                            body |-> Recommended(policy.body, results)]
                    /\ PersistNew(s, made)
    BY <1>2 DEF Recommend
  <2>2. made.type = "recommendation"
    BY <2>1
  <2> QED
    BY <2>1, <2>2, PlainCall
<1>3. ASSUME NEW q, NEW recommendation, NEW assessment,
             RecordDecision(s, q, recommendation, assessment)
      PROVE  EvaluationsInv'
  <2>1. PICK made : /\ made = [type |-> "user_decision", id |-> q.id,
                            refs |-> {recommendation, assessment.candidate},
                            body |-> [status |-> q.status, evidence |-> assessment.evidence]]
                    /\ PersistNew(s, made)
    BY <1>3 DEF RecordDecision
  <2>2. made.type = "user_decision"
    BY <2>1
  <2> QED
    BY <2>1, <2>2, PlainCall
<1> QED
  BY <1>1, <1>2, <1>3 DEF ChoiceCalls

\* Reviews, solo and blind.
LEMMA ReviewCall ==
    ASSUME EvaluationsInv, NEW s \in Service, ReviewCalls(s) PROVE EvaluationsInv'
  BY PrepareCall, SoloCall, SealCall, RevealCall DEF ReviewCalls

\* Results with the evidence they name.
LEMMA ResultsCall ==
    ASSUME EvaluationsInv, NEW s \in Service, ResultCalls(s) PROVE EvaluationsInv'
<1>1. PICK q, suites, reviews, baselines :
          RecordResult(s, ResultOf(q, suites, reviews, baselines))
  BY DEF ResultCalls
<1>2. PICK result : result = ResultOf(q, suites, reviews, baselines)
  OBVIOUS
<1>3. result.type = "evaluation_result"
  BY <1>2 DEF ResultOf
<1> QED
  BY <1>1, <1>2, <1>3, ResultCall

\* The sequence of no elements is the empty one.
LEMMA NothingInOrder == SetToSeq({}) = <<>>
<1>1. Cardinality({}) = 0 /\ 1 .. 0 = {}
  BY FS_EmptySet
<1> DEFINE F == [1 .. Cardinality({}) -> {}]
<1>2. <<>> \in F /\ IsInjective(<<>>)
  BY <1>1 DEF IsInjective
<1>3. SetToSeq({}) \in F
  <2> HIDE DEF F
  <2>1. (CHOOSE f \in F : IsInjective(f)) \in F
    BY <1>2
  <2> QED
    BY <2>1 DEF SetToSeq, F
<1>4. SetToSeq({}) \in [1 .. 0 -> {}]
  BY <1>1, <1>3
<1> QED
  BY <1>1, <1>4

\* What the service finds was made by it, and no decision is among it.
LEMMA EvaluationsInitInv == EvaluationsInit => EvaluationsInv
<1> SUFFICES ASSUME EvaluationsInit PROVE EvaluationsInv
  OBVIOUS
<1>1. /\ records \in Stores /\ acknowledged = records
      /\ call = [s \in Service |-> Idle] /\ DOMAIN events = Stream
  BY DEF EvaluationsInit
<1>2. \A r \in records : WellMade(r) /\ r.type # "user_decision"
  BY <1>1, StoresAssumption
<1>3. \A s \in Service : Kept(call[s]) /\ call[s].pc \notin Past
  BY <1>1, IdleFields DEF Kept, Past
<1>4. Settled = records
  BY <1>1, <1>3 DEF Settled
<1>5. Single
  <2> SUFFICES ASSUME NEW a \in records, NEW b \in records, Prior(a) # {},
                      Prior(a) = Prior(b)
               PROVE  a = b
    BY <1>4 DEF Single
  <2>1. a.type = b.type
    BY DEF Prior, RefsTo
  <2> QED
    BY <1>1, <2>1, StoresAssumption
<1> DEFINE told == {Event(r) : r \in {x \in records : x.type \in Announced}}
<1>6. {e \in told : e.stream = "user-decisions"} = {}
  <2>1. ASSUME NEW r \in records, r.type \in Announced
        PROVE  Event(r).stream # "user-decisions"
    BY <1>2, <2>1, EventStreams
  <2> QED
    BY <2>1
<1>7. events["user-decisions"] = SetToSeq({e \in told : e.stream = "user-decisions"})
  BY NamesAssumption DEF EvaluationsInit
<1>8. events["user-decisions"] = <<>>
  <2> HIDE DEF told
  <2> QED
    BY <1>6, <1>7, NothingInOrder
<1>9. History
  BY <1>1, <1>2, <1>8, NoMembers DEF History
<1> QED
  BY <1>1, <1>2, <1>3, <1>5, <1>9 DEF EvaluationsInv

\* Every step of the service keeps the invariant.
LEMMA EvaluationsNextInv == EvaluationsInv /\ [EvaluationsNext]_storeVars => EvaluationsInv'
<1> SUFFICES ASSUME EvaluationsInv, [EvaluationsNext]_storeVars PROVE EvaluationsInv'
  OBVIOUS
<1>1. ASSUME NEW s \in Service,
             \/ \E suite \in SuiteRequest : RegisterSuite(s, suite)
             \/ ReviseSuites(s) \/ ReviewCalls(s) \/ ResultCalls(s) \/ ChoiceCalls(s)
             \/ Settle(s) \/ StoreStep(s)
      PROVE  EvaluationsInv'
  BY <1>1, SuiteCalls, ReviewCall, ResultsCall, ChoiceCall, EvaluationSettled,
     EvaluationStoreStep
<1>2. CASE UNCHANGED storeVars
  <2>1. /\ records' = records /\ events' = events /\ call' = call
        /\ acknowledged' = acknowledged
    BY <1>2 DEF storeVars
  <2>2. Settled' = Settled
    BY <2>1 DEF Settled
  <2>3. Single' /\ History'
    BY <2>1, <2>2, HistoryOn DEF EvaluationsInv, Single, Prior, RefsTo, Revision
  <2>4. ASSUME NEW s \in Service PROVE Kept(call[s])'
    <3>1. PICK c : c = call[s]
      OBVIOUS
    <3>2. Kept(c)
      BY <3>1 DEF EvaluationsInv
    <3>3. Kept(c)'
      BY <2>1, <3>2, KeptOn
    <3> QED
      BY <2>1, <3>1, <3>3 DEF Kept, Makes
  <2> QED
    BY <2>1, <2>3, <2>4 DEF EvaluationsInv
<1> QED
  BY <1>1, <1>2 DEF EvaluationsNext

\* The invariant of the service holds always.
THEOREM EvaluationsInductive == EvaluationsSpec => []EvaluationsInv
  BY EvaluationsInitInv, EvaluationsNextInv, PTL DEF EvaluationsSpec

\* Of two revisions that overlapping calls made of the same one, at most one is
\* ever acknowledged.
THEOREM OneSettled == EvaluationsSpec => []OneSuccessor
<1>1. EvaluationsInv => OneSuccessor
  BY DEF EvaluationsInv, Single, Settled, OneSuccessor, Revision, Suites, Reviews
<1> QED
  BY <1>1, EvaluationsInductive, PTL

\* No revision of which a successor was acknowledged.
NoneKnown(suite) == \A known \in acknowledged : Prior(known) # {suite}

\* A step of one process, which may begin a call there.
LEMMA Begins ==
    ASSUME EvaluationsInv, NEW s \in Service, NEW c, call' = [call EXCEPT ![s] = c],
           At(s, "idle") => \A r \in Recording(c) : \A suite \in CountsOn(r) : NoneKnown(suite)
    PROVE  BeginsUnseen
<1> SUFFICES ASSUME NEW o \in Service, At(o, "idle"), call'[o].pc # "idle",
                    NEW r \in Recording(call'[o]), NEW suite \in CountsOn(r)
             PROVE  NoneKnown(suite)
  BY DEF BeginsUnseen, NoneKnown
<1>1. call'[s] = c /\ (o # s => call'[o] = call[o])
  BY DEF EvaluationsInv
<1>2. o = s
  BY <1>1 DEF At
<1> QED
  BY <1>1, <1>2

\* A call that makes a record, of which only a result may count.
LEMMA BeginsNew ==
    ASSUME EvaluationsInv, NEW s \in Service, NEW r, PersistNew(s, r),
           r.type = "evaluation_result" => \A suite \in CountsOn(r) : NoneKnown(suite)
    PROVE  BeginsUnseen
<1>1. PICK c : c = Request("check", <<r>>, {r}, Event(r))
  OBVIOUS
<1>2. call' = [call EXCEPT ![s] = c] /\ c.todo = <<r>>
  BY <1>1, RequestFields DEF PersistNew, Called
<1>3. \A x \in Recording(c) : x = r /\ r.type = "evaluation_result"
  BY <1>2, OneMember DEF Recording
<1> QED
  BY <1>2, <1>3, Begins

\* A call that makes a revision records no result.
LEMMA BeginsRevision ==
    ASSUME EvaluationsInv, NEW s \in Service, NEW old, NEW r, PersistRevision(s, old, r),
           r.type # "evaluation_result"
    PROVE  BeginsUnseen
<1>1. PICK b : b = Request("write", <<r>>, {}, Event(r))
  OBVIOUS
<1>2. DOMAIN b = Fields /\ b.todo = <<r>>
  BY <1>1, RequestFields
<1>3. PICK pc : call' = [call EXCEPT ![s] = [b EXCEPT !.pc = pc, !.settle = {r}]]
  BY <1>1 DEF PersistRevision, Called
<1>4. PICK c : c = [b EXCEPT !.pc = pc, !.settle = {r}]
  OBVIOUS
<1>5. c.todo = <<r>>
  BY <1>2, <1>4 DEF Fields
<1>6. Recording(c) = {}
  BY <1>5, OneMember DEF Recording
<1> QED
  BY <1>3, <1>4, <1>6, Begins

\* Every call on suites revises one or registers it.
LEMMA BeginsSuite ==
    ASSUME EvaluationsInv, NEW s \in Service,
           (\E suite \in SuiteRequest : RegisterSuite(s, suite)) \/ ReviseSuites(s)
    PROVE  BeginsUnseen
<1>1. ASSUME NEW suite \in SuiteRequest, RegisterSuite(s, suite) PROVE BeginsUnseen
  BY <1>1, RequestAssumption, BeginsNew DEF RegisterSuite
<1>2. ASSUME NEW suite \in Suites, NEW state, NEW cases, ReviseSuite(s, suite, state, cases)
      PROVE  BeginsUnseen
  <2>1. PICK r : r = [suite EXCEPT !.refs = {suite}, !.body.state = state, !.body.cases = cases]
    OBVIOUS
  <2>2. PersistRevision(s, suite, r)
    BY <1>2, <2>1 DEF ReviseSuite
  <2>3. suite.type = "evaluation_suite" /\ WellMade(suite)
    BY DEF Suites, EvaluationsInv
  <2>4. DOMAIN suite = {"type", "id", "refs", "body"}
    BY <2>3 DEF WellMade
  <2>5. r.type = suite.type
    BY <2>1, <2>4
  <2> QED
    BY <2>2, <2>3, <2>5, BeginsRevision
<1>3. ASSUME NEW suite \in Suites, AlreadyMarked(s, suite) PROVE BeginsUnseen
  BY <1>3 DEF AlreadyMarked, BeginsUnseen, At
<1>4. ASSUME NEW suite \in Suites,
              \/ SealSuite(s, suite) \/ InspectConfirmationSuite(s, suite)
              \/ MarkSuiteContaminated(s, suite) \/ RetireSuite(s, suite)
              \/ AlreadyMarked(s, suite)
              \/ \E cases \in Cases : ModifySuite(s, suite, cases)
      PROVE  BeginsUnseen
  <2>1. CASE SealSuite(s, suite)
    BY <1>2, <2>1 DEF SealSuite
  <2>2. CASE InspectConfirmationSuite(s, suite)
    BY <1>2, <2>2 DEF InspectConfirmationSuite
  <2>3. CASE MarkSuiteContaminated(s, suite)
    BY <1>2, <2>3 DEF MarkSuiteContaminated
  <2>4. CASE RetireSuite(s, suite)
    BY <1>2, <2>4 DEF RetireSuite
  <2>5. ASSUME NEW cases \in Cases, ModifySuite(s, suite, cases) PROVE BeginsUnseen
    BY <1>2, <2>5 DEF ModifySuite
  <2> QED
    BY <1>3, <1>4, <2>1, <2>2, <2>3, <2>4, <2>5
<1> QED
  BY <1>1, <1>4 DEF ReviseSuites

\* Reviews are no results.
LEMMA BeginsReview ==
    ASSUME EvaluationsInv, NEW s \in Service, ReviewCalls(s) PROVE BeginsUnseen
<1>1. ASSUME NEW q \in ReviewRequest, PrepareBlindReview(s, q) PROVE BeginsUnseen
  <2>1. ASSUME NEW mapping, PersistNew(s, BlindPreparation(q.id, mapping, calls, q.outputs))
        PROVE  BeginsUnseen
    <3>1. PICK p : p = BlindPreparation(q.id, mapping, calls, q.outputs)
      OBVIOUS
    <3>2. p.type = "review"
      BY <3>1 DEF BlindPreparation
    <3> QED
      BY <2>1, <3>1, <3>2, BeginsNew
  <2>2. ASSUME NEW p, Called(s, [Request("append", <<>>, {}, Event(p)) EXCEPT !.result = {p}])
        PROVE  BeginsUnseen
    <3>1. PICK b : b = Request("append", <<>>, {}, Event(p))
      OBVIOUS
    <3>2. DOMAIN b = Fields /\ b.todo = <<>>
      BY <3>1, RequestFields
    <3>3. PICK c : c = [b EXCEPT !.result = {p}]
      OBVIOUS
    <3>4. c.todo = <<>>
      BY <3>2, <3>3 DEF Fields
    <3>5. Recording(c) = {} /\ call' = [call EXCEPT ![s] = c]
      BY <2>2, <3>1, <3>3, <3>4, NoMembers DEF Recording, Called
    <3> QED
      BY <3>5, Begins
  <2> QED
    BY <1>1, <2>1, <2>2 DEF PrepareBlindReview
<1>2. ASSUME NEW r \in SoloRequest, RecordSoloReview(s, r) PROVE BeginsUnseen
  BY <1>2, RequestAssumption, BeginsNew DEF RecordSoloReview
<1>3. ASSUME NEW p \in Packets, NEW j \in Judgments, SealBlindReview(s, p, j)
      PROVE  BeginsUnseen
  <2>1. PICK r : r = [p EXCEPT !.refs = {p}, !.body.stage = "blind_sealed",
                               !.body.mapping = <<>>, !.body.judgments = j]
    OBVIOUS
  <2>2. PersistRevision(s, p, r)
    BY <1>3, <2>1 DEF SealBlindReview
  <2>3. p.type = "review" /\ WellMade(p)
    BY DEF Packets, EvaluationsInv
  <2>4. DOMAIN p = {"type", "id", "refs", "body"}
    BY <2>3 DEF WellMade
  <2>5. r.type = p.type
    BY <2>1, <2>4
  <2> QED
    BY <2>2, <2>3, <2>5, BeginsRevision
<1>4. ASSUME NEW p \in Packets, NEW sealed \in Reviews, RevealBlindReview(s, p, sealed)
      PROVE  BeginsUnseen
  <2>1. PICK r : r = [sealed EXCEPT !.refs = ToSet(p.body.mapping) \cup {sealed},
                           !.body.stage = "blind_revealed", !.body.mapping = p.body.mapping]
    OBVIOUS
  <2>2. PersistRevision(s, sealed, r)
    BY <1>4, <2>1 DEF RevealBlindReview
  <2>3. sealed.type = "review" /\ WellMade(sealed)
    BY DEF Reviews, EvaluationsInv
  <2>4. DOMAIN sealed = {"type", "id", "refs", "body"}
    BY <2>3 DEF WellMade
  <2>5. r.type = sealed.type
    BY <2>1, <2>4
  <2> QED
    BY <2>2, <2>3, <2>5, BeginsRevision
<1> QED
  BY <1>1, <1>2, <1>3, <1>4 DEF ReviewCalls

\* A successor that is acknowledged is in the store, where the call looks for it.
LEMMA BeginsResult ==
    ASSUME EvaluationsInv, NEW s \in Service, ResultCalls(s) PROVE BeginsUnseen
<1>1. PICK q, suites, reviews, baselines :
          RecordResult(s, ResultOf(q, suites, reviews, baselines))
  BY DEF ResultCalls
<1>2. PICK result : result = ResultOf(q, suites, reviews, baselines)
  OBVIOUS
<1>3. RecordResult(s, result)
  BY <1>1, <1>2
<1>4. ASSUME NEW suite \in CountsOn(result), NEW known \in acknowledged,
             Prior(known) = {suite}
      PROVE  FALSE
  <2>1. suite.type = "evaluation_suite" /\ SuiteAdmits(result, suite)
    BY <1>3 DEF CountsOn, RefsTo, RecordResult
  <2>2. known \in records /\ WellMade(known)
    BY DEF EvaluationsInv
  <2>3. known.type = suite.type
    BY <1>4 DEF Prior, RefsTo
  <2>4. suite.id = known.id
    BY <1>4, <2>1, <2>2, <2>3 DEF WellMade
  <2>5. known \in Lineage(suite)
    BY <2>2, <2>3, <2>4 DEF Lineage
  <2> QED
    BY <1>4, <2>1, <2>5 DEF SuiteAdmits, Current, Superseded
<1> QED
  BY <1>3, <1>4, BeginsNew DEF RecordResult, NoneKnown

\* Policies, recommendations and decisions are no results.
LEMMA BeginsChoice ==
    ASSUME EvaluationsInv, NEW s \in Service, ChoiceCalls(s) PROVE BeginsUnseen
<1>1. ASSUME NEW policy \in PolicyRequest, RegisterPolicy(s, policy) PROVE BeginsUnseen
  BY <1>1, RequestAssumption, BeginsNew DEF RegisterPolicy
<1>2. ASSUME NEW id, NEW policy, NEW results, Recommend(s, id, policy, results)
      PROVE  BeginsUnseen
  <2>1. PICK made : /\ made = [type |-> "recommendation", id |-> id,
                            refs |-> {policy} \cup results \cup {CandidateOf(r) : r \in results},
                            body |-> Recommended(policy.body, results)]
                    /\ PersistNew(s, made)
    BY <1>2 DEF Recommend
  <2>2. made.type = "recommendation"
    BY <2>1
  <2> QED
    BY <2>1, <2>2, BeginsNew
<1>3. ASSUME NEW q, NEW recommendation, NEW assessment,
             RecordDecision(s, q, recommendation, assessment)
      PROVE  BeginsUnseen
  <2>1. PICK made : /\ made = [type |-> "user_decision", id |-> q.id,
                            refs |-> {recommendation, assessment.candidate},
                            body |-> [status |-> q.status, evidence |-> assessment.evidence]]
                    /\ PersistNew(s, made)
    BY <1>3 DEF RecordDecision
  <2>2. made.type = "user_decision"
    BY <2>1
  <2> QED
    BY <2>1, <2>2, BeginsNew
<1> QED
  BY <1>1, <1>2, <1>3 DEF ChoiceCalls

\* A call that is on its way begins nothing.
LEMMA BeginsNothing ==
    ASSUME EvaluationsInv, NEW s \in Service, Settle(s) \/ StoreStep(s)
    PROVE  BeginsUnseen
<1>1. ~At(s, "idle")
  BY DEF Settle, StoreStep, CheckRevisions, WriteRecord, AppendEvent, StartVerify,
         Acknowledge, ScanRefused, Crash, At
<1>2. \E c : call' = [call EXCEPT ![s] = c]
  BY Zenon DEF Settle, StoreStep, CheckRevisions, WriteRecord, AppendEvent, StartVerify,
         Acknowledge, ScanRefused, Crash, Ends, Moves
<1> QED
  BY <1>1, <1>2, Begins

\* Confirmation evidence that counts is of a suite whose cases nobody had opened
\* or changed before it was sealed, and no call begins to record it once a
\* successor of the revision was acknowledged (app_services/evaluations.py:606).
THEOREM SealedStaysUnseen == EvaluationsSpec => SealedUnseen
<1>1. EvaluationsInv => \A r \in Results : Unseen(r)
  BY DEF EvaluationsInv, Results, WellMade
<1>2. EvaluationsInv /\ [EvaluationsNext]_storeVars => [BeginsUnseen]_storeVars
  <2> SUFFICES ASSUME EvaluationsInv, EvaluationsNext PROVE BeginsUnseen
    OBVIOUS
  <2> QED
    BY BeginsSuite, BeginsReview, BeginsResult, BeginsChoice, BeginsNothing
       DEF EvaluationsNext
<1> QED
  BY <1>1, <1>2, EvaluationsInductive, PTL DEF EvaluationsSpec, SealedUnseen

\* Once every decision is acknowledged, the history tells of each of them once.
THEOREM HistoryStaysReadable == EvaluationsSpec => []DecisionsReadable
<1>1. ASSUME EvaluationsInv, Decisions \subseteq acknowledged PROVE HistoryReadable
  <2> DEFINE stream == events["user-decisions"]
  <2>1. \A d \in Decisions : d.type = "user_decision" /\ WellMade(d)
    BY <1>1 DEF EvaluationsInv, Decisions
  <2>2. \A d \in Decisions : Event(d).id = d
    BY <2>1, EventStreams DEF Outcome
  <2>3. \A e \in ToSet(stream) : \E d \in Decisions : e = Event(d)
    BY <1>1 DEF EvaluationsInv, History
  <2>4. \A d \in Decisions : Event(d) \in ToSet(stream)
    BY <1>1, <2>1 DEF EvaluationsInv, History
  <2>5. {e.id : e \in ToSet(stream)} = Decisions
    BY <2>2, <2>3, <2>4
  <2> QED
    BY <1>1, <2>5 DEF EvaluationsInv, History, HistoryReadable
<1>2. EvaluationsInv => DecisionsReadable
  BY <1>1 DEF DecisionsReadable
<1> QED
  BY <1>2, EvaluationsInductive, PTL

-----------------------------------------------------------------------------
(* Third part.  A fold of the library is a recursive function on the sets  *)
(* of positions: what it computes is shown position by position (Steps),   *)
(* not by the induction over a predicate that the provers cannot use.      *)

\* A set of numbers that has 0, and with each the next, has them all.
LEMMA Steps ==
    ASSUME NEW S, 0 \in S, \A n \in Nat : n \in S => n + 1 \in S
    PROVE  \A n \in Nat : n \in S
<1> DEFINE T == Nat \ S
<1>1. SUFFICES ASSUME T # {} PROVE FALSE
  OBVIOUS
<1>2. PICK n \in T : \A m \in T : ~(<<m, n>> \in OpToRel(<, Nat))
  BY <1>1, WFMin, NatLessThanWellFounded
<1>3. n \in Nat /\ n # 0 /\ n - 1 \in Nat /\ n - 1 < n /\ (n - 1) + 1 = n
  OBVIOUS
<1>4. n - 1 \in T
  BY <1>3
<1>5. <<n - 1, n>> \in OpToRel(<, Nat)
  BY <1>3 DEF OpToRel
<1> QED
  BY <1>2, <1>4, <1>5

\* The numbers up to n are n.
LEMMA UpTo == \A n \in Nat : IsFiniteSet(1 .. n) /\ Cardinality(1 .. n) = n
<1>1. ASSUME NEW n \in Nat PROVE IsFiniteSet(1 .. n) /\ Cardinality(1 .. n) = n
  <2>1. 1 \in Int /\ n \in Int
    OBVIOUS
  <2>2. /\ IsFiniteSet(1 .. n)
        /\ Cardinality(1 .. n) = IF 1 > n THEN 0 ELSE n - 1 + 1
    BY <2>1, FS_Interval
  <2> QED
    BY <2>2
<1> QED
  BY <1>1

\* g has the sums of f over the parts of its domain.
Sums(f, g) ==
    /\ g[DOMAIN f] = SumFunction(f)
    /\ g[{}] = 0
    /\ \A s \in SUBSET DOMAIN f : s # {} => \E x \in s : g[s] = f[x] + g[s \ {x}]

\* A sum is taken value by value, whatever the order.
LEMMA SumSteps == ASSUME NEW f, IsFiniteSet(DOMAIN f) PROVE \E g : Sums(f, g)
<1> DEFINE D == DOMAIN f
           Pick(s) == CHOOSE x \in s : TRUE
           Sum(g, s) == IF s = {} THEN 0 ELSE f[Pick(s)] + g[s \ {Pick(s)}]
           S == {m \in Nat : \E g : \A s \in SUBSET D : Cardinality(s) <= m => g[s] = Sum(g, s)}
<1>1. \A s \in SUBSET D : IsFiniteSet(s) /\ Cardinality(s) \in Nat /\ (Cardinality(s) = 0 => s = {})
  BY FS_Subset, FS_CardinalityType, FS_EmptySet
<1>2. \A s \in SUBSET D : s # {} =>
         /\ Pick(s) \in s /\ s \ {Pick(s)} \in SUBSET D
         /\ Cardinality(s \ {Pick(s)}) = Cardinality(s) - 1
  BY <1>1, FS_RemoveElement
<1>3. 0 \in S
  <2>1. \A s \in SUBSET D : Cardinality(s) <= 0 => s = {}
    BY <1>1
  <2>2. \A s \in SUBSET D : Cardinality(s) <= 0 => [t \in SUBSET D |-> 0][s] = Sum([t \in SUBSET D |-> 0], s)
    BY <2>1
  <2> QED
    BY <2>2
<1>4. ASSUME NEW m \in Nat, m \in S PROVE m + 1 \in S
  <2>1. PICK g : \A s \in SUBSET D : Cardinality(s) <= m => g[s] = Sum(g, s)
    BY <1>4
  <2> DEFINE h == [s \in SUBSET D |-> IF Cardinality(s) <= m THEN g[s] ELSE Sum(g, s)]
  <2>2. ASSUME NEW s \in SUBSET D, Cardinality(s) <= m + 1 PROVE h[s] = Sum(h, s)
    <3>1. h[s] = Sum(g, s)
      BY <2>1
    <3>2. s # {} => h[s \ {Pick(s)}] = g[s \ {Pick(s)}]
      <4> SUFFICES ASSUME s # {} PROVE h[s \ {Pick(s)}] = g[s \ {Pick(s)}]
        OBVIOUS
      <4>1. s \ {Pick(s)} \in SUBSET D /\ Cardinality(s \ {Pick(s)}) <= m
        BY <1>1, <1>2, <2>2
      <4> HIDE DEF Pick, Sum
      <4> QED
        BY <4>1
    <3> HIDE DEF h
    <3> QED
      BY <3>1, <3>2
  <2> HIDE DEF h, Sum
  <2>3. m + 1 \in Nat
    OBVIOUS
  <2> QED
    BY <2>2, <2>3
<1> HIDE DEF S
<1>5. Cardinality(D) \in S
  BY <1>1, <1>3, <1>4, Steps
<1>6. PICK g : \A s \in SUBSET D : Cardinality(s) <= Cardinality(D) => g[s] = Sum(g, s)
  BY <1>5 DEF S
<1> DEFINE h == [s \in SUBSET D |-> g[s]]
           IsIter(i) == i = [s \in SUBSET D |-> IF s = {} THEN 0 ELSE f[Pick(s)] + i[s \ {Pick(s)}]]
<1>7. \A s \in SUBSET D : Cardinality(s) <= Cardinality(D)
  BY FS_Subset
<1>8. IsIter(h)
  <2>1. \A s \in SUBSET D : h[s] = Sum(h, s)
    BY <1>2, <1>6, <1>7
  <2>2. h = [s \in SUBSET D |-> h[s]]
    OBVIOUS
  <2> HIDE DEF h, Pick
  <2> QED
    BY <2>1, <2>2
<1> DEFINE i == CHOOSE j : IsIter(j)
<1>9. IsIter(i)
  BY <1>8
<1>10. SumFunction(f) = i[D]
  BY DEF SumFunction, SumFunctionOnSet, FoldFunctionOnSet, MapThenFoldSet
<1> HIDE DEF i
<1>11. \A s \in SUBSET D : i[s] = IF s = {} THEN 0 ELSE f[Pick(s)] + i[s \ {Pick(s)}]
  BY <1>9
<1>12. \A s \in SUBSET D : s # {} => \E x \in s : i[s] = f[x] + i[s \ {x}]
  BY <1>2, <1>11
<1>13. i[{}] = 0
  BY <1>11
<1> QED
  BY <1>10, <1>12, <1>13 DEF Sums

\* A sum of numbers is one, and none of them is above it.
LEMMA SumBounds ==
    ASSUME NEW f, IsFiniteSet(DOMAIN f), \A x \in DOMAIN f : f[x] \in Nat
    PROVE  SumFunction(f) \in Nat /\ \A x \in DOMAIN f : f[x] <= SumFunction(f)
<1> DEFINE D == DOMAIN f
<1>0. PICK g : Sums(f, g)
  BY SumSteps
<1>1. /\ g[D] = SumFunction(f) /\ g[{}] = 0
      /\ \A s \in SUBSET D : s # {} => \E x \in s : g[s] = f[x] + g[s \ {x}]
  BY <1>0 DEF Sums
<1> DEFINE Bounded(s) == g[s] \in Nat /\ \A x \in s : f[x] <= g[s]
           S == {m \in Nat : \A s \in SUBSET D : Cardinality(s) = m => Bounded(s)}
<1>2. \A s \in SUBSET D : IsFiniteSet(s) /\ Cardinality(s) \in Nat /\ (Cardinality(s) = 0 => s = {})
  BY FS_Subset, FS_CardinalityType, FS_EmptySet
<1>3. 0 \in S
  BY <1>1, <1>2
<1>4. ASSUME NEW m \in Nat, m \in S PROVE m + 1 \in S
  <2>1. ASSUME NEW s \in SUBSET D, Cardinality(s) = m + 1 PROVE Bounded(s)
    <3>1. s # {}
      BY <2>1, FS_EmptySet
    <3>2. PICK x \in s : g[s] = f[x] + g[s \ {x}]
      BY <1>1, <3>1
    <3>3. Cardinality(s \ {x}) = Cardinality(s) - 1
      BY <1>2, FS_RemoveElement
    <3>4. Bounded(s \ {x})
      <4>1. s \ {x} \in SUBSET D /\ Cardinality(s \ {x}) = m
        BY <2>1, <3>3
      <4> QED
        BY <1>4, <4>1
    <3>5. f[x] \in Nat
      OBVIOUS
    <3>6. ASSUME NEW y \in s PROVE f[y] <= g[s]
      <4>1. f[y] \in Nat
        OBVIOUS
      <4> QED
        BY <3>2, <3>4, <3>5, <4>1
    <3> QED
      BY <3>2, <3>4, <3>5, <3>6
  <2> QED
    BY <2>1
<1> HIDE DEF S
<1>5. Cardinality(D) \in S
  BY <1>2, <1>3, <1>4, Steps
<1> QED
  BY <1>1, <1>5 DEF S

\* What is shared out over cells is there as often as the cells count it.
LEMMA SumOfCells ==
    ASSUME NEW f, IsFiniteSet(DOMAIN f), NEW T, IsFiniteSet(T), NEW at \in [T -> DOMAIN f],
           \A x \in DOMAIN f : f[x] = Cardinality({t \in T : at[t] = x})
    PROVE  SumFunction(f) = Cardinality(T)
<1> DEFINE D == DOMAIN f
           Share(s) == {t \in T : at[t] \in s}
<1>0. PICK g : Sums(f, g)
  BY SumSteps
<1>1. /\ g[D] = SumFunction(f) /\ g[{}] = 0
      /\ \A s \in SUBSET D : s # {} => \E x \in s : g[s] = f[x] + g[s \ {x}]
  BY <1>0 DEF Sums
<1> DEFINE S == {m \in Nat : \A s \in SUBSET D : Cardinality(s) = m => g[s] = Cardinality(Share(s))}
<1>2. \A s \in SUBSET D : IsFiniteSet(s) /\ Cardinality(s) \in Nat /\ (Cardinality(s) = 0 => s = {})
  BY FS_Subset, FS_CardinalityType, FS_EmptySet
<1>3. 0 \in S
  <2>1. Share({}) = {}
    OBVIOUS
  <2> HIDE DEF Share
  <2> QED
    BY <1>1, <1>2, <2>1, FS_EmptySet
<1>4. ASSUME NEW m \in Nat, m \in S PROVE m + 1 \in S
  <2>1. ASSUME NEW s \in SUBSET D, Cardinality(s) = m + 1 PROVE g[s] = Cardinality(Share(s))
    <3>1. s # {}
      BY <2>1, FS_EmptySet
    <3>2. PICK x \in s : g[s] = f[x] + g[s \ {x}]
      BY <1>1, <3>1
    <3>3. Cardinality(s \ {x}) = Cardinality(s) - 1
      BY <1>2, FS_RemoveElement
    <3>4. g[s \ {x}] = Cardinality(Share(s \ {x}))
      <4>1. s \ {x} \in SUBSET D /\ Cardinality(s \ {x}) = m
        BY <2>1, <3>3
      <4> QED
        BY <1>4, <4>1
    <3> DEFINE A == {t \in T : at[t] = x}
               B == Share(s \ {x})
    <3>5. Share(s) = A \cup B /\ A \cap B = {}
      OBVIOUS
    <3>6. IsFiniteSet(A) /\ IsFiniteSet(B)
      BY FS_Subset
    <3>7. f[x] = Cardinality(A)
      OBVIOUS
    <3> HIDE DEF A, B, Share
    <3>8. Cardinality(A \cup B) = Cardinality(A) + Cardinality(B) - Cardinality(A \cap B)
      BY <3>6, FS_Union
    <3>9. Cardinality(A \cap B) = 0 /\ Cardinality(A) \in Nat /\ Cardinality(B) \in Nat
      BY <3>5, <3>6, FS_EmptySet, FS_CardinalityType
    <3>10. g[s \ {x}] = Cardinality(B)
      BY <3>4 DEF B
    <3> QED
      BY <3>2, <3>5, <3>7, <3>8, <3>9, <3>10
  <2> HIDE DEF Share
  <2>2. m + 1 \in Nat
    OBVIOUS
  <2> QED
    BY <2>1, <2>2
<1> HIDE DEF S
<1>5. Cardinality(D) \in S
  BY <1>2, <1>3, <1>4, Steps
<1>6. Share(D) = T
  OBVIOUS
<1> HIDE DEF Share
<1>7. g[D] = Cardinality(Share(D))
  BY <1>5 DEF S
<1> QED
  BY <1>1, <1>6, <1>7

\* A set of positions has a first one and a last one.
LEMMA Smallest ==
    ASSUME NEW t \in SUBSET Nat, t # {}
    PROVE  Min(t) \in t /\ \A y \in t : Min(t) <= y
<1>1. PICK k \in t : \A j \in t : ~(<<j, k>> \in OpToRel(<, Nat))
  BY WFMin, NatLessThanWellFounded
<1>2. ASSUME NEW y \in t PROVE k <= y
  <2>1. SUFFICES ASSUME y < k PROVE FALSE
    OBVIOUS
  <2>2. <<y, k>> \in OpToRel(<, Nat)
    BY <2>1 DEF OpToRel
  <2> QED
    BY <1>1, <2>2
<1> QED
  BY <1>2 DEF Min

\* The greatest of some numbers up to n is one of them.
LEMMA Latest ==
    ASSUME NEW n \in Nat, NEW t \in SUBSET (1 .. n), t # {}
    PROVE  Max(t) \in t /\ \A y \in t : Max(t) >= y
<1> DEFINE B == {k \in Nat : \A y \in t : y <= k}
<1>1. n \in B
  OBVIOUS
<1> DEFINE k == Min(B)
<1>2. k \in B /\ \A j \in B : k <= j
  BY <1>1, Smallest
<1> HIDE DEF k
<1>3. k \in t
  <2> SUFFICES ASSUME k \notin t PROVE FALSE
    OBVIOUS
  <2>1. k \in Nat /\ \A y \in t : y \in Nat /\ y >= 1 /\ y <= k /\ y # k
    BY <1>2
  <2>2. k >= 1
    <3>1. PICK y : y \in t
      OBVIOUS
    <3> QED
      BY <2>1, <3>1
  <2>3. k - 1 \in Nat /\ \A y \in t : y <= k - 1
    BY <2>1, <2>2
  <2>4. k - 1 \in B
    BY <2>3
  <2>5. k <= k - 1
    BY <1>2, <2>4
  <2> QED
    BY <2>1, <2>5
<1>4. \A y \in t : k >= y /\ k \in Nat /\ y \in Nat
  BY <1>2
<1> QED
  BY <1>3, <1>4 DEF Max

\* The positions up to n, taken from the last one.
LEMMA LastOne ==
    ASSUME NEW n \in Nat
    PROVE  /\ Max(1 .. n + 1) = n + 1 /\ (1 .. n + 1) \ {n + 1} = 1 .. n
           /\ \A t \in SUBSET (1 .. n + 1) :
                  IF n + 1 \in t THEN Max(t) = n + 1 ELSE t \in SUBSET (1 .. n)
           /\ \A m \in Nat : n + 1 <= m => 1 .. n + 1 # {} /\ 1 .. n + 1 \in SUBSET (1 .. m)
<1>1. ASSUME NEW t \in SUBSET (1 .. n + 1), n + 1 \in t PROVE Max(t) = n + 1
  <2>1. n + 1 \in Nat /\ \A y \in t : y \in Nat /\ y <= n + 1
    OBVIOUS
  <2> DEFINE k == Max(t)
  <2>2. k \in t /\ k >= n + 1
    BY <1>1, <2>1, Latest
  <2> HIDE DEF k
  <2>3. k = n + 1
    BY <2>1, <2>2
  <2> QED
    BY <2>3 DEF k
<1>2. n + 1 \in 1 .. n + 1 /\ (1 .. n + 1) \ {n + 1} = 1 .. n
  OBVIOUS
<1>3. ASSUME NEW t \in SUBSET (1 .. n + 1), n + 1 \notin t PROVE t \in SUBSET (1 .. n)
  BY <1>2, <1>3
<1>4. ASSUME NEW m \in Nat, n + 1 <= m PROVE 1 .. n + 1 # {} /\ 1 .. n + 1 \in SUBSET (1 .. m)
  <2>1. \A y \in 1 .. n + 1 : y \in 1 .. m
    BY <1>4
  <2> QED
    BY <1>2, <2>1
<1>5. Max(1 .. n + 1) = n + 1
  BY <1>1, <1>2
<1> QED
  BY <1>1, <1>2, <1>3, <1>4, <1>5

-----------------------------------------------------------------------------
(* The rows of a source and what is made of them.  Both are folds, that is *)
(* functions on the sets of positions which take the last one off.         *)

WithRow(rows, item) == IF item = "blank" THEN rows ELSE Append(rows, item)

RowsUpTo(items, n, g) ==
    g = [t \in SUBSET (1 .. n) |->
            IF t = {} THEN <<>> ELSE WithRow(g[t \ {Max(t)}], items[Max(t)])]

\* The rows of a source are its items but the blank ones.
LEMMA RowsType ==
    ASSUME NEW S, NEW source, source.items \in Seq(S)
    PROVE  Rows(source) \in Seq(S \ {"blank"})
<1> DEFINE items == source.items
           N == Len(items)
           E == {n \in Nat : \E g : RowsUpTo(items, n, g)}
<1>1. N \in Nat /\ DOMAIN items = 1 .. N /\ \A i \in 1 .. N : items[i] \in S
  BY LenProperties
<1> HIDE DEF items, N
<1>2. 0 \in E
  <2>1. \A t \in SUBSET (1 .. 0) : t = {}
    OBVIOUS
  <2>2. RowsUpTo(items, 0, [t \in SUBSET (1 .. 0) |-> <<>>])
    BY <2>1 DEF RowsUpTo
  <2> QED
    BY <2>2
<1>3. ASSUME NEW n \in Nat, n \in E PROVE n + 1 \in E
  <2>1. PICK g : RowsUpTo(items, n, g)
    BY <1>3
  <2> DEFINE h == [t \in SUBSET (1 .. n + 1) |->
                      IF n + 1 \in t THEN WithRow(g[t \ {n + 1}], items[n + 1]) ELSE g[t]]
  <2>2. ASSUME NEW t \in SUBSET (1 .. n + 1)
        PROVE  h[t] = IF t = {} THEN <<>> ELSE WithRow(h[t \ {Max(t)}], items[Max(t)])
    <3>1. CASE n + 1 \in t
      <4>1. Max(t) = n + 1 /\ t # {}
        BY <3>1, LastOne
      <4>2. h[t \ {n + 1}] = g[t \ {n + 1}]
        OBVIOUS
      <4>3. h[t] = WithRow(g[t \ {n + 1}], items[n + 1])
        BY <3>1
      <4> HIDE DEF h
      <4> QED
        BY <4>1, <4>2, <4>3
    <3>2. CASE n + 1 \notin t
      <4>1. t \in SUBSET (1 .. n) /\ t \ {Max(t)} \in SUBSET (1 .. n)
        BY <3>2, LastOne
      <4>2. h[t] = g[t] /\ h[t \ {Max(t)}] = g[t \ {Max(t)}]
        BY <3>2
      <4>3. g[t] = IF t = {} THEN <<>> ELSE WithRow(g[t \ {Max(t)}], items[Max(t)])
        BY <2>1, <4>1 DEF RowsUpTo
      <4> HIDE DEF h
      <4> QED
        BY <4>2, <4>3
    <3> QED
      BY <3>1, <3>2
  <2>3. h = [t \in SUBSET (1 .. n + 1) |-> h[t]]
    OBVIOUS
  <2> HIDE DEF h
  <2>4. RowsUpTo(items, n + 1, h)
    BY <2>2, <2>3 DEF RowsUpTo
  <2> QED
    BY <2>4
<1> HIDE DEF E
<1>4. N \in E
  BY <1>1, <1>2, <1>3, Steps
<1> DEFINE g == CHOOSE j : RowsUpTo(items, N, j)
<1>5. RowsUpTo(items, N, g)
  BY <1>4 DEF E
<1>6. Rows(source) = g[1 .. N]
  BY <1>1 DEF Rows, FoldLeft, MapThenFoldSet, RowsUpTo, WithRow, items
<1> HIDE DEF g
<1> DEFINE F == {n \in Nat : n <= N => g[1 .. n] \in Seq(S \ {"blank"})}
<1>7. 0 \in F
  <2>1. 1 .. 0 = {} /\ {} \in SUBSET (1 .. N)
    OBVIOUS
  <2>2. g[1 .. 0] = <<>>
    BY <1>5, <2>1 DEF RowsUpTo
  <2>3. <<>> \in Seq(S \ {"blank"})
    OBVIOUS
  <2> QED
    BY <2>2, <2>3
<1>8. ASSUME NEW n \in Nat, n \in F PROVE n + 1 \in F
  <2>1. SUFFICES ASSUME n + 1 <= N PROVE g[1 .. n + 1] \in Seq(S \ {"blank"})
    OBVIOUS
  <2>2. g[1 .. n] \in Seq(S \ {"blank"}) /\ n + 1 \in 1 .. N
    BY <1>1, <1>8, <2>1
  <2>3. /\ 1 .. n + 1 \in SUBSET (1 .. N) /\ 1 .. n + 1 # {}
        /\ Max(1 .. n + 1) = n + 1 /\ (1 .. n + 1) \ {n + 1} = 1 .. n
    BY <1>1, <2>1, LastOne
  <2>4. g[1 .. n + 1] = WithRow(g[1 .. n], items[n + 1])
    BY <1>5, <2>3 DEF RowsUpTo
  <2>5. items[n + 1] \in S
    BY <1>1, <2>2
  <2> QED
    BY <2>2, <2>4, <2>5, AppendProperties DEF WithRow
<1> HIDE DEF F
<1>9. N \in F
  BY <1>1, <1>7, <1>8, Steps
<1> QED
  BY <1>1, <1>6, <1>9 DEF F

\* What the rows of a request may become.
Example(request) ==
    [source_ordinal : Nat, text : Text,
     tokens : {request.tokenizer.first[t] : t \in Text}]

Reasons == Unmapped \cup {"below_minimum_characters", "above_maximum_characters",
                          "above_maximum_tokens", "duplicate_rendered_text"}

Exclusion ==
    [source_ordinal : Nat, phase : {"validation", "filtering", "deduplication"},
     reason_code : Reasons, retained : Nat]

Preparing(request) ==
    [failed : BOOLEAN, accepted : Seq(Example(request)), exclusions : Seq(Exclusion)]

\* A receipt of a duplicate names the earlier row that was accepted.
Retaining(done, x) ==
    x.retained # 0 =>
        /\ x.phase = "deduplication"
        /\ x.retained < x.source_ordinal
        /\ x.retained \in Ordinals(done.accepted)

\* Each of the first n rows has its example or its receipt, in their order.
Disposal(done, n) ==
    /\ Len(done.accepted) + Len(done.exclusions) = n
    /\ Ordinals(done.accepted) \cup Ordinals(done.exclusions) = 1 .. n
    /\ InSourceOrder(done.accepted) /\ InSourceOrder(done.exclusions)
    /\ \A i, j \in DOMAIN done.accepted :
           done.accepted[i].text = done.accepted[j].text => i = j
    /\ \A i \in DOMAIN done.exclusions : Retaining(done, done.exclusions[i])

\* Tokens are those the tokenizer counted twice.
CountsAre(request, done) ==
    \A i \in DOMAIN done.accepted :
        LET e == done.accepted[i] IN
        e.tokens = request.tokenizer.first[e.text] /\ Counted(request.tokenizer, e.text)

\* What holds after n rows: a failure keeps no promise but that of the tokens.
GoodSoFar(request, done, n) ==
    /\ done \in Preparing(request)
    /\ ~done.failed => Disposal(done, n)
    /\ CountsAre(request, done)

\* The end of a sequence that was appended to.
LEMMA AppendLast ==
    ASSUME NEW S, NEW q \in Seq(S), NEW x \in S
    PROVE  LET p == Append(q, x)
               n == Len(q)
           IN  /\ p \in Seq(S) /\ n \in Nat /\ Len(p) = n + 1
               /\ DOMAIN q = 1 .. n /\ DOMAIN p = 1 .. n + 1
               /\ p[n + 1] = x
               /\ \A i \in 1 .. n : p[i] = q[i] /\ i \in Nat /\ i < n + 1 /\ q[i] \in S
               /\ \A i \in 1 .. n + 1 : i \in 1 .. n \/ i = n + 1
               /\ \A i \in 1 .. n : i \in 1 .. n + 1
  BY AppendProperties, LenProperties

\* A row after all the others keeps the order and is one more ordinal.
LEMMA OrderedAppend ==
    ASSUME NEW S, NEW q \in Seq(S), NEW x \in S, NEW n \in Nat,
           \A y \in S : y.source_ordinal \in Nat,
           InSourceOrder(q), Ordinals(q) \subseteq 1 .. n, x.source_ordinal = n + 1
    PROVE  /\ InSourceOrder(Append(q, x))
           /\ Ordinals(Append(q, x)) = Ordinals(q) \cup {n + 1}
<1> DEFINE p == Append(q, x)
           l == Len(q)
<1>1. /\ p \in Seq(S) /\ l \in Nat /\ Len(p) = l + 1
      /\ DOMAIN q = 1 .. l /\ DOMAIN p = 1 .. l + 1 /\ p[l + 1] = x
      /\ \A i \in 1 .. l : p[i] = q[i] /\ i \in Nat /\ i < l + 1 /\ q[i] \in S
      /\ \A i \in 1 .. l + 1 : i \in 1 .. l \/ i = l + 1
      /\ \A i \in 1 .. l : i \in 1 .. l + 1
  BY AppendLast
<1> HIDE DEF p, l
<1>2. \A i \in 1 .. l : q[i].source_ordinal \in 1 .. n
  BY <1>1 DEF Ordinals
<1>3. ASSUME NEW i \in 1 .. l + 1, NEW j \in 1 .. l + 1, i < j
      PROVE  p[i].source_ordinal <= p[j].source_ordinal
  <2>1. i \in 1 .. l
    BY <1>1, <1>3
  <2>2. CASE j \in 1 .. l
    BY <1>1, <1>3, <2>1, <2>2 DEF InSourceOrder
  <2>3. CASE j = l + 1
    <3>1. p[i].source_ordinal = q[i].source_ordinal /\ p[j].source_ordinal = n + 1
      BY <1>1, <2>1, <2>3
    <3>2. q[i].source_ordinal \in 1 .. n
      BY <1>2, <2>1
    <3> QED
      BY <3>1, <3>2
  <2> QED
    BY <1>1, <2>2, <2>3
<1>4. InSourceOrder(p)
  BY <1>1, <1>3 DEF InSourceOrder
<1>5. Ordinals(p) = Ordinals(q) \cup {n + 1}
  <2>1. \A i \in 1 .. l : p[i].source_ordinal = q[i].source_ordinal /\ i \in 1 .. l + 1
    BY <1>1
  <2>2. p[l + 1].source_ordinal = n + 1 /\ l + 1 \in 1 .. l + 1
    BY <1>1
  <2>3. \A i \in 1 .. l + 1 : i \in 1 .. l \/ i = l + 1
    BY <1>1
  <2> QED
    BY <1>1, <2>1, <2>2, <2>3 DEF Ordinals
<1> QED
  BY <1>4, <1>5 DEF p

\* A row more is one with its receipt ...
LEMMA ExcludedRow ==
    ASSUME NEW request, NEW n \in Nat, NEW done, GoodSoFar(request, done, n), ~done.failed,
           NEW x \in Exclusion, x.source_ordinal = n + 1, Retaining(done, x)
    PROVE  GoodSoFar(request, Excluded(done, x), n + 1)
<1> DEFINE new == Excluded(done, x)
<1>1. done \in Preparing(request) /\ Disposal(done, n) /\ CountsAre(request, done)
  BY DEF GoodSoFar
<1>2. /\ done.exclusions \in Seq(Exclusion) /\ done.accepted \in Seq(Example(request))
      /\ new \in Preparing(request) /\ new.exclusions = Append(done.exclusions, x)
      /\ new.accepted = done.accepted /\ new.failed = done.failed
  BY <1>1, AppendProperties DEF Preparing, Excluded
<1> HIDE DEF new
<1>3. CountsAre(request, new)
  BY <1>1, <1>2 DEF CountsAre
<1>4. Disposal(new, n + 1)
  <2>1. \A y \in Exclusion : y.source_ordinal \in Nat
    BY DEF Exclusion
  <2>2. Ordinals(done.exclusions) \subseteq 1 .. n /\ InSourceOrder(done.exclusions)
    BY <1>1 DEF Disposal
  <2>3. /\ InSourceOrder(new.exclusions)
        /\ Ordinals(new.exclusions) = Ordinals(done.exclusions) \cup {n + 1}
    BY <1>2, <2>1, <2>2, OrderedAppend
  <2>4. Ordinals(new.accepted) \cup Ordinals(new.exclusions) = 1 .. n + 1
    <3>1. (1 .. n) \cup {n + 1} = 1 .. n + 1
      OBVIOUS
    <3> QED
      BY <1>1, <1>2, <2>3, <3>1 DEF Disposal
  <2>5. Len(new.accepted) + Len(new.exclusions) = n + 1
    <3> DEFINE a == Len(done.accepted)
               b == Len(done.exclusions)
    <3>1. a \in Nat /\ b \in Nat /\ Len(new.exclusions) = b + 1 /\ Len(new.accepted) = a
      BY <1>2, AppendProperties, LenProperties
    <3>2. a + b = n
      BY <1>1 DEF Disposal
    <3> HIDE DEF a, b
    <3>3. Len(new.accepted) + Len(new.exclusions) = a + (b + 1)
      BY <3>1
    <3> QED
      BY <3>1, <3>2, <3>3
  <2>6. ASSUME NEW i \in DOMAIN new.exclusions PROVE Retaining(new, new.exclusions[i])
    <3> DEFINE l == Len(done.exclusions)
    <3>1. /\ DOMAIN done.exclusions = 1 .. l /\ (i \in 1 .. l \/ i = l + 1)
          /\ new.exclusions[l + 1] = x /\ \A j \in 1 .. l : new.exclusions[j] = done.exclusions[j]
      BY <1>2, AppendLast
    <3>2. CASE i = l + 1
      BY <1>2, <3>1, <3>2 DEF Retaining
    <3>3. CASE i \in 1 .. l
      <4>1. Retaining(done, done.exclusions[i])
        BY <1>1, <3>1, <3>3 DEF Disposal
      <4> QED
        BY <1>2, <3>1, <3>3, <4>1 DEF Retaining
    <3> QED
      BY <3>1, <3>2, <3>3
  <2>7. \A i, j \in DOMAIN new.accepted : new.accepted[i].text = new.accepted[j].text => i = j
    BY <1>1, <1>2 DEF Disposal
  <2>8. InSourceOrder(new.accepted)
    BY <1>1, <1>2 DEF Disposal
  <2> QED
    BY <2>3, <2>4, <2>5, <2>6, <2>7, <2>8 DEF Disposal
<1>5. GoodSoFar(request, new, n + 1)
  BY <1>2, <1>3, <1>4 DEF GoodSoFar
<1> QED
  BY <1>5 DEF new

\* ... or with its example, if no earlier one has its text.
LEMMA AcceptedRow ==
    ASSUME NEW request, NEW n \in Nat, NEW done, GoodSoFar(request, done, n), ~done.failed,
           NEW x \in Example(request), x.source_ordinal = n + 1,
           x.tokens = request.tokenizer.first[x.text], Counted(request.tokenizer, x.text),
           Retained(done, x.text) = {}
    PROVE  GoodSoFar(request, [done EXCEPT !.accepted = Append(@, x)], n + 1)
<1> DEFINE new == [done EXCEPT !.accepted = Append(@, x)]
           l == Len(done.accepted)
<1>1. done \in Preparing(request) /\ Disposal(done, n) /\ CountsAre(request, done)
  BY DEF GoodSoFar
<1>2. /\ done.exclusions \in Seq(Exclusion) /\ done.accepted \in Seq(Example(request))
      /\ new \in Preparing(request) /\ new.accepted = Append(done.accepted, x)
      /\ new.exclusions = done.exclusions /\ new.failed = done.failed
  BY <1>1, AppendProperties DEF Preparing
<1>3. /\ l \in Nat /\ DOMAIN done.accepted = 1 .. l /\ DOMAIN new.accepted = 1 .. l + 1
      /\ Len(new.accepted) = l + 1 /\ new.accepted[l + 1] = x
      /\ \A i \in 1 .. l : new.accepted[i] = done.accepted[i]
      /\ \A i \in 1 .. l + 1 : i \in 1 .. l \/ i = l + 1
  BY <1>2, AppendLast
<1> HIDE DEF new, l
<1>4. CountsAre(request, new)
  BY <1>1, <1>3 DEF CountsAre
<1>5. Disposal(new, n + 1)
  <2>1. \A y \in Example(request) : y.source_ordinal \in Nat
    BY DEF Example
  <2>2. Ordinals(done.accepted) \subseteq 1 .. n /\ InSourceOrder(done.accepted)
    BY <1>1 DEF Disposal
  <2>3. /\ InSourceOrder(new.accepted)
        /\ Ordinals(new.accepted) = Ordinals(done.accepted) \cup {n + 1}
    BY <1>2, <2>1, <2>2, OrderedAppend
  <2>4. Ordinals(new.accepted) \cup Ordinals(new.exclusions) = 1 .. n + 1
    <3>1. (1 .. n) \cup {n + 1} = 1 .. n + 1
      OBVIOUS
    <3> QED
      BY <1>1, <1>2, <2>3, <3>1 DEF Disposal
  <2>5. Len(new.accepted) + Len(new.exclusions) = n + 1
    <3> DEFINE b == Len(done.exclusions)
    <3>1. b \in Nat /\ Len(new.exclusions) = b
      BY <1>2, LenProperties
    <3>2. l + b = n
      BY <1>1 DEF Disposal, l
    <3> HIDE DEF b
    <3>3. Len(new.accepted) + Len(new.exclusions) = (l + 1) + b
      BY <1>3, <3>1
    <3> QED
      BY <1>3, <3>1, <3>2, <3>3
  <2>6. \A i \in DOMAIN new.exclusions : Retaining(new, new.exclusions[i])
    BY <1>1, <1>2, <2>3 DEF Disposal, Retaining
  <2>7. ASSUME NEW i \in 1 .. l + 1, NEW j \in 1 .. l + 1,
               new.accepted[i].text = new.accepted[j].text
        PROVE  i = j
    <3>1. ASSUME NEW k \in 1 .. l PROVE new.accepted[k].text # x.text
      <4>1. SUFFICES ASSUME done.accepted[k].text = x.text PROVE FALSE
        BY <1>3
      <4>2. done.accepted[k].source_ordinal \in Retained(done, x.text)
        BY <1>3, <4>1 DEF Retained
      <4> QED
        BY <4>2
    <3>2. CASE i \in 1 .. l /\ j \in 1 .. l
      <4>1. /\ i \in DOMAIN done.accepted /\ new.accepted[i] = done.accepted[i]
            /\ j \in DOMAIN done.accepted /\ new.accepted[j] = done.accepted[j]
        BY <1>3, <3>2
      <4>2. done.accepted[i].text = done.accepted[j].text
        BY <2>7, <4>1
      <4> QED
        BY <1>1, <4>1, <4>2 DEF Disposal
    <3> QED
      BY <1>3, <2>7, <3>1, <3>2
  <2>8. InSourceOrder(new.exclusions)
    BY <1>1, <1>2 DEF Disposal
  <2> QED
    BY <1>3, <2>3, <2>4, <2>5, <2>6, <2>7, <2>8 DEF Disposal
<1>6. GoodSoFar(request, new, n + 1)
  BY <1>2, <1>4, <1>5 DEF GoodSoFar
<1> QED
  BY <1>6 DEF new

\* What one turn makes of a row, whatever the row and the request.
LEMMA Turned ==
    ASSUME NEW request, NEW rows \in Seq(Text \cup Unmapped),
           NEW n \in Nat, n + 1 \in DOMAIN rows,
           NEW done, GoodSoFar(request, done, n)
    PROVE  GoodSoFar(request, Disposed(request, rows, done, n + 1), n + 1)
<1> DEFINE row == rows[n + 1]
           new == Disposed(request, rows, done, n + 1)
           With(phase, reason) == Excluded(done, Receipt(n + 1, phase, reason, 0))
<1>1. row \in Text \cup Unmapped /\ done \in Preparing(request) /\ CountsAre(request, done)
  BY ElementOfSeq, LenProperties DEF GoodSoFar
<1>2. ASSUME NEW phase \in {"validation", "filtering"}, NEW reason \in Reasons, ~done.failed
      PROVE  GoodSoFar(request, With(phase, reason), n + 1)
  <2> DEFINE x == Receipt(n + 1, phase, reason, 0)
  <2>1. x \in Exclusion /\ x.source_ordinal = n + 1 /\ Retaining(done, x)
    BY DEF Receipt, Exclusion, Retaining
  <2> HIDE DEF x
  <2>2. GoodSoFar(request, Excluded(done, x), n + 1)
    BY <1>2, <2>1, ExcludedRow
  <2> QED
    BY <2>2 DEF x
<1>3. CASE done.failed
  BY <1>1, <1>3 DEF Disposed, GoodSoFar
<1>4. CASE ~done.failed /\ row \in Unmapped
  <2>1. new = With("validation", row)
    BY <1>4 DEF Disposed
  <2>2. row \in Reasons
    BY <1>4 DEF Reasons
  <2> HIDE DEF row, new
  <2> QED
    BY <1>2, <1>4, <2>1, <2>2 DEF new
<1>5. ASSUME ~done.failed, row \notin Unmapped,
             NEW reason \in Reasons, new = With("filtering", reason)
      PROVE  GoodSoFar(request, new, n + 1)
  <2> HIDE DEF new, row
  <2> QED
    BY <1>2, <1>5
<1>6. {"below_minimum_characters", "above_maximum_characters",
       "above_maximum_tokens"} \subseteq Reasons
  BY DEF Reasons
<1>7. ASSUME ~done.failed, row \notin Unmapped,
             new = [done EXCEPT !.failed = TRUE]
      PROVE  GoodSoFar(request, new, n + 1)
  <2>1. /\ new \in Preparing(request) /\ new.failed
        /\ new.accepted = done.accepted
    BY <1>1, <1>7 DEF Preparing
  <2> HIDE DEF new
  <2> QED
    BY <1>1, <2>1 DEF GoodSoFar, CountsAre
<1>8. ASSUME ~done.failed, row \in Text, Retained(done, row) # {},
             new = Excluded(done, Receipt(n + 1, "deduplication",
                      "duplicate_rendered_text", Min(Retained(done, row))))
      PROVE  GoodSoFar(request, new, n + 1)
  <2> DEFINE m == Min(Retained(done, row))
             x == Receipt(n + 1, "deduplication", "duplicate_rendered_text", m)
  <2>1. Retained(done, row) \subseteq Ordinals(done.accepted)
    BY DEF Retained, Ordinals
  <2>2. Ordinals(done.accepted) \subseteq 1 .. n
    BY <1>8 DEF GoodSoFar, Disposal
  <2>3. m \in Retained(done, row)
    BY <1>8, <2>1, <2>2, Smallest
  <2> HIDE DEF m
  <2>4. x \in Exclusion /\ x.source_ordinal = n + 1 /\ Retaining(done, x)
    BY <2>1, <2>2, <2>3 DEF Receipt, Exclusion, Retaining, Reasons
  <2>5. new = Excluded(done, x)
    BY <1>8 DEF m
  <2> HIDE DEF x, new
  <2> QED
    BY <1>8, <2>4, <2>5, ExcludedRow
<1>9. ASSUME ~done.failed, row \in Text, Retained(done, row) = {},
             Counted(request.tokenizer, row),
             new = [done EXCEPT !.accepted = Append(@, [source_ordinal |-> n + 1,
                      text |-> row, tokens |-> request.tokenizer.first[row]])]
      PROVE  GoodSoFar(request, new, n + 1)
  <2> DEFINE x == [source_ordinal |-> n + 1, text |-> row,
                   tokens |-> request.tokenizer.first[row]]
  <2>1. /\ x \in Example(request) /\ x.source_ordinal = n + 1 /\ x.text = row
        /\ x.tokens = request.tokenizer.first[row]
    BY <1>9 DEF Example
  <2>2. new = [done EXCEPT !.accepted = Append(@, x)]
    BY <1>9
  <2> HIDE DEF x, new, row
  <2>3. /\ Counted(request.tokenizer, x.text) /\ Retained(done, x.text) = {}
        /\ x.tokens = request.tokenizer.first[x.text]
    BY <1>9, <2>1
  <2>4. GoodSoFar(request, [done EXCEPT !.accepted = Append(@, x)], n + 1)
    BY <1>9, <2>1, <2>3, AcceptedRow
  <2> QED
    BY <2>2, <2>4
<1>10. CASE ~done.failed /\ row \notin Unmapped
  <2>1. row \in Text
    BY <1>1, <1>10
  <2>2. CASE TooShort(row, request.filter)
    BY <1>5, <1>6, <1>10, <2>2 DEF Disposed
  <2>3. CASE ~TooShort(row, request.filter) /\ TooLong(row, request.filter)
    BY <1>5, <1>6, <1>10, <2>3 DEF Disposed
  <2>4. CASE ~TooShort(row, request.filter) /\ ~TooLong(row, request.filter)
    <3>1. CASE ~Counted(request.tokenizer, row)
      BY <1>7, <1>10, <2>4, <3>1 DEF Disposed
    <3>2. CASE Counted(request.tokenizer, row) /\ TooManyTokens(row, request)
      BY <1>5, <1>6, <1>10, <2>4, <3>2 DEF Disposed
    <3>3. CASE Counted(request.tokenizer, row) /\ ~TooManyTokens(row, request)
      <4>1. CASE Retained(done, row) # {}
        BY <1>8, <1>10, <2>1, <2>4, <3>3, <4>1 DEF Disposed
      <4>2. CASE Retained(done, row) = {}
        BY <1>9, <1>10, <2>1, <2>4, <3>3, <4>2 DEF Disposed
      <4> QED
        BY <4>1, <4>2
    <3> QED
      BY <3>1, <3>2, <3>3
  <2> QED
    BY <2>2, <2>3, <2>4
<1> QED
  BY <1>3, <1>4, <1>10

\* Before the first row, and after each.
NothingDone == [failed |-> FALSE, accepted |-> <<>>, exclusions |-> <<>>]

DoneUpTo(request, rows, n, g) ==
    g = [t \in SUBSET (1 .. n) |->
            IF t = {} THEN NothingDone ELSE Disposed(request, rows, g[t \ {Max(t)}], Max(t))]

\* Prepared() disposes of every row.
LEMMA PreparedIsGood ==
    ASSUME NEW request, NEW rows \in Seq(Text \cup Unmapped)
    PROVE  GoodSoFar(request, Prepared(request, rows), Len(rows))
<1> DEFINE N == Len(rows)
           E == {n \in Nat : \E g : DoneUpTo(request, rows, n, g)}
<1>1. N \in Nat /\ DOMAIN rows = 1 .. N
  BY LenProperties
<1> HIDE DEF N
<1>2. 0 \in E
  <2>1. \A t \in SUBSET (1 .. 0) : t = {}
    OBVIOUS
  <2>2. DoneUpTo(request, rows, 0, [t \in SUBSET (1 .. 0) |-> NothingDone])
    BY <2>1 DEF DoneUpTo
  <2> QED
    BY <2>2
<1>3. ASSUME NEW n \in Nat, n \in E PROVE n + 1 \in E
  <2>1. PICK g : DoneUpTo(request, rows, n, g)
    BY <1>3
  <2> DEFINE h == [t \in SUBSET (1 .. n + 1) |->
                      IF n + 1 \in t THEN Disposed(request, rows, g[t \ {n + 1}], n + 1)
                      ELSE g[t]]
  <2>2. ASSUME NEW t \in SUBSET (1 .. n + 1)
        PROVE  h[t] = IF t = {} THEN NothingDone
                      ELSE Disposed(request, rows, h[t \ {Max(t)}], Max(t))
    <3>1. CASE n + 1 \in t
      <4>1. Max(t) = n + 1 /\ t # {}
        BY <3>1, LastOne
      <4>2. h[t \ {n + 1}] = g[t \ {n + 1}]
        OBVIOUS
      <4>3. h[t] = Disposed(request, rows, g[t \ {n + 1}], n + 1)
        BY <3>1
      <4> HIDE DEF h
      <4> QED
        BY <4>1, <4>2, <4>3
    <3>2. CASE n + 1 \notin t
      <4>1. t \in SUBSET (1 .. n) /\ t \ {Max(t)} \in SUBSET (1 .. n)
        BY <3>2, LastOne
      <4>2. h[t] = g[t] /\ h[t \ {Max(t)}] = g[t \ {Max(t)}]
        BY <3>2
      <4>3. g[t] = IF t = {} THEN NothingDone
                   ELSE Disposed(request, rows, g[t \ {Max(t)}], Max(t))
        BY <2>1, <4>1 DEF DoneUpTo
      <4> HIDE DEF h
      <4> QED
        BY <4>2, <4>3
    <3> QED
      BY <3>1, <3>2
  <2>3. h = [t \in SUBSET (1 .. n + 1) |-> h[t]]
    OBVIOUS
  <2> HIDE DEF h
  <2>4. DoneUpTo(request, rows, n + 1, h)
    BY <2>2, <2>3 DEF DoneUpTo
  <2> QED
    BY <2>4
<1> HIDE DEF E
<1>4. N \in E
  BY <1>1, <1>2, <1>3, Steps
<1> DEFINE Literal(j) ==
               j = [t \in SUBSET DOMAIN [i \in DOMAIN rows |-> i] |->
                       IF t = {} THEN NothingDone
                       ELSE Disposed(request, rows, j[t \ {Max(t)}],
                                     [i \in DOMAIN rows |-> i][Max(t)])]
           g == CHOOSE j : Literal(j)
<1>5. DOMAIN [i \in DOMAIN rows |-> i] = 1 .. N
  BY <1>1
<1>6. \A t \in SUBSET (1 .. N) : t # {} => [i \in DOMAIN rows |-> i][Max(t)] = Max(t)
  BY <1>1, Latest
<1>7. \A j : Literal(j) <=> DoneUpTo(request, rows, N, j)
  <2> SUFFICES ASSUME NEW j PROVE Literal(j) <=> DoneUpTo(request, rows, N, j)
    OBVIOUS
  <2> DEFINE a == [t \in SUBSET (1 .. N) |->
                       IF t = {} THEN NothingDone
                       ELSE Disposed(request, rows, j[t \ {Max(t)}],
                                     [i \in DOMAIN rows |-> i][Max(t)])]
             b == [t \in SUBSET (1 .. N) |->
                       IF t = {} THEN NothingDone
                       ELSE Disposed(request, rows, j[t \ {Max(t)}], Max(t))]
  <2>1. \A t \in SUBSET (1 .. N) : a[t] = b[t]
    BY <1>6
  <2>2. a = b
    BY <2>1
  <2>3. Literal(j) <=> j = a
    BY <1>5
  <2> QED
    BY <2>2, <2>3 DEF DoneUpTo
<1>8. DoneUpTo(request, rows, N, g)
  <2>1. \E j : Literal(j)
    BY <1>4, <1>7 DEF E
  <2>2. Literal(g)
    BY <2>1
  <2> HIDE DEF g, Literal
  <2> QED
    BY <1>7, <2>2
<1>9. Prepared(request, rows) = g[1 .. N]
  <2>1. Prepared(request, rows) = g[DOMAIN [i \in DOMAIN rows |-> i]]
    BY DEF Prepared, FoldLeftDomain, FoldLeft, MapThenFoldSet, NothingDone
  <2> HIDE DEF g
  <2> QED
    BY <1>5, <2>1
<1> HIDE DEF g, Literal
<1> DEFINE F == {n \in Nat : n <= N => GoodSoFar(request, g[1 .. n], n)}
<1>10. 0 \in F
  <2>1. 1 .. 0 = {} /\ {} \in SUBSET (1 .. N)
    OBVIOUS
  <2>2. g[1 .. 0] = NothingDone
    BY <1>8, <2>1 DEF DoneUpTo
  <2>3. GoodSoFar(request, NothingDone, 0)
    <3>1. /\ NothingDone.accepted = <<>> /\ NothingDone.exclusions = <<>>
          /\ DOMAIN <<>> = {} /\ Len(<<>>) = 0 /\ ~NothingDone.failed
      BY DEF NothingDone
    <3>2. NothingDone \in Preparing(request)
      BY DEF NothingDone, Preparing
    <3>3. Disposal(NothingDone, 0)
      BY <2>1, <3>1 DEF Disposal, Ordinals, InSourceOrder
    <3> QED
      BY <3>1, <3>2, <3>3 DEF GoodSoFar, CountsAre
  <2> QED
    BY <2>2, <2>3
<1>11. ASSUME NEW n \in Nat, n \in F PROVE n + 1 \in F
  <2>1. SUFFICES ASSUME n + 1 <= N PROVE GoodSoFar(request, g[1 .. n + 1], n + 1)
    OBVIOUS
  <2>2. GoodSoFar(request, g[1 .. n], n) /\ n + 1 \in 1 .. N
    BY <1>1, <1>11, <2>1
  <2>3. /\ 1 .. n + 1 \in SUBSET (1 .. N) /\ 1 .. n + 1 # {}
        /\ Max(1 .. n + 1) = n + 1 /\ (1 .. n + 1) \ {n + 1} = 1 .. n
    BY <1>1, <2>1, LastOne
  <2>4. g[1 .. n + 1] = Disposed(request, rows, g[1 .. n], n + 1)
    BY <1>8, <2>3 DEF DoneUpTo
  <2> QED
    BY <1>1, <2>2, <2>4, Turned
<1> HIDE DEF F
<1>12. N \in F
  BY <1>1, <1>10, <1>11, Steps
<1>13. GoodSoFar(request, g[1 .. N], N)
  BY <1>1, <1>12 DEF F
<1> QED
  BY <1>9, <1>13 DEF N

-----------------------------------------------------------------------------
(* What an accepted source is made into is what the record asks for.       *)

\* A version, its rows and its texts, by source and request.
Body(source, request) == Version(source, request).body
Done(source, request) == Prepared(request, Rows(source))
Texts(source, request) ==
    LET accepted == Done(source, request).accepted
    IN  {accepted[i].text : i \in DOMAIN accepted}

\* The fields of a version, one by one.
LEMMA BodyFields ==
    ASSUME NEW source, NEW request
    PROVE  LET v == Body(source, request)
               done == Done(source, request)
           IN  /\ v.row_count = Len(Rows(source))
               /\ v.configuration = Configuration(source, request)
               /\ v.configuration.split_rule = request.split_rule
               /\ v.accepted_examples = done.accepted /\ v.exclusions = done.exclusions
               /\ v.split_membership = [t \in Texts(source, request) |->
                                            AssignSplit(t, request.split_rule)]
               /\ v.preview_selections = Selection(v.accepted_examples,
                       v.split_membership, v.configuration.preview_limit)
               /\ v.statistics = Statistics(v.row_count, v.accepted_examples, v.exclusions,
                       v.split_membership, v.configuration.split_rule.parts)
  BY DEF Body, Version, Done, Texts, Configuration

\* No row of an accepted source is what its adapter refuses.
LEMMA RowsOfSource ==
    ASSUME NEW source \in Source, Loads(source)
    PROVE  Rows(source) \in Seq(Text \cup Unmapped)
<1> DEFINE S == Text \cup Unmapped \cup {"blank"}
           items == source.items
<1>1. items \in Seq(S \cup Refused[source.adapter])
  BY DatasetAssumption
<1>2. DOMAIN items = 1 .. Len(items) /\ Len(items) \in Nat
      /\ \A i \in DOMAIN items : items[i] \in S \cup Refused[source.adapter]
  BY <1>1, LenProperties
<1>3. \A i \in DOMAIN items : items[i] \notin Refused[source.adapter]
  BY DEF Loads, ToSet
<1>4. items = [i \in 1 .. Len(items) |-> items[i]]
  BY <1>1
<1>5. items \in [1 .. Len(items) -> S]
  BY <1>2, <1>3, <1>4
<1>6. items \in Seq(S)
  BY <1>2, <1>5
<1>7. Rows(source) \in Seq(S \ {"blank"})
  BY <1>6, RowsType
<1>8. S \ {"blank"} \subseteq Text \cup Unmapped
  OBVIOUS
<1> QED
  BY <1>7, <1>8

\* Every hash falls below the end of some part.
LEMMA SplitIsAssigned ==
    ASSUME NEW request \in Preparation, NEW text \in Text
    PROVE  \E n \in DOMAIN request.split_rule.parts :
               AssignSplit(text, request.split_rule) = request.split_rule.parts[n].name
<1> DEFINE rule == request.split_rule
           parts == rule.parts
           weights(n) == [i \in 1 .. n |-> parts[i].weight]
           N == Len(parts)
           W == Weight(parts, N)
           bucket == Hash[text][rule.seed] % W
           T == {n \in DOMAIN parts : bucket < Weight(parts, n)}
<1>1. /\ parts \in Seq([name : {parts[n].name : n \in DOMAIN parts}, weight : Nat \ {0}])
      /\ parts # <<>> /\ Hash[text][rule.seed] \in Nat
  BY DatasetAssumption
<1>2. /\ N \in Nat /\ N >= 1 /\ DOMAIN parts = 1 .. N
      /\ \A i \in 1 .. N : parts[i].weight \in Nat \ {0}
  <2>1. N \in Nat /\ DOMAIN parts = 1 .. N /\ N # 0
    BY <1>1, LenProperties, EmptySeq
  <2>2. \A i \in 1 .. N : parts[i] \in [name : {parts[n].name : n \in DOMAIN parts}, weight : Nat \ {0}]
    BY <1>1, <2>1, ElementOfSeq
  <2>3. \A i \in 1 .. N : parts[i].weight \in Nat \ {0}
    BY <2>2
  <2> QED
    BY <2>1, <2>3
<1>3. W \in Nat /\ W >= 1
  <2> DEFINE w == weights(N)
  <2>1. DOMAIN w = 1 .. N /\ w[1] = parts[1].weight /\ 1 \in 1 .. N
        /\ \A i \in DOMAIN w : w[i] \in Nat
    BY <1>2
  <2>2. IsFiniteSet(DOMAIN w)
    BY <1>2, <2>1, FS_Interval
  <2>3. W = SumFunction(w)
    BY DEF Weight
  <2> HIDE DEF w, W
  <2>4. SumFunction(w) \in Nat /\ w[1] <= SumFunction(w)
    BY <2>1, <2>2, SumBounds
  <2>5. w[1] \in Nat \ {0}
    BY <1>2, <2>1
  <2> QED
    BY <2>3, <2>4, <2>5
<1>4. bucket < W
  <2> HIDE DEF W
  <2> QED
    BY <1>1, <1>3
<1>5. N \in T /\ T \subseteq Nat
  BY <1>2, <1>4
<1>6. Min(T) \in T
  BY <1>5, Smallest
<1>7. AssignSplit(text, rule) = parts[Min(T)].name
  BY DEF AssignSplit
<1> HIDE DEF T
<1> QED
  BY <1>6, <1>7 DEF T

\* m puts every accepted text into its split, and the counts count them there.
SplitBy(request, done, m) ==
    /\ DOMAIN m = {done.accepted[i].text : i \in DOMAIN done.accepted}
    /\ \A t \in DOMAIN m : m[t] = AssignSplit(t, request.split_rule)

\* counts are those of the parts of the split rule.
CountBy(request, m, counts) ==
    /\ DOMAIN counts = DOMAIN request.split_rule.parts
    /\ \A n \in DOMAIN counts : counts[n] =
           Cardinality({t \in DOMAIN m : m[t] = request.split_rule.parts[n].name})

\* Every accepted text is in one split.
LEMMA SplitsAddUp ==
    ASSUME NEW request \in Preparation, NEW done,
           GoodSoFar(request, done, Len(done.accepted) + Len(done.exclusions)), ~done.failed,
           NEW m, SplitBy(request, done, m), NEW counts, CountBy(request, m, counts)
    PROVE  SumFunction(counts) = Len(done.accepted)
<1> DEFINE parts == request.split_rule.parts
           accepted == done.accepted
           N == Len(accepted)
           P == DOMAIN parts
           T == DOMAIN m
<1>0. /\ T = {accepted[i].text : i \in DOMAIN accepted}
      /\ \A t \in T : m[t] = AssignSplit(t, request.split_rule)
      /\ DOMAIN counts = P
      /\ \A n \in P : counts[n] = Cardinality({t \in T : m[t] = parts[n].name})
  BY DEF SplitBy, CountBy
<1>1. accepted \in Seq(Example(request)) /\ N \in Nat /\ DOMAIN accepted = 1 .. N
  BY LenProperties DEF GoodSoFar, Preparing
<1>2. \A i \in 1 .. N : accepted[i].text \in Text
  <2>1. \A i \in 1 .. N : accepted[i] \in Example(request)
    BY <1>1, ElementOfSeq
  <2> QED
    BY <2>1 DEF Example
<1>3. \A i, j \in 1 .. N : accepted[i].text = accepted[j].text => i = j
  BY <1>1 DEF GoodSoFar, Disposal
<1> HIDE DEF N
<1>4. IsFiniteSet(T) /\ Cardinality(T) = N
  <2> DEFINE f == [i \in 1 .. N |-> accepted[i].text]
  <2>1. f \in Bijection(1 .. N, T)
    <3>1. f \in [1 .. N -> T] /\ \A t \in T : \E i \in 1 .. N : f[i] = t
      BY <1>0, <1>1
    <3>2. \A i, j \in 1 .. N : f[i] = f[j] => i = j
      BY <1>3
    <3> HIDE DEF f
    <3> QED
      BY <3>1, <3>2 DEF Bijection, Injection, Surjection, IsInjective
  <2>2. IsFiniteSet(1 .. N) /\ Cardinality(1 .. N) = N
    BY <1>1, UpTo
  <2> HIDE DEF f
  <2> QED
    BY <2>1, <2>2, FS_Bijection DEF ExistsBijection
<1>5. T \subseteq Text
  BY <1>0, <1>1, <1>2
<1>6. IsFiniteSet(P)
  <2>1. parts \in Seq([name : {parts[n].name : n \in DOMAIN parts}, weight : Nat \ {0}])
    BY DatasetAssumption
  <2>2. P = 1 .. Len(parts) /\ Len(parts) \in Nat
    BY <2>1, LenProperties
  <2> QED
    BY <2>2, UpTo
<1>7. \A n, k \in P : parts[n].name = parts[k].name => n = k
  BY DatasetAssumption
<1> DEFINE Of(t) == CHOOSE n \in P : m[t] = parts[n].name
           at == [t \in T |-> Of(t)]
<1>8. \A t \in T : \E n \in P : m[t] = parts[n].name
  BY <1>0, <1>5, SplitIsAssigned
<1>9. \A t \in T : Of(t) \in P /\ m[t] = parts[Of(t)].name
  BY <1>8
<1> HIDE DEF Of, P, parts
<1>10. at \in [T -> P] /\ \A t \in T : at[t] \in P /\ m[t] = parts[at[t]].name
  BY <1>9
<1> HIDE DEF at
<1>11. ASSUME NEW n \in P
       PROVE  counts[n] = Cardinality({t \in T : at[t] = n})
  <2>1. counts[n] = Cardinality({t \in T : m[t] = parts[n].name})
    BY <1>0
  <2>2. \A t \in T : m[t] = parts[n].name <=> at[t] = n
    BY <1>7, <1>10
  <2>3. {t \in T : m[t] = parts[n].name} = {t \in T : at[t] = n}
    BY <2>2
  <2> QED
    BY <2>1, <2>3
<1>12. DOMAIN counts = P
  BY <1>0
<1>13. SumFunction(counts) = Cardinality(T)
  <2>1. IsFiniteSet(DOMAIN counts) /\ at \in [T -> DOMAIN counts]
    BY <1>6, <1>10, <1>12
  <2>2. \A n \in DOMAIN counts : counts[n] = Cardinality({t \in T : at[t] = n})
    BY <1>11, <1>12
  <2>3. IsFiniteSet(T)
    BY <1>4
  <2> HIDE DEF T
  <2> QED
    BY <2>1, <2>2, <2>3, SumOfCells
<1> QED
  BY <1>4, <1>13 DEF N

\* What an accepted source and request are made into, the record accepts.
LEMMA VersionIsValid ==
    ASSUME NEW source \in Source, NEW request \in Preparation,
           Accepts(source, Rows(source), request)
    PROVE  ValidVersion(Body(source, request))
<1> DEFINE v == Body(source, request)
           done == Done(source, request)
           R == Len(Rows(source))
           parts == request.split_rule.parts
<1>1. Rows(source) \in Seq(Text \cup Unmapped)
  BY RowsOfSource DEF Accepts
<1>2. GoodSoFar(request, done, R)
  BY <1>1, PreparedIsGood DEF Done
<1>3. ~done.failed /\ done.accepted # <<>>
  BY DEF Accepts, Done
<1> HIDE DEF done, v
<1>4. /\ v.row_count = R /\ v.configuration.split_rule = request.split_rule
      /\ v.accepted_examples = done.accepted /\ v.exclusions = done.exclusions
      /\ v.split_membership = [t \in Texts(source, request) |->
                                   AssignSplit(t, request.split_rule)]
      /\ v.preview_selections = Selection(v.accepted_examples,
              v.split_membership, v.configuration.preview_limit)
      /\ v.statistics = Statistics(v.row_count, v.accepted_examples, v.exclusions,
              v.split_membership, v.configuration.split_rule.parts)
  BY BodyFields DEF v, done
<1>5. Texts(source, request) = {done.accepted[i].text : i \in DOMAIN done.accepted}
  BY DEF Texts, done
<1>6. /\ Disposal(done, R) /\ done \in Preparing(request)
      /\ Len(done.accepted) + Len(done.exclusions) = R
  BY <1>2, <1>3 DEF GoodSoFar, Disposal
<1> HIDE DEF R
<1>7. \A t \in Texts(source, request) : t \in Text
  <2>1. done.accepted \in Seq(Example(request)) /\ DOMAIN done.accepted = 1 .. Len(done.accepted)
    BY <1>6, LenProperties DEF Preparing
  <2>2. \A i \in DOMAIN done.accepted : done.accepted[i] \in Example(request)
    BY <2>1, ElementOfSeq
  <2> QED
    BY <1>5, <2>2 DEF Example
<1>8. InSourceOrder(v.accepted_examples) /\ InSourceOrder(v.exclusions)
  BY <1>4, <1>6 DEF Disposal
<1>9. Partitioned(v)
  <2>1. \A i, j \in DOMAIN v.accepted_examples :
           v.accepted_examples[i].text = v.accepted_examples[j].text => i = j
    BY <1>4, <1>6 DEF Disposal
  <2>2. DOMAIN v.split_membership =
           {v.accepted_examples[i].text : i \in DOMAIN v.accepted_examples}
    BY <1>4, <1>5
  <2>3. \A t \in DOMAIN v.split_membership :
           \E n \in DOMAIN v.configuration.split_rule.parts :
               v.split_membership[t] = v.configuration.split_rule.parts[n].name
    BY <1>4, <1>7, SplitIsAssigned
  <2> QED
    BY <2>1, <2>2, <2>3 DEF Partitioned
<1>10. DisposesOfEveryRow(v)
  BY <1>4, <1>6 DEF DisposesOfEveryRow, Disposal
<1>11. RetainsAccepted(v)
  BY <1>4, <1>6 DEF RetainsAccepted, Retaining, Disposal
<1>12. Balanced(v)
  <2> DEFINE s == v.statistics
             m == v.split_membership
             D == {i \in DOMAIN v.exclusions : v.exclusions[i].phase = "deduplication"}
             counts == [n \in DOMAIN parts |-> Cardinality({t \in DOMAIN m : m[t] = parts[n].name})]
  <2>1. /\ s.source_rows = R /\ s.accepted_rows = Len(done.accepted)
        /\ s.excluded_rows = Len(done.exclusions) /\ s.duplicate_rows = Cardinality(D)
        /\ s.split_counts = counts
    BY <1>4 DEF Statistics
  <2>2. SumFunction(counts) = Len(done.accepted)
    <3>1. SplitBy(request, done, m)
      BY <1>4, <1>5 DEF SplitBy
    <3>2. CountBy(request, m, counts)
      BY DEF CountBy
    <3>3. GoodSoFar(request, done, Len(done.accepted) + Len(done.exclusions)) /\ ~done.failed
      BY <1>2, <1>3, <1>6
    <3> HIDE DEF m, counts
    <3> QED
      BY <3>1, <3>2, <3>3, SplitsAddUp
  <2>3. Cardinality(D) <= Len(done.exclusions)
    <3>1. done.exclusions \in Seq(Exclusion)
      BY <1>6 DEF Preparing
    <3> DEFINE I == DOMAIN done.exclusions
               L == Len(done.exclusions)
    <3>2. L \in Nat /\ I = 1 .. L
      BY <3>1, LenProperties
    <3>3. D \in SUBSET I
      BY <1>4
    <3> HIDE DEF D, I, L
    <3>4. IsFiniteSet(1 .. L) /\ Cardinality(1 .. L) = L
      BY <3>2, FS_Interval
    <3>5. Cardinality(D) <= Cardinality(I)
      BY <3>2, <3>3, <3>4, FS_Subset
    <3>6. Cardinality(D) <= L
      BY <3>2, <3>4, <3>5
    <3> QED
      BY <3>6 DEF L
  <2> HIDE DEF counts, D
  <2>4. s.source_rows = s.accepted_rows + s.excluded_rows /\ s.duplicate_rows <= s.excluded_rows
    BY <1>6, <2>1, <2>3
  <2>5. SumFunction(s.split_counts) = s.accepted_rows
    BY <2>1, <2>2
  <2> QED
    BY <1>4, <2>4, <2>5 DEF Balanced
<1>13. v.accepted_examples # <<>>
  BY <1>3, <1>4
<1>14. ValidVersion(v)
  BY <1>4, <1>8, <1>9, <1>10, <1>11, <1>12, <1>13 DEF ValidVersion
<1> QED
  BY <1>14 DEF v

\* Whatever the sources, requests, texts and hashes: what the service prepares,
\* the record's own checks do not refuse.
THEOREM PreparedStaysValid == Spec => []PreparedIsValid
<1>1. Refusals = {}
  <2> SUFFICES ASSUME NEW i \in Importable PROVE ValidVersion(Version(i[1], i[2]).body)
    BY DEF Refusals, Versions
  <2>1. i[1] \in Source /\ i[2] \in Preparation /\ Accepts(i[1], Rows(i[1]), i[2])
    BY DEF Importable
  <2> QED
    BY <2>1, VersionIsValid DEF Body
<1>2. PreparedIsValid
  BY <1>1 DEF PreparedIsValid
<1> QED
  BY <1>2, PTL

\* The tokens of a text are those its tokenizer counts, steadily.
LEMMA TokensOfBody ==
    ASSUME NEW source \in Source, NEW request \in Preparation,
           Accepts(source, Rows(source), request)
    PROVE  LET v == Body(source, request)
           IN  /\ DOMAIN TokensOf(v) = DOMAIN v.split_membership
               /\ \A t \in DOMAIN v.split_membership :
                      /\ t \in Text
                      /\ v.split_membership[t] = AssignSplit(t, request.split_rule)
                      /\ TokensOf(v)[t] = request.tokenizer.first[t]
                      /\ request.tokenizer.first[t] = request.tokenizer.second[t]
<1> DEFINE v == Body(source, request)
           done == Done(source, request)
<1>1. Rows(source) \in Seq(Text \cup Unmapped)
  BY RowsOfSource DEF Accepts
<1>2. GoodSoFar(request, done, Len(Rows(source)))
  BY <1>1, PreparedIsGood DEF Done
<1> HIDE DEF done, v
<1>3. /\ v.accepted_examples = done.accepted
      /\ v.split_membership = [t \in Texts(source, request) |->
                                   AssignSplit(t, request.split_rule)]
  BY BodyFields DEF v, done
<1>4. Texts(source, request) = {done.accepted[i].text : i \in DOMAIN done.accepted}
  BY DEF Texts, done
<1>5. done.accepted \in Seq(Example(request)) /\ CountsAre(request, done)
  BY <1>2 DEF GoodSoFar, Preparing
<1>6. \A i \in DOMAIN done.accepted : done.accepted[i].text \in Text
  <2>1. \A i \in DOMAIN done.accepted : done.accepted[i] \in Example(request)
    BY <1>5, ElementOfSeq, LenProperties
  <2> QED
    BY <2>1 DEF Example
<1>7. ASSUME NEW t \in Texts(source, request)
      PROVE  /\ t \in Text
             /\ TokensOf(v)[t] = request.tokenizer.first[t]
             /\ request.tokenizer.first[t] = request.tokenizer.second[t]
  <2> DEFINE i == CHOOSE j \in DOMAIN done.accepted : done.accepted[j].text = t
  <2>1. i \in DOMAIN done.accepted /\ done.accepted[i].text = t
    BY <1>4
  <2>2. TokensOf(v)[t] = done.accepted[i].tokens
    BY <1>3 DEF TokensOf
  <2> HIDE DEF i
  <2> QED
    BY <1>5, <1>6, <2>1, <2>2 DEF CountsAre, Counted
<1>8. DOMAIN TokensOf(v) = DOMAIN v.split_membership
  BY DEF TokensOf
<1> QED
  BY <1>3, <1>7, <1>8 DEF v

\* A version keeps the configuration it was prepared under.
LEMMA ConfigurationOf ==
    ASSUME NEW source, NEW request
    PROVE  Body(source, request).configuration = Configuration(source, request)
  BY DEF Body, Version, Configuration

\* No difference under a key is none in the deltas.
LEMMA NoDeltas ==
    ASSUME NEW f, NEW g
    PROVE  DOMAIN Deltas(f, g) = {} <=> \A k \in DOMAIN f \cap DOMAIN g : f[k] = g[k]
  BY DEF Deltas

\* Two versions under one configuration give a text they share the same split
\* and tokens, if a tokenizer is as its identity says.
THEOREM ReimportsAgree == Spec => []ReimportStable
<1>1. ASSUME NEW i \in Importable, NEW j \in Importable,
             DOMAIN Deltas(Body(i[1], i[2]).configuration, Body(j[1], j[2]).configuration) = {}
      PROVE  LET v == Body(i[1], i[2])
                 w == Body(j[1], j[2])
             IN  /\ DOMAIN Deltas(v.split_membership, w.split_membership) = {}
                 /\ DOMAIN Deltas(TokensOf(v), TokensOf(w)) = {}
  <2> DEFINE p == i[2]
             q == j[2]
             v == Body(i[1], p)
             w == Body(j[1], q)
  <2>1. /\ i[1] \in Source /\ p \in Preparation /\ Accepts(i[1], Rows(i[1]), p)
        /\ j[1] \in Source /\ q \in Preparation /\ Accepts(j[1], Rows(j[1]), q)
    BY DEF Importable
  <2>2. v.configuration = Configuration(i[1], p) /\ w.configuration = Configuration(j[1], q)
    BY ConfigurationOf
  <2>3. \A k \in DOMAIN Configuration(i[1], p) \cap DOMAIN Configuration(j[1], q) :
           Configuration(i[1], p)[k] = Configuration(j[1], q)[k]
    BY <1>1, <2>2, NoDeltas
  <2>4. p.split_rule = q.split_rule /\ p.tokenizer.identity = q.tokenizer.identity
    <3>1. {"split_rule", "tokenizer"} \subseteq
              DOMAIN Configuration(i[1], p) \cap DOMAIN Configuration(j[1], q)
      BY DEF Configuration
    <3>2. /\ Configuration(i[1], p)["split_rule"] = p.split_rule
          /\ Configuration(j[1], q)["split_rule"] = q.split_rule
          /\ Configuration(i[1], p)["tokenizer"] = p.tokenizer.identity
          /\ Configuration(j[1], q)["tokenizer"] = q.tokenizer.identity
      BY DEF Configuration
    <3> QED
      BY <2>3, <3>1, <3>2
  <2>5. /\ DOMAIN TokensOf(v) = DOMAIN v.split_membership
        /\ \A t \in DOMAIN v.split_membership :
               /\ t \in Text /\ v.split_membership[t] = AssignSplit(t, p.split_rule)
               /\ TokensOf(v)[t] = p.tokenizer.first[t]
               /\ p.tokenizer.first[t] = p.tokenizer.second[t]
    BY <2>1, TokensOfBody
  <2>6. /\ DOMAIN TokensOf(w) = DOMAIN w.split_membership
        /\ \A t \in DOMAIN w.split_membership :
               /\ t \in Text /\ w.split_membership[t] = AssignSplit(t, q.split_rule)
               /\ TokensOf(w)[t] = q.tokenizer.first[t]
               /\ q.tokenizer.first[t] = q.tokenizer.second[t]
    BY <2>1, TokensOfBody
  <2> HIDE DEF p, q, v, w
  <2>7. ASSUME NEW t \in DOMAIN v.split_membership \cap DOMAIN w.split_membership
        PROVE  /\ v.split_membership[t] = w.split_membership[t]
               /\ TokensOf(v)[t] = TokensOf(w)[t]
    <3>1. p.tokenizer.first[t] = q.tokenizer.first[t]
      BY <2>1, <2>4, <2>5, <2>6, TokenizerAssumption
    <3> QED
      BY <2>4, <2>5, <2>6, <3>1
  <2>8. /\ DOMAIN Deltas(v.split_membership, w.split_membership) = {}
        /\ DOMAIN Deltas(TokensOf(v), TokensOf(w)) = {}
    BY <2>5, <2>6, <2>7, NoDeltas
  <2> QED
    BY <2>8 DEF p, q, v, w
<1>2. Disagreements = {}
  <2> SUFFICES ASSUME NEW d \in Disagreements PROVE FALSE
    OBVIOUS
  <2>1. PICK i \in Importable, j \in Importable :
             d[1] = Body(i[1], i[2]) /\ d[2] = Body(j[1], j[2])
    BY DEF Disagreements, Versions, Body
  <2>2. LET c == CompareReimport(d[1], d[2])
        IN  /\ DOMAIN c.configuration_deltas = {}
            /\ DOMAIN c.split_changes # {} \/ DOMAIN c.token_count_deltas # {}
    BY DEF Disagreements
  <2>3. /\ CompareReimport(d[1], d[2]).configuration_deltas =
               Deltas(d[1].configuration, d[2].configuration)
        /\ CompareReimport(d[1], d[2]).split_changes =
               Deltas(d[1].split_membership, d[2].split_membership)
        /\ CompareReimport(d[1], d[2]).token_count_deltas =
               Deltas(TokensOf(d[1]), TokensOf(d[2]))
    BY DEF CompareReimport
  <2>4. DOMAIN Deltas(d[1].configuration, d[2].configuration) = {}
    BY <2>2, <2>3
  <2>5. /\ DOMAIN Deltas(d[1].split_membership, d[2].split_membership) # {}
           \/ DOMAIN Deltas(TokensOf(d[1]), TokensOf(d[2])) # {}
    BY <2>2, <2>3
  <2> QED
    BY <1>1, <2>1, <2>4, <2>5
<1>3. ReimportStable
  BY <1>2 DEF ReimportStable
<1> QED
  BY <1>3, PTL

-----------------------------------------------------------------------------
(* Fourth part: the order of the results, their cohorts, and the advice.   *)

\* before puts the elements of S one after the other.
Strict(S, before) ==
    /\ \A x \in S : <<x, x>> \notin before
    /\ \A x, y, z \in S : <<x, y>> \in before /\ <<y, z>> \in before => <<x, z>> \in before
    /\ \A x, y \in S : x # y => <<x, y>> \in before \/ <<y, x>> \in before

\* s has all the elements of S, in that order.
Ordering(s, S, before) ==
    /\ s \in Seq(S) /\ Len(s) = Cardinality(S) /\ DOMAIN s = 1 .. Cardinality(S)
    /\ \A x \in S : \E n \in DOMAIN s : s[n] = x
    /\ \A i, j \in DOMAIN s : i < j => <<s[i], s[j]>> \in before

\* As many as come before an element give its place.
LEMMA SortedOrders ==
    ASSUME NEW S, IsFiniteSet(S), NEW before, Strict(S, before)
    PROVE  Ordering(Sorted(S, before), S, before)
<1> DEFINE N == Cardinality(S)
           Before(x) == {y \in S : <<y, x>> \in before}
           Rank(x) == Cardinality(Before(x))
           s == Sorted(S, before)
<1>1. N \in Nat
  BY FS_CardinalityType
<1>2. \A x \in S : IsFiniteSet(Before(x)) /\ Rank(x) \in Nat /\ Before(x) \in SUBSET S
  <2> SUFFICES ASSUME NEW x \in S
               PROVE  IsFiniteSet(Before(x)) /\ Rank(x) \in Nat /\ Before(x) \in SUBSET S
    OBVIOUS
  <2>1. Before(x) \in SUBSET S
    OBVIOUS
  <2> HIDE DEF Before
  <2> QED
    BY <2>1, FS_Subset, FS_CardinalityType
<1>3. ASSUME NEW x \in S, NEW y \in S, <<x, y>> \in before PROVE Rank(x) < Rank(y)
  <2>1. Before(x) \cup {x} \in SUBSET Before(y) /\ x \notin Before(x)
    BY <1>3 DEF Strict
  <2> HIDE DEF Before
  <2>2. Cardinality(Before(x) \cup {x}) = Rank(x) + 1
    BY <1>2, <2>1, FS_AddElement
  <2>3. Cardinality(Before(x) \cup {x}) <= Rank(y)
    BY <1>2, <2>1, FS_Subset
  <2>4. Rank(x) \in Nat /\ Rank(y) \in Nat
    BY <1>2
  <2> HIDE DEF Rank
  <2> QED
    BY <2>2, <2>3, <2>4
<1>4. \A x \in S : Rank(x) \in 0 .. N - 1
  <2> SUFFICES ASSUME NEW x \in S PROVE Rank(x) \in 0 .. N - 1
    OBVIOUS
  <2>1. Before(x) \in SUBSET (S \ {x})
    BY DEF Strict
  <2> HIDE DEF Before
  <2>2. IsFiniteSet(S \ {x}) /\ Cardinality(S \ {x}) = N - 1
    BY FS_RemoveElement
  <2>3. Rank(x) <= N - 1
    BY <2>1, <2>2, FS_Subset
  <2>4. Rank(x) \in Nat
    BY <1>2
  <2> HIDE DEF Rank, N
  <2> QED
    BY <1>1, <2>3, <2>4
<1>5. \A x, y \in S : Rank(x) = Rank(y) => x = y
  <2> SUFFICES ASSUME NEW x \in S, NEW y \in S, x # y PROVE Rank(x) # Rank(y)
    OBVIOUS
  <2>0. <<x, y>> \in before \/ <<y, x>> \in before
    BY DEF Strict
  <2>1. Rank(x) < Rank(y) \/ Rank(y) < Rank(x)
    BY <1>3, <2>0
  <2>2. Rank(x) \in Nat /\ Rank(y) \in Nat
    BY <1>2
  <2> HIDE DEF Rank
  <2> QED
    BY <2>1, <2>2
<1> DEFINE f == [x \in S |-> Rank(x)]
<1> HIDE DEF Rank, N
<1>6. f \in Injection(S, 0 .. N - 1)
  BY <1>4, <1>5 DEF Injection, IsInjective
<1>7. IsFiniteSet(0 .. N - 1) /\ Cardinality(0 .. N - 1) = N
  BY <1>1, FS_Interval
<1>8. f \in Surjection(S, 0 .. N - 1)
  <2> HIDE DEF f
  <2> QED
    BY <1>6, <1>7, FS_Injection DEF N
<1>9. \A n \in 0 .. N - 1 : \E x \in S : Rank(x) = n
  BY <1>8 DEF Surjection
<1>10. s = [n \in 1 .. N |-> CHOOSE x \in S : Rank(x) = n - 1]
  BY DEF Sorted, Rank, N
<1>11. \A n \in 1 .. N : s[n] \in S /\ Rank(s[n]) = n - 1
  <2> SUFFICES ASSUME NEW n \in 1 .. N PROVE s[n] \in S /\ Rank(s[n]) = n - 1
    OBVIOUS
  <2>1. n - 1 \in 0 .. N - 1
    BY <1>1
  <2>2. s[n] = CHOOSE x \in S : Rank(x) = n - 1
    BY <1>10
  <2> HIDE DEF s
  <2> QED
    BY <1>9, <2>1, <2>2
<1>12. DOMAIN s = 1 .. N /\ s = [n \in 1 .. N |-> s[n]]
  BY <1>10
<1> HIDE DEF s
<1>13. s \in Seq(S) /\ Len(s) = N
  <2>1. s \in [1 .. N -> S]
    BY <1>11, <1>12
  <2> QED
    BY <1>1, <1>12, <2>1, LenProperties
<1>14. ASSUME NEW x \in S PROVE \E n \in 1 .. N : s[n] = x
  <2>1. Rank(x) \in 0 .. N - 1 /\ Rank(x) + 1 \in 1 .. N /\ (Rank(x) + 1) - 1 = Rank(x)
    BY <1>1, <1>4
  <2>2. Rank(s[Rank(x) + 1]) = Rank(x) /\ s[Rank(x) + 1] \in S
    BY <1>11, <2>1
  <2> QED
    BY <1>5, <2>1, <2>2
<1>15. ASSUME NEW i \in 1 .. N, NEW j \in 1 .. N, i < j PROVE <<s[i], s[j]>> \in before
  <2>1. Rank(s[i]) = i - 1 /\ Rank(s[j]) = j - 1 /\ s[i] \in S /\ s[j] \in S
    BY <1>11
  <2>2. s[i] # s[j] /\ ~(Rank(s[j]) < Rank(s[i]))
    BY <1>1, <1>15, <2>1
  <2>3. <<s[j], s[i]>> \notin before
    BY <1>3, <2>1, <2>2
  <2> QED
    BY <2>1, <2>2, <2>3 DEF Strict
<1> QED
  BY <1>12, <1>13, <1>14, <1>15 DEF Ordering, s, N

\* Results of different candidates, all of them listed.
Listed(R) ==
    \A q, r \in R :
        /\ CandidateOf(q) \in ToSet(Candidates)
        /\ CandidateOf(q) = CandidateOf(r) => q = r

\* The order of the references is one.
LEMMA PrecedesOrders ==
    ASSUME NEW R, Listed(R)
    PROVE  /\ \A q \in R : ~Precedes(CandidateOf(q), CandidateOf(q))
           /\ \A p, q, r \in R :
                  Precedes(CandidateOf(p), CandidateOf(q)) /\ Precedes(CandidateOf(q), CandidateOf(r))
                      => Precedes(CandidateOf(p), CandidateOf(r))
           /\ \A q, r \in R : q # r =>
                  \/ Precedes(CandidateOf(q), CandidateOf(r))
                  \/ Precedes(CandidateOf(r), CandidateOf(q))
<1>1. /\ DOMAIN Candidates = 1 .. Len(Candidates) /\ Len(Candidates) \in Nat
      /\ \A i, j \in DOMAIN Candidates : Candidates[i] = Candidates[j] => i = j
  BY TrialAssumption, LenProperties
<1>2. \A q \in R : \E i \in DOMAIN Candidates : Candidates[i] = CandidateOf(q)
  BY DEF Listed, ToSet
<1>3. ASSUME NEW q \in R, Precedes(CandidateOf(q), CandidateOf(q)) PROVE FALSE
  BY <1>1, <1>3 DEF Precedes
<1>4. ASSUME NEW a, NEW b, NEW c, Precedes(a, b), Precedes(b, c) PROVE Precedes(a, c)
  <2>1. PICK i \in DOMAIN Candidates, j \in DOMAIN Candidates :
             i < j /\ Candidates[i] = a /\ Candidates[j] = b
    BY <1>4 DEF Precedes
  <2>2. PICK k \in DOMAIN Candidates, l \in DOMAIN Candidates :
             k < l /\ Candidates[k] = b /\ Candidates[l] = c
    BY <1>4 DEF Precedes
  <2>3. j = k /\ i \in Nat /\ j \in Nat /\ l \in Nat
    BY <1>1, <2>1, <2>2
  <2>4. i < l
    BY <2>1, <2>2, <2>3
  <2> QED
    BY <2>1, <2>2, <2>4 DEF Precedes
<1>5. ASSUME NEW q \in R, NEW r \in R, q # r
      PROVE  \/ Precedes(CandidateOf(q), CandidateOf(r))
             \/ Precedes(CandidateOf(r), CandidateOf(q))
  <2>1. PICK i \in DOMAIN Candidates, j \in DOMAIN Candidates :
             Candidates[i] = CandidateOf(q) /\ Candidates[j] = CandidateOf(r)
    BY <1>2
  <2>2. CandidateOf(q) # CandidateOf(r)
    BY <1>5 DEF Listed
  <2>3. i < j \/ j < i
    BY <1>1, <2>1, <2>2
  <2> QED
    BY <2>1, <2>3 DEF Precedes
<1> QED
  BY <1>3, <1>4, <1>5

\* The results come best first, and equals by their candidates.
LEMMA BestFirstOrders ==
    ASSUME NEW R, IsFiniteSet(R), Listed(R), NEW objective,
           \A r \in R : Score(objective, r) \in Int
    PROVE  Ordering(BestFirst(objective, R), R,
                    {p \in R \X R : Better(objective, p[1], p[2])})
<1> DEFINE before == {p \in R \X R : Better(objective, p[1], p[2])}
           C(r) == CandidateOf(r)
           V(r) == Score(objective, r)
<1>1. \A q, r \in R : <<q, r>> \in before <=> V(q) > V(r) \/ (V(q) = V(r) /\ Precedes(C(q), C(r)))
  BY DEF Better
<1>2. \A r \in R : V(r) \in Int
  OBVIOUS
<1> HIDE DEF before, V
<1>3. Strict(R, before)
  <2>1. \A x \in R : <<x, x>> \notin before
    BY <1>1, <1>2, PrecedesOrders
  <2>2. ASSUME NEW x \in R, NEW y \in R, NEW z \in R, <<x, y>> \in before, <<y, z>> \in before
        PROVE  <<x, z>> \in before
    <3>1. V(x) >= V(y) /\ V(y) >= V(z) /\ V(x) \in Int /\ V(y) \in Int /\ V(z) \in Int
      BY <1>1, <1>2, <2>2
    <3>2. CASE V(x) > V(z)
      BY <1>1, <3>2
    <3>3. CASE V(x) = V(y) /\ V(y) = V(z)
      BY <1>1, <1>2, <2>2, <3>3, PrecedesOrders
    <3> QED
      BY <3>1, <3>2, <3>3
  <2>3. ASSUME NEW x \in R, NEW y \in R, x # y PROVE <<x, y>> \in before \/ <<y, x>> \in before
    <3>1. V(x) > V(y) \/ V(y) > V(x) \/ V(x) = V(y)
      BY <1>2
    <3> QED
      BY <1>1, <2>3, <3>1, PrecedesOrders
  <2> QED
    BY <2>1, <2>2, <2>3 DEF Strict
<1>4. Ordering(Sorted(R, before), R, before)
  BY <1>3, SortedOrders
<1> QED
  BY <1>4 DEF BestFirst, before

\* One turn of the loop over the results, best first.
WithResult(objective, c, r) ==
    LET score == Score(objective, r)
        joins == c.index > 0 /\ c.anchor - score <= objective.tolerance
        index == IF joins THEN c.index ELSE c.index + 1
    IN  [index |-> index, anchor |-> IF joins THEN c.anchor ELSE score,
         of |-> Placed(c.of, r, index)]

\* The cohorts of the first results, for the sets of their positions.
CohortsUpTo(objective, b, n, g) ==
    g = [t \in SUBSET (1 .. n) |->
            IF t = {} THEN NoCohort ELSE WithResult(objective, g[t \ {Max(t)}], b[Max(t)])]

\* b has different results, none after a better one.
Descending(objective, b) ==
    /\ DOMAIN b = 1 .. Len(b) /\ Len(b) \in Nat
    /\ \A i, j \in DOMAIN b : b[i] = b[j] => i = j
    /\ \A i \in DOMAIN b : Score(objective, b[i]) \in Int
    /\ \A i, j \in DOMAIN b : i < j => Score(objective, b[i]) >= Score(objective, b[j])

\* The cohorts of the first n: they go up, no two of one are further apart than
\* the tolerance, and equals are in one.
Grouped(objective, b, n, c) ==
    LET k(i) == c.of[b[i]]
        V(i) == Score(objective, b[i])
    IN  /\ c.index \in Nat /\ (n > 0 => c.index > 0 /\ c.anchor \in Int /\ k(n) = c.index)
        /\ (n = 0 => c.index = 0)
        /\ DOMAIN c.of = {b[i] : i \in 1 .. n}
        /\ \A i \in 1 .. n : k(i) \in Nat /\ k(i) <= c.index
        /\ \A i \in 1 .. n : k(i) = c.index =>
               V(i) <= c.anchor /\ c.anchor - V(i) <= objective.tolerance
        /\ \A i, j \in 1 .. n : i <= j => k(i) <= k(j)
        /\ \A i, j \in 1 .. n : k(i) = k(j) => V(i) - V(j) <= objective.tolerance
        /\ \A i, j \in 1 .. n : V(i) = V(j) => k(i) = k(j)

\* The next result keeps the cohorts as they should be.
LEMMA GroupedNext ==
    ASSUME NEW objective, objective.tolerance \in Nat, NEW b, Descending(objective, b),
           NEW n \in Nat, n + 1 \in DOMAIN b, NEW c, Grouped(objective, b, n, c)
    PROVE  Grouped(objective, b, n + 1, WithResult(objective, c, b[n + 1]))
<1> DEFINE d == WithResult(objective, c, b[n + 1])
           tol == objective.tolerance
           V(i) == Score(objective, b[i])
           k(i) == c.of[b[i]]
           l(i) == d.of[b[i]]
           score == V(n + 1)
           joins == c.index > 0 /\ c.anchor - score <= tol
<1>1. /\ \A i \in 1 .. n : i \in DOMAIN b /\ i < n + 1 /\ i \in Nat
      /\ n + 1 \in 1 .. n + 1
      /\ \A i \in 1 .. n + 1 : i \in 1 .. n \/ i = n + 1
      /\ \A i \in 1 .. n : i \in 1 .. n + 1
  <2>1. DOMAIN b = 1 .. Len(b) /\ Len(b) \in Nat
    BY DEF Descending
  <2> QED
    BY <2>1
<1>2. /\ d.index = IF joins THEN c.index ELSE c.index + 1
      /\ d.anchor = IF joins THEN c.anchor ELSE score
      /\ d.of = Placed(c.of, b[n + 1], d.index)
  BY DEF WithResult
<1>3. /\ c.index \in Nat /\ (n > 0 => c.index > 0 /\ c.anchor \in Int /\ k(n) = c.index)
      /\ (n = 0 => c.index = 0)
      /\ DOMAIN c.of = {b[i] : i \in 1 .. n}
      /\ \A i \in 1 .. n : k(i) \in Nat /\ k(i) <= c.index
      /\ \A i \in 1 .. n : k(i) = c.index => V(i) <= c.anchor /\ c.anchor - V(i) <= tol
      /\ \A i, j \in 1 .. n : i <= j => k(i) <= k(j)
      /\ \A i, j \in 1 .. n : k(i) = k(j) => V(i) - V(j) <= tol
      /\ \A i, j \in 1 .. n : V(i) = V(j) => k(i) = k(j)
  BY DEF Grouped
<1>4. /\ \A i \in 1 .. n : V(i) \in Int /\ V(i) >= score
      /\ score \in Int
      /\ \A i \in 1 .. n : V(i) >= V(n)
  <2>1. \A i \in 1 .. n : V(i) \in Int /\ V(i) >= score
    BY <1>1 DEF Descending
  <2>2. score \in Int
    BY DEF Descending
  <2>3. \A i \in 1 .. n : V(i) >= V(n)
    <3> SUFFICES ASSUME NEW i \in 1 .. n PROVE V(i) >= V(n)
      OBVIOUS
    <3>1. n \in 1 .. n /\ (i < n \/ i = n)
      OBVIOUS
    <3>2. i \in DOMAIN b /\ n \in DOMAIN b
      BY <1>1, <3>1
    <3>3. i < n => V(i) >= V(n)
      BY <3>2 DEF Descending
    <3>4. V(n) >= V(n)
      BY <2>1, <3>1
    <3> QED
      BY <3>1, <3>3, <3>4
  <2> QED
    BY <2>1, <2>2, <2>3
<1>5. DOMAIN d.of = {b[i] : i \in 1 .. n + 1}
  <2>1. DOMAIN d.of = DOMAIN c.of \cup {b[n + 1]}
    BY <1>2 DEF Placed
  <2>2. {b[i] : i \in 1 .. n} \cup {b[n + 1]} = {b[i] : i \in 1 .. n + 1}
    BY <1>1
  <2> QED
    BY <1>3, <2>1, <2>2
<1>6. \A i \in 1 .. n : l(i) = k(i)
  <2> SUFFICES ASSUME NEW i \in 1 .. n PROVE l(i) = k(i)
    OBVIOUS
  <2>1. i \in DOMAIN b /\ n + 1 \in DOMAIN b /\ i # n + 1
    BY <1>1
  <2>2. b[i] # b[n + 1]
    BY <2>1 DEF Descending
  <2>3. b[i] \in DOMAIN c.of
    BY <1>3
  <2> QED
    BY <1>2, <2>2, <2>3 DEF Placed
<1>7. l(n + 1) = d.index
  BY <1>2 DEF Placed
<1> HIDE DEF d, V, k, l, joins, score, tol
<1>8. tol \in Nat
  BY DEF tol
<1>9. /\ d.index \in Nat /\ d.index > 0 /\ d.anchor \in Int
      /\ d.index >= c.index /\ (n = 0 => ~joins)
  <2>1. CASE joins
    BY <1>2, <1>3, <2>1 DEF joins
  <2>2. CASE ~joins
    BY <1>2, <1>3, <1>4, <2>2 DEF joins
  <2> QED
    BY <2>1, <2>2
<1>10. \A i \in 1 .. n : l(i) \in Nat /\ l(i) <= c.index /\ l(i) <= d.index
  BY <1>3, <1>6, <1>9
<1>11. ASSUME NEW i \in 1 .. n + 1, l(i) = d.index
       PROVE  V(i) <= d.anchor /\ d.anchor - V(i) <= tol
  <2>1. CASE joins
    <3>1. d.anchor = c.anchor /\ d.index = c.index /\ n \in 1 .. n /\ c.anchor \in Int
      BY <1>2, <1>3, <1>9, <2>1
    <3>2. CASE i \in 1 .. n
      BY <1>3, <1>6, <1>11, <3>1, <3>2
    <3>3. CASE i = n + 1
      <4>1. V(n) <= c.anchor /\ V(n) >= score /\ V(n) \in Int /\ score \in Int
        BY <1>3, <1>4, <3>1
      <4>2. c.anchor - score <= tol
        BY <2>1 DEF joins
      <4>3. V(i) = score
        BY <3>3 DEF score
      <4> QED
        BY <3>1, <4>1, <4>2, <4>3
    <3> QED
      BY <1>1, <3>2, <3>3
  <2>2. CASE ~joins
    <3>1. d.index = c.index + 1 /\ d.anchor = score
      BY <1>2, <2>2
    <3>2. i = n + 1
      BY <1>1, <1>3, <1>10, <1>11, <3>1
    <3> QED
      BY <1>4, <1>8, <3>1, <3>2 DEF score
  <2> QED
    BY <2>1, <2>2
<1>12. ASSUME NEW i \in 1 .. n + 1, NEW j \in 1 .. n + 1, i <= j PROVE l(i) <= l(j)
  <2>1. CASE j = n + 1
    BY <1>1, <1>7, <1>9, <1>10, <2>1
  <2>2. CASE j \in 1 .. n
    <3>1. i \in 1 .. n
      BY <1>1, <1>12, <2>2
    <3> QED
      BY <1>3, <1>6, <1>12, <2>2, <3>1
  <2> QED
    BY <1>1, <2>1, <2>2
<1>13. ASSUME NEW i \in 1 .. n + 1, NEW j \in 1 .. n + 1, l(i) = l(j)
       PROVE  V(i) - V(j) <= tol
  <2>1. V(i) \in Int /\ V(j) \in Int /\ d.anchor \in Int
    BY <1>1, <1>4, <1>9 DEF score
  <2>2. CASE l(i) = d.index
    <3>1. V(i) <= d.anchor /\ d.anchor - V(j) <= tol
      BY <1>11, <1>13, <2>2
    <3> QED
      BY <1>8, <2>1, <3>1
  <2>3. CASE l(i) # d.index
    <3>1. i \in 1 .. n /\ j \in 1 .. n
      BY <1>1, <1>7, <1>13, <2>3
    <3> QED
      BY <1>3, <1>6, <1>13, <3>1
  <2> QED
    BY <2>2, <2>3
<1>14. ASSUME NEW i \in 1 .. n, V(i) = V(n + 1) PROVE l(i) = l(n + 1)
  <2>1. n \in 1 .. n /\ n > 0
    OBVIOUS
  <2>2. V(i) = score /\ V(n) = score
    BY <1>4, <1>14, <2>1 DEF score
  <2>3. k(i) = k(n) /\ k(n) = c.index
    BY <1>3, <2>1, <2>2
  <2>4. joins
    BY <1>3, <2>1, <2>2, <2>3 DEF joins
  <2>5. d.index = c.index
    BY <1>2, <2>4
  <2> QED
    BY <1>6, <1>7, <2>3, <2>5
<1>15. \A i, j \in 1 .. n + 1 : V(i) = V(j) => l(i) = l(j)
  <2> SUFFICES ASSUME NEW i \in 1 .. n + 1, NEW j \in 1 .. n + 1, V(i) = V(j) PROVE l(i) = l(j)
    OBVIOUS
  <2>1. CASE i \in 1 .. n /\ j \in 1 .. n
    BY <1>3, <1>6, <2>1
  <2>2. CASE i = n + 1 \/ j = n + 1
    BY <1>1, <1>14, <2>2
  <2> QED
    BY <1>1, <2>1, <2>2
<1>16. \A i \in 1 .. n + 1 : l(i) \in Nat /\ l(i) <= d.index
  BY <1>1, <1>7, <1>9, <1>10
<1>17. Grouped(objective, b, n + 1, d)
  BY <1>5, <1>7, <1>9, <1>11, <1>12, <1>13, <1>15, <1>16 DEF Grouped, V, l, tol
<1> QED
  BY <1>17 DEF d

\* Cohorts() goes through the results like that.
LEMMA CohortsAreGrouped ==
    ASSUME NEW objective, objective.tolerance \in Nat, NEW R,
           Descending(objective, BestFirst(objective, R))
    PROVE  LET b == BestFirst(objective, R)
           IN  \E c : /\ c.of = Cohorts(objective, R)
                      /\ Grouped(objective, b, Len(b), c)
<1> DEFINE b == BestFirst(objective, R)
           N == Len(b)
           E == {n \in Nat : \E g : CohortsUpTo(objective, b, n, g)}
<1>1. N \in Nat /\ DOMAIN b = 1 .. N
  BY DEF Descending
<1>0. Descending(objective, b)
  OBVIOUS
<1> HIDE DEF b, N
<1>2. 0 \in E
  <2>1. \A t \in SUBSET (1 .. 0) : t = {}
    OBVIOUS
  <2>2. CohortsUpTo(objective, b, 0, [t \in SUBSET (1 .. 0) |-> NoCohort])
    BY <2>1 DEF CohortsUpTo
  <2> QED
    BY <2>2
<1>3. ASSUME NEW n \in Nat, n \in E PROVE n + 1 \in E
  <2>1. PICK g : CohortsUpTo(objective, b, n, g)
    BY <1>3
  <2> DEFINE h == [t \in SUBSET (1 .. n + 1) |->
                      IF n + 1 \in t THEN WithResult(objective, g[t \ {n + 1}], b[n + 1])
                      ELSE g[t]]
  <2>2. ASSUME NEW t \in SUBSET (1 .. n + 1)
        PROVE  h[t] = IF t = {} THEN NoCohort
                      ELSE WithResult(objective, h[t \ {Max(t)}], b[Max(t)])
    <3>1. CASE n + 1 \in t
      <4>1. Max(t) = n + 1 /\ t # {}
        BY <3>1, LastOne
      <4>2. h[t \ {n + 1}] = g[t \ {n + 1}]
        OBVIOUS
      <4>3. h[t] = WithResult(objective, g[t \ {n + 1}], b[n + 1])
        BY <3>1
      <4> HIDE DEF h
      <4> QED
        BY <4>1, <4>2, <4>3
    <3>2. CASE n + 1 \notin t
      <4>1. t \in SUBSET (1 .. n) /\ t \ {Max(t)} \in SUBSET (1 .. n)
        BY <3>2, LastOne
      <4>2. h[t] = g[t] /\ h[t \ {Max(t)}] = g[t \ {Max(t)}]
        BY <3>2
      <4>3. g[t] = IF t = {} THEN NoCohort
                   ELSE WithResult(objective, g[t \ {Max(t)}], b[Max(t)])
        BY <2>1, <4>1 DEF CohortsUpTo
      <4> HIDE DEF h
      <4> QED
        BY <4>2, <4>3
    <3> QED
      BY <3>1, <3>2
  <2>3. h = [t \in SUBSET (1 .. n + 1) |-> h[t]]
    OBVIOUS
  <2> HIDE DEF h
  <2>4. CohortsUpTo(objective, b, n + 1, h)
    BY <2>2, <2>3 DEF CohortsUpTo
  <2> QED
    BY <2>4
<1> HIDE DEF E
<1>4. N \in E
  BY <1>1, <1>2, <1>3, Steps
<1> DEFINE g == CHOOSE j : CohortsUpTo(objective, b, N, j)
<1>5. CohortsUpTo(objective, b, N, g)
  BY <1>4 DEF E
<1>6. Cohorts(objective, R) = g[1 .. N].of
  BY <1>1 DEF Cohorts, FoldLeft, MapThenFoldSet, CohortsUpTo, WithResult, b
<1> HIDE DEF g
<1> DEFINE F == {n \in Nat : n <= N => Grouped(objective, b, n, g[1 .. n])}
<1>7. 0 \in F
  <2>1. 1 .. 0 = {} /\ {} \in SUBSET (1 .. N)
    OBVIOUS
  <2>2. g[1 .. 0] = NoCohort
    BY <1>5, <2>1 DEF CohortsUpTo
  <2>3. NoCohort.index = 0 /\ DOMAIN NoCohort.of = {}
    BY DEF NoCohort
  <2>4. Grouped(objective, b, 0, NoCohort)
    BY <2>1, <2>3 DEF Grouped
  <2> QED
    BY <2>2, <2>4
<1>8. ASSUME NEW n \in Nat, n \in F PROVE n + 1 \in F
  <2>1. SUFFICES ASSUME n + 1 <= N PROVE Grouped(objective, b, n + 1, g[1 .. n + 1])
    OBVIOUS
  <2>2. Grouped(objective, b, n, g[1 .. n]) /\ n + 1 \in DOMAIN b
    BY <1>1, <1>8, <2>1
  <2>3. /\ 1 .. n + 1 \in SUBSET (1 .. N) /\ 1 .. n + 1 # {}
        /\ Max(1 .. n + 1) = n + 1 /\ (1 .. n + 1) \ {n + 1} = 1 .. n
    BY <1>1, <2>1, LastOne
  <2>4. g[1 .. n + 1] = WithResult(objective, g[1 .. n], b[n + 1])
    BY <1>5, <2>3 DEF CohortsUpTo
  <2> QED
    BY <1>0, <2>2, <2>4, GroupedNext
<1> HIDE DEF F
<1>9. N \in F
  BY <1>1, <1>7, <1>8, Steps
<1>10. Grouped(objective, b, N, g[1 .. N])
  BY <1>1, <1>9 DEF F
<1> QED
  BY <1>6, <1>10 DEF N, b

\* Who is not behind another has no higher cohort, and a lower one if ahead by
\* more than the tolerance.
LEMMA CohortsFollowScores ==
    ASSUME NEW objective, objective.tolerance \in Nat, NEW R, IsFiniteSet(R), Listed(R),
           \A r \in R : Score(objective, r) \in Int
    PROVE  LET k == Cohorts(objective, R)
           IN  /\ \A r \in R : k[r] \in Nat
               /\ \A q, r \in R : Score(objective, q) >= Score(objective, r) => k[q] <= k[r]
               /\ \A q, r \in R :
                      Score(objective, q) > Score(objective, r) + objective.tolerance
                          => k[q] < k[r]
<1> DEFINE b == BestFirst(objective, R)
           before == {p \in R \X R : Better(objective, p[1], p[2])}
           k == Cohorts(objective, R)
           N == Len(b)
           V(r) == Score(objective, r)
           tol == objective.tolerance
<1>0. tol \in Nat /\ \A r \in R : V(r) \in Int
  OBVIOUS
<1>1. Ordering(b, R, before)
  BY BestFirstOrders
<1> HIDE DEF b
<1>2. /\ DOMAIN b = 1 .. N /\ N \in Nat
      /\ \A i \in 1 .. N : b[i] \in R
      /\ \A r \in R : \E i \in 1 .. N : b[i] = r
      /\ \A i, j \in 1 .. N : i < j => Better(objective, b[i], b[j])
  <2>1. b \in Seq(R) /\ DOMAIN b = 1 .. N /\ N \in Nat
    BY <1>1, LenProperties DEF Ordering
  <2>2. \A i \in 1 .. N : b[i] \in R
    BY <2>1, ElementOfSeq
  <2> QED
    BY <1>1, <2>1, <2>2 DEF Ordering
<1> HIDE DEF N, before
<1>3. Descending(objective, b)
  <2>1. ASSUME NEW i \in 1 .. N, NEW j \in 1 .. N, i < j
        PROVE  V(b[i]) >= V(b[j]) /\ b[i] # b[j]
    <3>1. V(b[i]) \in Int /\ V(b[j]) \in Int /\ b[i] \in R
      BY <1>0, <1>2
    <3>2. V(b[i]) > V(b[j]) \/ (V(b[i]) = V(b[j]) /\ Precedes(CandidateOf(b[i]), CandidateOf(b[j])))
      BY <1>2, <2>1 DEF Better
    <3>3. ~Precedes(CandidateOf(b[i]), CandidateOf(b[i]))
      BY <3>1, PrecedesOrders
    <3> HIDE DEF V
    <3> QED
      BY <3>1, <3>2, <3>3
  <2>2. \A i, j \in 1 .. N : b[i] = b[j] => i = j
    <3> SUFFICES ASSUME NEW i \in 1 .. N, NEW j \in 1 .. N, b[i] = b[j], i # j PROVE FALSE
      OBVIOUS
    <3>1. i < j \/ j < i
      BY <1>2
    <3> QED
      BY <2>1, <3>1
  <2> QED
    BY <1>0, <1>2, <2>1, <2>2 DEF Descending, N
<1>4. PICK c : c.of = k /\ Grouped(objective, b, N, c)
  BY <1>3, CohortsAreGrouped DEF b, N
<1>5. /\ \A i \in 1 .. N : k[b[i]] \in Nat
      /\ \A i, j \in 1 .. N : i <= j => k[b[i]] <= k[b[j]]
      /\ \A i, j \in 1 .. N : k[b[i]] = k[b[j]] => V(b[i]) - V(b[j]) <= tol
      /\ \A i, j \in 1 .. N : V(b[i]) = V(b[j]) => k[b[i]] = k[b[j]]
  BY <1>4 DEF Grouped
<1> HIDE DEF V, k, tol
<1>6. \A r \in R : k[r] \in Nat
  BY <1>2, <1>5
<1>7. ASSUME NEW q \in R, NEW r \in R, V(q) >= V(r) PROVE k[q] <= k[r]
  <2>1. PICK i \in 1 .. N, j \in 1 .. N : b[i] = q /\ b[j] = r
    BY <1>2
  <2>2. i \in Nat /\ j \in Nat /\ (i <= j \/ j < i)
    BY <1>2
  <2>3. CASE i <= j
    BY <1>5, <2>1, <2>3
  <2>4. CASE j < i
    <3>1. V(r) >= V(q)
      BY <1>3, <1>2, <2>1, <2>4 DEF Descending, V
    <3>2. V(q) = V(r)
      BY <1>0, <1>7, <3>1
    <3>3. k[q] = k[r]
      BY <1>5, <2>1, <3>2
    <3> QED
      BY <1>6, <3>3
  <2> QED
    BY <2>2, <2>3, <2>4
<1>8. ASSUME NEW q \in R, NEW r \in R, V(q) > V(r) + tol PROVE k[q] < k[r]
  <2>1. V(q) \in Int /\ V(r) \in Int /\ k[q] \in Nat /\ k[r] \in Nat
    BY <1>0, <1>6
  <2>2. k[q] <= k[r]
    BY <1>0, <1>7, <1>8, <2>1
  <2>3. k[q] # k[r]
    <3>1. PICK i \in 1 .. N, j \in 1 .. N : b[i] = q /\ b[j] = r
      BY <1>2
    <3>2. k[q] = k[r] => V(q) - V(r) <= tol
      BY <1>5, <3>1
    <3> QED
      BY <1>0, <1>8, <2>1, <3>2
  <2> QED
    BY <2>1, <2>2, <2>3
<1> QED
  BY <1>6, <1>7, <1>8 DEF k, V, tol
\* Keys that differ differ at a first place, which decides between them.
LEMMA LexicographicOrders ==
    ASSUME NEW n \in Nat
    PROVE  /\ \A x \in [1 .. n -> Nat] : ~Lexicographic(x, x)
           /\ \A x, y, z \in [1 .. n -> Nat] :
                  Lexicographic(x, y) /\ Lexicographic(y, z) => Lexicographic(x, z)
           /\ \A x, y \in [1 .. n -> Nat] : x # y => Lexicographic(x, y) \/ Lexicographic(y, x)
           /\ \A x, y \in [1 .. n -> Nat] :
                  (\A i \in 1 .. n : x[i] <= y[i]) /\ x # y => Lexicographic(x, y)
<1> DEFINE X == [1 .. n -> Nat]
<1>1. \A x \in X : DOMAIN x = 1 .. n /\ \A i \in 1 .. n : x[i] \in Nat
  OBVIOUS
<1>2. ASSUME NEW x \in X, NEW y \in X, x # y
      PROVE  \E i \in 1 .. n : x[i] # y[i] /\ \A j \in 1 .. i - 1 : x[j] = y[j]
  <2> DEFINE t == {i \in 1 .. n : x[i] # y[i]}
  <2>1. t \in SUBSET Nat /\ t # {}
    BY <1>2
  <2>2. Min(t) \in t /\ \A i \in t : Min(t) <= i
    BY <2>1, Smallest
  <2> DEFINE m == Min(t)
  <2> HIDE DEF m
  <2>3. m \in 1 .. n /\ x[m] # y[m] /\ \A i \in 1 .. n : x[i] # y[i] => m <= i
    BY <2>2 DEF m
  <2>4. \A j \in 1 .. m - 1 : x[j] = y[j]
    BY <2>3
  <2> QED
    BY <2>3, <2>4
<1>3. \A x \in X : ~Lexicographic(x, x)
  BY <1>1 DEF Lexicographic
<1>4. ASSUME NEW x \in X, NEW y \in X, NEW z \in X, Lexicographic(x, y), Lexicographic(y, z)
      PROVE  Lexicographic(x, z)
  <2>1. PICK i \in 1 .. n : x[i] < y[i] /\ \A j \in 1 .. i - 1 : x[j] = y[j]
    BY <1>1, <1>4 DEF Lexicographic
  <2>2. PICK k \in 1 .. n : y[k] < z[k] /\ \A j \in 1 .. k - 1 : y[j] = z[j]
    BY <1>1, <1>4 DEF Lexicographic
  <2>3. CASE i <= k
    <3>1. x[i] < z[i]
      <4>1. y[i] <= z[i]
        BY <1>1, <2>2, <2>3
      <4> QED
        BY <1>1, <2>1, <4>1
    <3>2. \A j \in 1 .. i - 1 : x[j] = z[j]
      BY <2>1, <2>2, <2>3
    <3> QED
      BY <1>1, <3>1, <3>2 DEF Lexicographic
  <2>4. CASE k < i
    <3>1. x[k] < z[k]
      BY <2>1, <2>2, <2>4
    <3>2. \A j \in 1 .. k - 1 : x[j] = z[j]
      BY <2>1, <2>2, <2>4
    <3> QED
      BY <1>1, <3>1, <3>2 DEF Lexicographic
  <2> QED
    BY <2>3, <2>4
<1>5. ASSUME NEW x \in X, NEW y \in X, x # y PROVE Lexicographic(x, y) \/ Lexicographic(y, x)
  <2>1. PICK i \in 1 .. n : x[i] # y[i] /\ \A j \in 1 .. i - 1 : x[j] = y[j]
    BY <1>2, <1>5
  <2>2. x[i] < y[i] \/ y[i] < x[i]
    BY <1>1, <2>1
  <2> QED
    BY <1>1, <2>1, <2>2 DEF Lexicographic
<1>6. ASSUME NEW x \in X, NEW y \in X, \A i \in 1 .. n : x[i] <= y[i], x # y
      PROVE  Lexicographic(x, y)
  <2>1. PICK i \in 1 .. n : x[i] # y[i] /\ \A j \in 1 .. i - 1 : x[j] = y[j]
    BY <1>2, <1>6
  <2>2. x[i] < y[i]
    BY <1>1, <1>6, <2>1
  <2> QED
    BY <1>1, <2>1, <2>2 DEF Lexicographic
<1> QED
  BY <1>3, <1>4, <1>5, <1>6

\* The order in which results are ranked by their keys.
Ahead(keys, q, r) ==
    \/ Lexicographic(keys[q], keys[r])
    \/ keys[q] = keys[r] /\ Precedes(CandidateOf(q), CandidateOf(r))

\* Every result has its rank: by its key, and among equals by its candidate.
LEMMA RankedOrders ==
    ASSUME NEW R, IsFiniteSet(R), Listed(R), NEW n \in Nat, NEW keys,
           \A r \in R : keys[r] \in [1 .. n -> Nat]
    PROVE  Ordering(Ranked(R, keys), R, {p \in R \X R : Ahead(keys, p[1], p[2])})
<1> DEFINE before == {p \in R \X R : Ahead(keys, p[1], p[2])}
<1>1. \A q, r \in R : <<q, r>> \in before <=> Ahead(keys, q, r)
  OBVIOUS
<1> HIDE DEF before
<1>2. \A x \in R : <<x, x>> \notin before
  BY <1>1, PrecedesOrders, LexicographicOrders DEF Ahead
<1>3. ASSUME NEW x \in R, NEW y \in R, NEW z \in R, <<x, y>> \in before, <<y, z>> \in before
      PROVE  <<x, z>> \in before
  <2>1. Ahead(keys, x, y) /\ Ahead(keys, y, z)
    BY <1>1, <1>3
  <2>2. Lexicographic(keys[x], keys[y]) /\ Lexicographic(keys[y], keys[z])
            => Lexicographic(keys[x], keys[z])
    BY LexicographicOrders
  <2>3. Precedes(CandidateOf(x), CandidateOf(y)) /\ Precedes(CandidateOf(y), CandidateOf(z))
            => Precedes(CandidateOf(x), CandidateOf(z))
    BY PrecedesOrders
  <2>4. Ahead(keys, x, z)
    BY <2>1, <2>2, <2>3 DEF Ahead
  <2> QED
    BY <1>1, <2>4
<1>4. ASSUME NEW x \in R, NEW y \in R, x # y PROVE <<x, y>> \in before \/ <<y, x>> \in before
  <2>1. \/ keys[x] = keys[y]
        \/ Lexicographic(keys[x], keys[y]) \/ Lexicographic(keys[y], keys[x])
    BY LexicographicOrders
  <2>2. Precedes(CandidateOf(x), CandidateOf(y)) \/ Precedes(CandidateOf(y), CandidateOf(x))
    BY <1>4, PrecedesOrders
  <2>3. Ahead(keys, x, y) \/ Ahead(keys, y, x)
    BY <2>1, <2>2 DEF Ahead
  <2> QED
    BY <1>1, <2>3
<1>5. Strict(R, before)
  BY <1>2, <1>3, <1>4 DEF Strict
<1>6. Ordering(Sorted(R, before), R, before)
  BY <1>5, SortedOrders
<1>7. Ranked(R, keys) = Sorted(R, before)
  BY DEF Ranked, Ahead, before
<1> QED
  BY <1>6, <1>7 DEF before
\* What is assumed of a trial.
Trying(policy, results) ==
    LET objectives == policy.objectives
    IN  /\ Comparable(policy, results)
        /\ objectives \in Seq(ToSet(objectives))
        /\ \A o \in ToSet(objectives) : o.tolerance \in Nat
        /\ results # {} /\ IsFiniteSet(results)
        /\ \A r \in results :
               /\ CandidateOf(r) \in ToSet(Candidates)
               /\ \A m \in DOMAIN r.body.metrics : r.body.metrics[m].value \in Int

\* Who qualifies has a value for every objective.
LEMMA QualifiedScores ==
    ASSUME NEW policy, NEW results, Trying(policy, results)
    PROVE  LET R == Qualified(policy, results)
               o == policy.objectives
           IN  /\ R \in SUBSET results /\ IsFiniteSet(R) /\ Listed(R)
               /\ Len(o) \in Nat /\ DOMAIN o = 1 .. Len(o)
               /\ \A i \in 1 .. Len(o) :
                      o[i].tolerance \in Nat /\ \A r \in R : Score(o[i], r) \in Int
               /\ \A x \in ToSet(o) : \E i \in 1 .. Len(o) : o[i] = x
<1> DEFINE R == Qualified(policy, results)
           o == policy.objectives
           N == Len(o)
<1>1. R \in SUBSET results
  BY DEF Qualified
<1>2. IsFiniteSet(R)
  BY <1>1, FS_Subset DEF Trying
<1>3. Listed(R)
  BY <1>1 DEF Trying, Comparable, Listed
<1>4. N \in Nat /\ DOMAIN o = 1 .. N
  BY LenProperties DEF Trying
<1>5. \A i \in 1 .. N : o[i] \in ToSet(o)
  BY <1>4 DEF ToSet
<1>6. ASSUME NEW i \in 1 .. N, NEW r \in R PROVE Score(o[i], r) \in Int
  <2>1. Failures(policy, r) = {}
    BY DEF Qualified
  <2>2. {<<"missing_objective", p.metric>> :
             p \in {x \in ToSet(policy.objectives) : x.metric \notin DOMAIN r.body.metrics}} = {}
    BY <2>1 DEF Failures
  <2>3. o[i].metric \in DOMAIN r.body.metrics
    BY <1>5, <2>2
  <2>4. r.body.metrics[o[i].metric].value \in Int
    BY <1>1, <2>3 DEF Trying
  <2> QED
    BY <2>4 DEF Score
<1>7. \A x \in ToSet(o) : \E i \in 1 .. N : o[i] = x
  BY <1>4 DEF ToSet
<1>8. \A i \in 1 .. N : o[i].tolerance \in Nat
  BY <1>5 DEF Trying
<1> QED
  BY <1>1, <1>2, <1>3, <1>4, <1>6, <1>7, <1>8

\* q is nowhere behind r and somewhere ahead by more than the tolerance.
Beats(policy, q, r) ==
    /\ \A o \in ToSet(policy.objectives) : Score(o, q) >= Score(o, r)
    /\ \E o \in ToSet(policy.objectives) : Score(o, q) > Score(o, r) + o.tolerance

\* Who beats another dominates it by the keys of the cohorts.
LEMMA BeatenIsDominated ==
    ASSUME NEW policy, NEW results, Trying(policy, results)
    PROVE  LET R == Qualified(policy, results)
               keys == Keys(policy, R)
           IN  /\ \A r \in R : keys[r] \in [1 .. Len(policy.objectives) -> Nat]
               /\ \A q, r \in R : Beats(policy, q, r) => Dominates(q, r, keys)
<1> DEFINE R == Qualified(policy, results)
           o == policy.objectives
           N == Len(o)
           keys == Keys(policy, R)
           k(i) == Cohorts(o[i], R)
<1>1. /\ R \in SUBSET results /\ IsFiniteSet(R) /\ Listed(R)
      /\ N \in Nat /\ DOMAIN o = 1 .. N
      /\ \A i \in 1 .. N :
             o[i].tolerance \in Nat /\ \A r \in R : Score(o[i], r) \in Int
      /\ \A x \in ToSet(o) : \E i \in 1 .. N : o[i] = x
      /\ \A i \in 1 .. N : o[i] \in ToSet(o)
  BY QualifiedScores DEF ToSet
<1>2. \A r \in R : keys[r] = [i \in 1 .. N |-> k(i)[r]]
  BY <1>1 DEF Keys
<1>3. ASSUME NEW i \in 1 .. N
      PROVE  /\ \A r \in R : k(i)[r] \in Nat
             /\ \A q, r \in R : Score(o[i], q) >= Score(o[i], r) => k(i)[q] <= k(i)[r]
             /\ \A q, r \in R :
                    Score(o[i], q) > Score(o[i], r) + o[i].tolerance => k(i)[q] < k(i)[r]
  <2> DEFINE objective == o[i]
  <2>1. objective.tolerance \in Nat /\ \A r \in R : Score(objective, r) \in Int
    BY <1>1
  <2>2. IsFiniteSet(R) /\ Listed(R)
    BY <1>1
  <2> HIDE DEF R, objective
  <2>3. LET c == Cohorts(objective, R)
        IN  /\ \A r \in R : c[r] \in Nat
            /\ \A q, r \in R : Score(objective, q) >= Score(objective, r) => c[q] <= c[r]
            /\ \A q, r \in R :
                   Score(objective, q) > Score(objective, r) + objective.tolerance => c[q] < c[r]
    BY <2>1, <2>2, CohortsFollowScores
  <2> QED
    BY <2>3 DEF objective
<1> HIDE DEF keys, k, R
<1>4. \A r \in R : keys[r] \in [1 .. N -> Nat]
  BY <1>2, <1>3
<1>5. ASSUME NEW q \in R, NEW r \in R, Beats(policy, q, r) PROVE Dominates(q, r, keys)
  <2>1. \A i \in 1 .. N : keys[q][i] = k(i)[q] /\ keys[r][i] = k(i)[r]
    BY <1>2
  <2>2. \A i \in 1 .. N : keys[q][i] <= keys[r][i]
    BY <1>1, <1>3, <1>5, <2>1 DEF Beats
  <2>3. \E i \in 1 .. N : keys[q][i] < keys[r][i]
    <3>1. PICK x \in ToSet(o) : Score(x, q) > Score(x, r) + x.tolerance
      BY <1>5 DEF Beats
    <3>2. PICK i \in 1 .. N : o[i] = x
      BY <1>1
    <3>3. k(i)[q] < k(i)[r]
      BY <1>3, <3>1, <3>2
    <3> QED
      BY <2>1, <3>3
  <2>4. DOMAIN keys[q] = 1 .. N
    BY <1>4
  <2> QED
    BY <2>2, <2>3, <2>4 DEF Dominates
<1> QED
  BY <1>4, <1>5 DEF keys, R
\* Who is ranked first, and who is on the Pareto front, nobody beats.
LEMMA NobodyBeats ==
    ASSUME NEW policy, NEW results, Trying(policy, results)
    PROVE  LET R == Qualified(policy, results)
               keys == Keys(policy, R)
               ranked == Ranked(R, keys)
           IN  /\ DOMAIN ranked = 1 .. Cardinality(R) /\ Cardinality(R) \in Nat
               /\ \A i \in DOMAIN ranked : ranked[i] \in R
               /\ \A r \in R : \E i \in DOMAIN ranked : ranked[i] = r
               /\ 1 \in DOMAIN ranked => ~\E q \in R : Beats(policy, q, ranked[1])
               /\ \A r \in Pareto(R, keys) : ~\E q \in R : Beats(policy, q, r)
<1> DEFINE R == Qualified(policy, results)
           keys == Keys(policy, R)
           ranked == Ranked(R, keys)
           N == Len(policy.objectives)
           before == {p \in R \X R : Ahead(keys, p[1], p[2])}
<1>1. R \in SUBSET results /\ IsFiniteSet(R) /\ Listed(R) /\ N \in Nat
  BY QualifiedScores
<1>2. /\ \A r \in R : keys[r] \in [1 .. N -> Nat]
      /\ \A q, r \in R : Beats(policy, q, r) => Dominates(q, r, keys)
  BY BeatenIsDominated
<1> HIDE DEF R, keys, N
<1>3. Ordering(ranked, R, before)
  BY <1>1, <1>2, RankedOrders
<1>4. Cardinality(R) \in Nat
  BY <1>1, FS_CardinalityType
<1> HIDE DEF ranked
<1>5. /\ DOMAIN ranked = 1 .. Cardinality(R)
      /\ \A i \in DOMAIN ranked : ranked[i] \in R
      /\ \A r \in R : \E i \in DOMAIN ranked : ranked[i] = r
      /\ \A i, j \in DOMAIN ranked : i < j => Ahead(keys, ranked[i], ranked[j])
  <2>1. ranked \in Seq(R) /\ DOMAIN ranked = 1 .. Cardinality(R)
    BY <1>3 DEF Ordering
  <2>2. \A i \in DOMAIN ranked : ranked[i] \in R
    BY <2>1, LenProperties, ElementOfSeq
  <2>3. \A i, j \in DOMAIN ranked : i < j => <<ranked[i], ranked[j]>> \in before
    BY <1>3 DEF Ordering
  <2> QED
    BY <1>3, <2>1, <2>2, <2>3 DEF Ordering
<1>6. ASSUME NEW q \in R, NEW r \in R, Beats(policy, q, r)
      PROVE  /\ keys[q] # keys[r] /\ keys[q] \in [1 .. N -> Nat] /\ keys[r] \in [1 .. N -> Nat]
             /\ Lexicographic(keys[q], keys[r])
  <2>1. keys[q] \in [1 .. N -> Nat] /\ keys[r] \in [1 .. N -> Nat] /\ Dominates(q, r, keys)
    BY <1>2, <1>6
  <2>2. \A i \in 1 .. N : keys[q][i] <= keys[r][i]
    BY <2>1 DEF Dominates
  <2>3. keys[q] # keys[r]
    <3>1. PICK i \in 1 .. N : keys[q][i] < keys[r][i]
      BY <2>1 DEF Dominates
    <3>2. keys[q][i] \in Nat /\ keys[r][i] \in Nat
      BY <2>1
    <3>3. keys[q][i] # keys[r][i]
      BY <3>1, <3>2
    <3> QED
      BY <3>3
  <2>4. \A x, y \in [1 .. N -> Nat] :
            (\A i \in 1 .. N : x[i] <= y[i]) /\ x # y => Lexicographic(x, y)
    BY <1>1, LexicographicOrders
  <2>5. Lexicographic(keys[q], keys[r])
    BY <2>1, <2>2, <2>3, <2>4
  <2> QED
    BY <2>1, <2>3, <2>5
<1>7. ASSUME 1 \in DOMAIN ranked, NEW q \in R, Beats(policy, q, ranked[1]) PROVE FALSE
  <2> DEFINE r == ranked[1]
  <2>1. r \in R
    BY <1>5, <1>7
  <2> HIDE DEF r
  <2>2. /\ keys[q] # keys[r] /\ keys[q] \in [1 .. N -> Nat] /\ keys[r] \in [1 .. N -> Nat]
        /\ Lexicographic(keys[q], keys[r])
    BY <1>6, <1>7, <2>1 DEF r
  <2>3. PICK j \in DOMAIN ranked : ranked[j] = q
    BY <1>5
  <2>4. j # 1
    BY <2>2, <2>3 DEF r
  <2>5. 1 < j
    BY <1>4, <1>5, <2>4
  <2>6. Ahead(keys, r, q)
    BY <1>5, <1>7, <2>3, <2>5 DEF r
  <2>7. Lexicographic(keys[r], keys[q])
    BY <2>2, <2>6 DEF Ahead
  <2> QED
    BY <1>1, <2>2, <2>7, LexicographicOrders
<1>8. ASSUME NEW r \in Pareto(R, keys), NEW q \in R, Beats(policy, q, r) PROVE FALSE
  BY <1>2, <1>8 DEF Pareto
<1> QED
  BY <1>4, <1>5, <1>7, <1>8 DEF ranked, keys, R

\* What is recommended is one that nobody beats, and its record accepts it.
LEMMA AdviceHolds ==
    ASSUME NEW policy, NEW results, Trying(policy, results)
    PROVE  LET R == Qualified(policy, results)
               advice == Recommended(policy, results)
               forward == advice.selected \cup advice.alternatives
           IN  /\ (advice.selected = {}) = (R = {}) /\ ValidRecommendation(advice)
               /\ \A r \in R : CandidateOf(r) \in forward => ~\E q \in R : Beats(policy, q, r)
<1> DEFINE R == Qualified(policy, results)
           keys == Keys(policy, R)
           ranked == Ranked(R, keys)
           pareto == Pareto(R, keys)
           selected == {ranked[i] : i \in {1} \cap DOMAIN ranked}
           advice == Recommended(policy, results)
           forward == advice.selected \cup advice.alternatives
<1>1. R \in SUBSET results /\ IsFiniteSet(R)
  BY QualifiedScores
<1>2. /\ DOMAIN ranked = 1 .. Cardinality(R) /\ Cardinality(R) \in Nat
      /\ \A i \in DOMAIN ranked : ranked[i] \in R
      /\ \A r \in R : \E i \in DOMAIN ranked : ranked[i] = r
      /\ 1 \in DOMAIN ranked => ~\E q \in R : Beats(policy, q, ranked[1])
      /\ \A r \in pareto : ~\E q \in R : Beats(policy, q, r)
  BY NobodyBeats
<1>3. results # {} /\ \A q, r \in results : CandidateOf(q) = CandidateOf(r) => q = r
  BY DEF Trying, Comparable
<1>4. \A r \in R : Failures(policy, r) = {}
  BY DEF Qualified
<1>5. /\ advice.ranking = [i \in DOMAIN ranked |-> CandidateOf(ranked[i])]
      /\ advice.selected = {CandidateOf(r) : r \in selected}
      /\ advice.alternatives = {CandidateOf(r) : r \in pareto \ selected}
      /\ advice.assessments = {[candidate |-> CandidateOf(r), evidence |-> r.body.evidence,
                                failures |-> Failures(policy, r)] : r \in results}
      /\ selected = {} => advice.confidence = "none"
  BY DEF Recommended
<1>6. pareto \in SUBSET R
  BY DEF Pareto
<1> HIDE DEF R, keys, ranked, pareto, advice
<1>7. selected \in SUBSET R /\ \A r \in selected : ~\E q \in R : Beats(policy, q, r)
  BY <1>2
<1>8. (selected = {}) = (R = {})
  <2>1. R = {} => Cardinality(R) = 0
    BY FS_EmptySet
  <2>2. R # {} => Cardinality(R) # 0
    BY <1>1, FS_EmptySet
  <2>3. R = {} => selected = {}
    BY <1>2, <2>1
  <2>4. R # {} => 1 \in DOMAIN ranked
    BY <1>2, <2>2
  <2> QED
    BY <2>3, <2>4
<1>9. ASSUME NEW r \in R, CandidateOf(r) \in forward, NEW q \in R, Beats(policy, q, r) PROVE FALSE
  <2>1. PICK x \in selected \cup pareto : CandidateOf(x) = CandidateOf(r)
    BY <1>5, <1>9
  <2>2. x = r
    BY <1>1, <1>3, <1>6, <1>7, <2>1
  <2> QED
    BY <1>2, <1>7, <1>9, <2>1, <2>2
<1>10. (advice.selected = {}) = (selected = {})
  BY <1>5
<1>11. ValidRecommendation(advice)
  <2> DEFINE placed == ToSet(advice.ranking)
  <2>1. placed = {CandidateOf(r) : r \in R}
    BY <1>2, <1>5 DEF ToSet
  <2>2. advice.assessments # {}
    <3>1. PICK r \in results : TRUE
      BY <1>3
    <3>2. [candidate |-> CandidateOf(r), evidence |-> r.body.evidence,
           failures |-> Failures(policy, r)] \in advice.assessments
      BY <1>5
    <3> QED
      BY <3>2
  <2>3. \A x, y \in advice.assessments : x.candidate = y.candidate => x = y
    BY <1>3, <1>5
  <2>4. placed \subseteq {x.candidate : x \in advice.assessments}
    <3>1. ASSUME NEW r \in R PROVE CandidateOf(r) \in {x.candidate : x \in advice.assessments}
      <4> DEFINE x == [candidate |-> CandidateOf(r), evidence |-> r.body.evidence,
                       failures |-> Failures(policy, r)]
      <4>1. x \in advice.assessments /\ x.candidate = CandidateOf(r)
        BY <1>1, <1>5
      <4> QED
        BY <4>1
    <3> QED
      BY <2>1, <3>1
  <2>5. ASSUME NEW x \in advice.assessments, x.candidate \in placed PROVE x.failures = {}
    <3>1. PICK r \in results : x = [candidate |-> CandidateOf(r), evidence |-> r.body.evidence,
                                    failures |-> Failures(policy, r)]
      BY <1>5
    <3>2. PICK q \in R : CandidateOf(q) = CandidateOf(r)
      BY <2>1, <2>5, <3>1
    <3>3. q = r
      BY <1>1, <1>3, <3>2
    <3> QED
      BY <1>4, <3>1, <3>3
  <2>6. advice.selected = {advice.ranking[i] : i \in {1} \cap DOMAIN advice.ranking}
    <3>1. /\ DOMAIN advice.ranking = DOMAIN ranked
          /\ \A i \in DOMAIN ranked : advice.ranking[i] = CandidateOf(ranked[i])
      BY <1>5
    <3> QED
      BY <1>5, <3>1
  <2>7. advice.alternatives \subseteq placed \ advice.selected
    BY <1>1, <1>3, <1>5, <1>6, <1>7, <2>1
  <2>8. advice.selected = {} => advice.confidence = "none"
    BY <1>5, <1>10
  <2> QED
    BY <2>2, <2>3, <2>4, <2>5, <2>6, <2>7, <2>8 DEF ValidRecommendation
<1> QED
  BY <1>8, <1>9, <1>10, <1>11 DEF R, advice

\* Grouping values within a tolerance puts no beaten candidate forward, whatever
\* the policy, its tolerances and the results (_global_tolerance_cohort_keys).
THEOREM NothingBeatenIsAdvised == EvaluationsSpec => []SelectedUndominated
<1>1. ASSUME NEW t \in WronglyAdvised PROVE FALSE
  <2> DEFINE R == Qualified(t[1], t[2])
             advice == Recommended(t[1], t[2])
             forward == advice.selected \cup advice.alternatives
  <2>1. /\ t \in Trial
        /\ \/ (advice.selected = {}) # (R = {}) \/ ~ValidRecommendation(advice)
           \/ \E r \in R : CandidateOf(r) \in forward /\ Beaten(t[1], r, R)
    BY DEF WronglyAdvised
  <2>2. Trying(t[1], t[2])
    BY <2>1, TrialAssumption DEF Trying
  <2>3. /\ (advice.selected = {}) = (R = {}) /\ ValidRecommendation(advice)
        /\ \A r \in R : CandidateOf(r) \in forward => ~\E q \in R : Beats(t[1], q, r)
    BY <2>2, AdviceHolds
  <2>4. \A r \in R : Beaten(t[1], r, R) <=> \E q \in R : Beats(t[1], q, r)
    BY DEF Beaten, Beats
  <2> HIDE DEF R, advice
  <2> QED
    BY <2>1, <2>3, <2>4
<1>2. SelectedUndominated
  BY <1>1 DEF SelectedUndominated
<1> QED
  BY <1>2, PTL

================================================================================
