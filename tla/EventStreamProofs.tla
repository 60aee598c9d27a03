------------------------- MODULE EventStreamProofs -------------------------
(***************************************************************************)
(* Proofs about EventStream, for every set of processes, keys and bodies   *)
(* and every bound: what append() acknowledged stays, what an unlocked     *)
(* read returns is fresh, and the stream implements the idempotent log of  *)
(* EventLog.                                                               *)
(*                                                                         *)
(* The properties speak of the files; that they hold after the next step   *)
(* depends on what each process has listed.  IInv records it: a listing is *)
(* the chain of an earlier history; an appender past the lock is its       *)
(* holder, its listing is still the whole directory until it links, and    *)
(* the key it is about to link is not in it.                               *)
(***************************************************************************)
EXTENDS EventStream, FiniteSetTheorems, SequenceTheorems, TLAPS

Labels == {"idle", "locking", "listing", "verifying", "linking", "linked"}

Operation == [kind : {"read"}] \cup [kind : {"append"}, request : Request]

Reply == [kind : {"none", "corrupt", "conflict", "io_error"}]
         \cup [kind : {"stored", "view"}, history : Seq(Request)]

\* The history in the directory.
Hist == HistoryOf(events)

TypeOK ==
    /\ Hist \in Seq(Request)
    /\ lock \in Proc \cup {NoProc}
    /\ pc \in [Proc -> Labels]
    /\ op \in [Proc -> Operation]
    /\ DOMAIN seen = Proc
    /\ reply \in [Proc -> Reply]
    /\ acked \subseteq Seq(Request)
    /\ DOMAIN known = Proc

\* The labels between taking and releasing the lock, of an append.
Appending(p) ==
    op[p].kind = "append" /\ pc[p] \in {"listing", "verifying", "linking", "linked"}

Locked == \A p \in Proc :
    /\ Appending(p) => lock = p
    /\ pc[p] \in {"locking", "linking", "linked"} => op[p].kind = "append"

\* S is the directory as it is, or as it was.
Snapshot(S) == \E i \in 0 .. Len(Hist) : S = EventsOf(SubSeq(Hist, 1, i))

Progress(p) ==
    /\ Snapshot(seen[p])
    /\ known[p] \subseteq acked
    /\ pc[p] = "verifying" => known[p] \subseteq PrefixesOf(HistoryOf(seen[p]))
    /\ pc[p] \in {"verifying", "linking"} /\ op[p].kind = "append" => seen[p] = events
    /\ pc[p] = "linking" => Holder(p) = {}
    /\ pc[p] = "linked" => Identity(NewEvent(p)) = Hist /\ Hist # <<>>

IInv ==
    /\ TypeOK
    /\ Locked
    /\ AcknowledgedDurable
    /\ \A p \in Proc : Progress(p)
    /\ ReadsFresh

-----------------------------------------------------------------------------
(* Lemmas about histories                                                  *)

\* The files of a history determine it.
LEMMA HistoryOfEvents ==
    ASSUME NEW h \in Seq(Request)
    PROVE  HistoryOf(EventsOf(h)) = h
<1>1. CASE Len(h) = 0
  <2>1. EventsOf(h) = {} /\ h = <<>>
    BY <1>1 DEF EventsOf
  <2> QED
    BY <2>1 DEF HistoryOf
<1>2. CASE Len(h) # 0
  <2> DEFINE n == Len(h)
             last == EventAt(h, n)
             m == CHOOSE e \in EventsOf(h) : \A f \in EventsOf(h) : f.sequence <= e.sequence
  <2>1. n \in Nat \ {0} /\ n \in 1 .. n
    BY <1>2
  <2>2. last \in EventsOf(h) /\ \A f \in EventsOf(h) : f.sequence <= last.sequence
    <3>1. \A i \in 1 .. n : EventAt(h, i).sequence = i /\ i <= n
      BY DEF EventAt
    <3> QED
      BY <2>1, <3>1 DEF EventsOf
  <2>3. m \in EventsOf(h) /\ \A f \in EventsOf(h) : f.sequence <= m.sequence
    BY <2>2
  <2>4. PICK i \in 1 .. n : m = EventAt(h, i)
    BY <2>3 DEF EventsOf
  <2>5. last.sequence <= m.sequence
    BY <2>2, <2>3
  <2>6. i = n
    <3>1. last.sequence = n /\ EventAt(h, i).sequence = i
      BY DEF EventAt
    <3> HIDE DEF last, m
    <3> QED
      BY <2>1, <2>4, <2>5, <3>1
  <2>7. Identity(m) = Append(SubSeq(h, 1, n - 1), h[n])
    <3> HIDE DEF m, last
    <3>1. m.predecessor = SubSeq(h, 1, n - 1) /\ m.request = h[n]
      BY <2>4, <2>6 DEF EventAt
    <3> QED
      BY <3>1 DEF Identity
  <2>8. Append(SubSeq(h, 1, n - 1), h[n]) = h
    BY <2>1
  <2>9. EventsOf(h) # {}
    BY <2>2
  <2>10. HistoryOf(EventsOf(h)) = Identity(m)
    BY <2>9 DEF HistoryOf
  <2> QED
    BY <2>7, <2>8, <2>10
<1> QED
  BY <1>1, <1>2

\* One request more in the history is one file more.
LEMMA EventsOfAppend ==
    ASSUME NEW h \in Seq(Request), NEW r \in Request
    PROVE  EventsOf(Append(h, r)) =
               EventsOf(h) \cup {[sequence |-> Len(h) + 1, predecessor |-> h, request |-> r]}
<1> DEFINE g == Append(h, r)
<1>1. g \in Seq(Request) /\ Len(g) = Len(h) + 1 /\ g[Len(h) + 1] = r
  OBVIOUS
<1>2. \A i \in 1 .. Len(h) : EventAt(g, i) = EventAt(h, i)
  <2> SUFFICES ASSUME NEW i \in 1 .. Len(h) PROVE EventAt(g, i) = EventAt(h, i)
    OBVIOUS
  <2>1. SubSeq(g, 1, i - 1) = SubSeq(h, 1, i - 1) /\ g[i] = h[i]
    OBVIOUS
  <2> QED
    BY <2>1 DEF EventAt
<1>3. EventAt(g, Len(h) + 1) = [sequence |-> Len(h) + 1, predecessor |-> h, request |-> r]
  <2>1. SubSeq(g, 1, Len(h)) = h
    OBVIOUS
  <2> QED
    BY <1>1, <2>1 DEF EventAt
<1>4. 1 .. Len(g) = (1 .. Len(h)) \cup {Len(h) + 1}
  BY <1>1
<1> HIDE DEF g
<1> QED
  BY <1>2, <1>3, <1>4 DEF EventsOf, g

\* A history has as many files as requests.
LEMMA EventsCount ==
    ASSUME NEW h \in Seq(Request)
    PROVE  IsFiniteSet(EventsOf(h)) /\ Cardinality(EventsOf(h)) = Len(h)
<1> DEFINE f == [i \in 1 .. Len(h) |-> EventAt(h, i)]
<1>1. f \in Bijection(1 .. Len(h), EventsOf(h))
  <2>1. f \in [1 .. Len(h) -> EventsOf(h)]
    BY DEF EventsOf
  <2>2. \A i, j \in 1 .. Len(h) : f[i] = f[j] => i = j
    BY DEF EventAt
  <2>3. \A e \in EventsOf(h) : \E i \in 1 .. Len(h) : f[i] = e
    BY DEF EventsOf
  <2> QED
    BY <2>1, <2>2, <2>3 DEF Bijection, Injection, Surjection, IsInjective
<1>2. IsFiniteSet(1 .. Len(h)) /\ Cardinality(1 .. Len(h)) = Len(h)
  <2>1. Len(h) \in Nat
    OBVIOUS
  <2> HIDE DEF f
  <2> QED
    BY <2>1, FS_Interval
<1> HIDE DEF f
<1> QED
  BY <1>1, <1>2, FS_Bijection DEF ExistsBijection

\* The prefixes of a longer history are those of the shorter one and itself.
LEMMA PrefixesOfAppend ==
    ASSUME NEW h \in Seq(Request), NEW r \in Request
    PROVE  PrefixesOf(Append(h, r)) = PrefixesOf(h) \cup {Append(h, r)}
<1> DEFINE g == Append(h, r)
<1>0. g \in Seq(Request) /\ Len(g) = Len(h) + 1 /\ \A i \in 1 .. Len(h) : g[i] = h[i]
  OBVIOUS
<1>1. \A i \in 1 .. Len(h) : SubSeq(g, 1, i) = SubSeq(h, 1, i)
  BY <1>0
<1>2. SubSeq(g, 1, Len(h) + 1) = g
  BY <1>0
<1>3. 1 .. Len(g) = (1 .. Len(h)) \cup {Len(h) + 1}
  BY <1>0
<1> HIDE DEF g
<1> QED
  BY <1>1, <1>2, <1>3 DEF PrefixesOf, g

\* An earlier history is one of the prefixes, and its files are among the files.
LEMMA Earlier ==
    ASSUME NEW h \in Seq(Request), NEW i \in 0 .. Len(h)
    PROVE  /\ SubSeq(h, 1, i) \in Seq(Request)
           /\ SubSeq(h, 1, i) \in PrefixesOf(h) \cup {<<>>}
           /\ EventsOf(SubSeq(h, 1, i)) \subseteq EventsOf(h)
<1> DEFINE g == SubSeq(h, 1, i)
<1>1. g \in Seq(Request) /\ Len(g) = i
  OBVIOUS
<1>2. g \in PrefixesOf(h) \cup {<<>>}
  BY <1>1 DEF PrefixesOf
<1>3. \A j \in 1 .. i : EventAt(g, j) = EventAt(h, j)
  <2> SUFFICES ASSUME NEW j \in 1 .. i PROVE EventAt(g, j) = EventAt(h, j)
    OBVIOUS
  <2>1. SubSeq(g, 1, j - 1) = SubSeq(h, 1, j - 1) /\ g[j] = h[j]
    OBVIOUS
  <2> QED
    BY <2>1 DEF EventAt
<1>4. EventsOf(g) \subseteq EventsOf(h)
  BY <1>1, <1>3 DEF EventsOf
<1> QED
  BY <1>1, <1>2, <1>4

\* The identity of a file is a prefix of the history it belongs to.
LEMMA IdentityIsPrefix ==
    ASSUME NEW h \in Seq(Request), NEW e \in EventsOf(h)
    PROVE  /\ Identity(e) \in PrefixesOf(h)
           /\ Identity(e) \in Seq(Request)
           /\ \E i \in DOMAIN h : e.request = h[i]
<1>1. PICK i \in 1 .. Len(h) : e = EventAt(h, i)
  BY DEF EventsOf
<1>2. Append(SubSeq(h, 1, i - 1), h[i]) = SubSeq(h, 1, i)
  OBVIOUS
<1>3. SubSeq(h, 1, i) \in Seq(Request)
  OBVIOUS
<1> QED
  BY <1>1, <1>2, <1>3 DEF EventAt, Identity, PrefixesOf
-----------------------------------------------------------------------------
(* Lemmas about the invariant                                              *)

\* A read's answer, process by process.
Fresh(p) ==
    reply[p].kind = "view" =>
        /\ reply[p].history \in PrefixesOf(Hist) \cup {<<>>}
        /\ known[p] \subseteq PrefixesOf(reply[p].history)

\* The directory, and every listing of it, is the chain of a history.
LEMMA Listings ==
    ASSUME IInv, NEW p \in Proc
    PROVE  /\ Hist \in Seq(Request) /\ events = EventsOf(Hist) /\ UniqueKeys(Hist)
           /\ HistoryOf(seen[p]) \in Seq(Request)
           /\ HistoryOf(seen[p]) \in PrefixesOf(Hist) \cup {<<>>}
           /\ seen[p] = EventsOf(HistoryOf(seen[p]))
           /\ seen[p] \subseteq events
<1>1. Hist \in Seq(Request) /\ events = EventsOf(Hist) /\ UniqueKeys(Hist)
  BY DEF IInv, TypeOK, AcknowledgedDurable, IsChain, Hist
<1>2. PICK i \in 0 .. Len(Hist) : seen[p] = EventsOf(SubSeq(Hist, 1, i))
  BY DEF IInv, Progress, Snapshot
<1>3. /\ SubSeq(Hist, 1, i) \in Seq(Request)
      /\ SubSeq(Hist, 1, i) \in PrefixesOf(Hist) \cup {<<>>}
      /\ EventsOf(SubSeq(Hist, 1, i)) \subseteq EventsOf(Hist)
  BY <1>1, Earlier
<1>4. HistoryOf(seen[p]) = SubSeq(Hist, 1, i)
  BY <1>2, <1>3, HistoryOfEvents
<1> QED
  BY <1>1, <1>2, <1>3, <1>4

\* What a step that adds no file must do for IInv to survive it.
LEMMA QuietStep ==
    ASSUME IInv, NEW p \in Proc, TypeOK', Locked', UNCHANGED events,
           acked \subseteq acked', acked' \subseteq PrefixesOf(Hist),
           \A q \in Proc \ {p} :
               /\ pc'[q] = pc[q] /\ op'[q] = op[q] /\ seen'[q] = seen[q]
               /\ known'[q] = known[q] /\ reply'[q] = reply[q],
           Progress(p)', Fresh(p)'
    PROVE  IInv'
<1>1. Hist' = Hist
  BY DEF Hist
<1>2. AcknowledgedDurable'
  BY <1>1 DEF IInv, AcknowledgedDurable, Hist
<1>3. ASSUME NEW q \in Proc, q # p PROVE Progress(q)' /\ Fresh(q)'
  <2>1. Holder(q)' = Holder(q) /\ Identity(NewEvent(q))' = Identity(NewEvent(q))
    BY <1>3 DEF Holder, NewEvent, Identity
  <2>2. Progress(q)'
    BY <1>1, <1>3, <2>1 DEF IInv, Progress, Snapshot
  <2>3. Fresh(q)'
    BY <1>1, <1>3 DEF IInv, ReadsFresh, Fresh, Hist
  <2> QED
    BY <2>2, <2>3
<1>4. \A q \in Proc : Progress(q)' /\ Fresh(q)'
  BY <1>3
<1>5. ReadsFresh'
  BY <1>4 DEF ReadsFresh, Fresh, Hist
<1> QED
  BY <1>2, <1>4, <1>5 DEF IInv

\* An operation that ends with a true answer keeps IInv.
LEMMA FinishStep ==
    ASSUME IInv, NEW p \in Proc, NEW r \in Reply, Finish(p, r),
           UNCHANGED <<events, op, seen, known>>,
           r.kind = "stored" => r.history \in PrefixesOf(Hist),
           r.kind = "view" => /\ r.history \in PrefixesOf(Hist) \cup {<<>>}
                              /\ known[p] \subseteq PrefixesOf(r.history)
    PROVE  IInv'
<1>1. Hist' = Hist
  BY DEF Hist
<1>2. acked \subseteq acked' /\ acked' \subseteq PrefixesOf(Hist) /\ acked' \subseteq Seq(Request)
  BY DEF IInv, TypeOK, AcknowledgedDurable, Finish, Hist, Reply
<1>3. TypeOK'
  BY <1>1, <1>2 DEF IInv, TypeOK, Finish, Labels
<1>4. Locked'
  BY NoProcAssumption DEF IInv, TypeOK, Locked, Appending, Finish
<1>5. Progress(p)'
  BY <1>1, <1>2 DEF IInv, TypeOK, Progress, Snapshot, Finish
<1>6. Fresh(p)'
  BY <1>1 DEF IInv, TypeOK, Fresh, Finish
<1>7. \A q \in Proc \ {p} : pc'[q] = pc[q] /\ reply'[q] = reply[q]
  BY DEF IInv, TypeOK, Finish
<1> QED
  BY <1>2, <1>3, <1>4, <1>5, <1>6, <1>7, QuietStep

\* The link adds exactly one request with a new key to the history.
LEMMA LinkCommits ==
    ASSUME IInv, NEW p \in Proc, Link(p)
    PROVE  /\ op[p].request \in Request
           /\ Hist' = Append(Hist, op[p].request)
           /\ events' = EventsOf(Hist')
           /\ \A i \in DOMAIN Hist : Hist[i].key # op[p].request.key
           /\ Identity(NewEvent(p)) = Hist'
           /\ lock = p
<1> DEFINE r == op[p].request
           h == Append(Hist, r)
<1>1. pc[p] = "linking" /\ op[p].kind = "append" /\ lock = p
  BY DEF Link, IInv, Locked, Appending
<1>2. r \in Request
  BY <1>1 DEF IInv, TypeOK, Operation
<1>3. Hist \in Seq(Request) /\ events = EventsOf(Hist)
  BY Listings
<1>4. seen[p] = events /\ Holder(p) = {}
  BY <1>1 DEF IInv, Progress
<1>5. HistoryOf(seen[p]) = Hist /\ Cardinality(seen[p]) = Len(Hist)
  BY <1>3, <1>4, EventsCount DEF Hist
<1>6. NewEvent(p) = [sequence |-> Len(Hist) + 1, predecessor |-> Hist, request |-> r]
  BY <1>5 DEF NewEvent
<1>7. events' = EventsOf(h)
  BY <1>2, <1>3, <1>6, EventsOfAppend DEF Link
<1>8. h \in Seq(Request)
  BY <1>2, <1>3
<1>9. Hist' = h
  <2>1. HistoryOf(EventsOf(h)) = h
    BY <1>8, HistoryOfEvents
  <2> QED
    BY <1>7, <2>1 DEF Hist
<1>10. ASSUME NEW i \in DOMAIN Hist PROVE Hist[i].key # r.key
  <2>1. i \in 1 .. Len(Hist)
    BY <1>3, <1>10
  <2>2. EventAt(Hist, i) \in seen[p]
    BY <1>3, <1>4, <2>1 DEF EventsOf
  <2>3. EventAt(Hist, i).request = Hist[i]
    BY DEF EventAt
  <2> QED
    BY <1>4, <2>2, <2>3 DEF Holder
<1>11. Identity(NewEvent(p)) = h
  BY <1>6 DEF Identity
<1> QED
  BY <1>1, <1>2, <1>7, <1>9, <1>10, <1>11

\* An earlier state of the history is an earlier state of the longer one.
LEMMA SnapshotGrows ==
    ASSUME IInv, NEW r \in Request, Hist' = Append(Hist, r), NEW S, Snapshot(S)
    PROVE  \E i \in 0 .. Len(Hist') : S = EventsOf(SubSeq(Hist', 1, i))
<1>1. Hist \in Seq(Request)
  BY DEF IInv, TypeOK
<1>2. PICK i \in 0 .. Len(Hist) : S = EventsOf(SubSeq(Hist, 1, i))
  BY DEF Snapshot
<1>3. i \in 0 .. Len(Hist') /\ SubSeq(Hist', 1, i) = SubSeq(Hist, 1, i)
  BY <1>1
<1> QED
  BY <1>2, <1>3

\* The link, by the only process past the lock, keeps IInv.
LEMMA LinkStep ==
    ASSUME IInv, NEW p \in Proc, Link(p)
    PROVE  IInv'
<1> DEFINE r == op[p].request
<1>1. /\ r \in Request /\ Hist' = Append(Hist, r) /\ events' = EventsOf(Hist')
      /\ \A i \in DOMAIN Hist : Hist[i].key # r.key
      /\ Identity(NewEvent(p)) = Hist' /\ lock = p
  BY LinkCommits
<1>2. /\ pc' = [pc EXCEPT ![p] = "linked"]
      /\ UNCHANGED <<lock, op, seen, reply, acked, known>>
      /\ pc[p] = "linking"
  BY DEF Link
<1>3. Hist \in Seq(Request) /\ UniqueKeys(Hist)
  BY Listings
<1> HIDE DEF r
<1>4. Hist' \in Seq(Request)
  BY <1>1, <1>3
<1>5. TypeOK'
  BY <1>2, <1>4 DEF IInv, TypeOK, Labels
<1>6. Locked'
  BY <1>2 DEF IInv, TypeOK, Locked, Appending
<1>7. PrefixesOf(Hist') = PrefixesOf(Hist) \cup {Hist'}
  BY <1>1, <1>3, PrefixesOfAppend
<1>8. UniqueKeys(Hist')
  BY <1>1, <1>3 DEF UniqueKeys
<1>9. AcknowledgedDurable'
  <2>1. Hist' = HistoryOf(events')
    BY DEF Hist
  <2> QED
    BY <2>1, <1>1, <1>2, <1>7, <1>8 DEF IInv, AcknowledgedDurable, IsChain, Hist
<1>10. ASSUME NEW q \in Proc PROVE Progress(q)'
  <2>1. Snapshot(seen[q])'
    BY <1>1, <1>2, SnapshotGrows DEF IInv, Progress, Snapshot
  <2>2. CASE q = p
    <3>1. pc'[p] = "linked"
      BY <1>2 DEF IInv, TypeOK
    <3>2. Identity(NewEvent(p))' = Hist'
      BY <1>1, <1>2 DEF NewEvent, Identity
    <3>3. Hist' # <<>>
      BY <1>1, <1>3
    <3> QED
      BY <1>2, <2>1, <2>2, <3>1, <3>2, <3>3 DEF IInv, Progress
  <2>3. CASE q # p
    <3>1. pc'[q] = pc[q] /\ ~Appending(q)
      BY <1>1, <1>2, <2>3 DEF IInv, TypeOK, Locked
    <3>2. pc[q] \notin {"linking", "linked"} /\ ~(pc[q] = "verifying" /\ op[q].kind = "append")
      BY <3>1 DEF IInv, Locked, Appending
    <3> QED
      BY <1>2, <2>1, <3>1, <3>2 DEF IInv, Progress
  <2> QED
    BY <2>2, <2>3
<1>11. ReadsFresh'
  BY <1>2, <1>7 DEF IInv, ReadsFresh, Hist
<1> QED
  BY <1>5, <1>6, <1>9, <1>10, <1>11 DEF IInv

-----------------------------------------------------------------------------
(* The inductive invariant and what follows from it                        *)

\* IInv, with the types of all variables in it, holds initially and every step
\* preserves it.
THEOREM Inductive == Spec => []IInv
<1>1. Init => IInv
  <2> SUFFICES ASSUME Init PROVE IInv
    OBVIOUS
  <2>1. Hist = <<>> /\ <<>> \in Seq(Request) /\ PrefixesOf(<<>>) = {} /\ EventsOf(<<>>) = {}
    BY DEF Init, Hist, HistoryOf, PrefixesOf, EventsOf
  <2>2. TypeOK
    BY <2>1 DEF Init, TypeOK, Labels, Operation, Reply, Ended
  <2>3. Locked
    BY DEF Init, Locked, Appending
  <2>4. AcknowledgedDurable
    BY <2>1 DEF Init, AcknowledgedDurable, IsChain, UniqueKeys, Hist
  <2>5. Snapshot({})
    <3>1. 0 \in 0 .. Len(<<>>) /\ SubSeq(<<>>, 1, 0) = <<>>
      OBVIOUS
    <3> QED
      BY <2>1, <3>1 DEF Snapshot
  <2>6. ReadsFresh /\ \A p \in Proc : Progress(p)
    BY <2>5 DEF Init, ReadsFresh, Progress, Ended
  <2> QED
    BY <2>2, <2>3, <2>4, <2>6 DEF IInv
<1>2. IInv /\ [Next]_vars => IInv'
  <2> SUFFICES ASSUME IInv, [Next]_vars PROVE IInv'
    OBVIOUS
  <2>1. ASSUME NEW p \in Proc, StartAppend(p) \/ StartRead(p) PROVE IInv'
    <3>1. PICK o \in Operation, l \in {"locking", "listing"} :
            Start(p, o, l) /\ (o.kind = "append" <=> l = "locking")
      <4>1. CASE StartRead(p)
        <5>1. [kind |-> "read"] \in Operation
          BY DEF Operation
        <5> QED
          BY <4>1, <5>1 DEF StartRead
      <4>2. CASE StartAppend(p)
        <5>1. PICK r \in Request : Start(p, [kind |-> "append", request |-> r], "locking")
          BY <4>2 DEF StartAppend
        <5>2. [kind |-> "append", request |-> r] \in Operation
          BY DEF Operation
        <5> QED
          BY <5>1, <5>2
      <4> QED
        BY <2>1, <4>1, <4>2
    <3>2. Hist' = Hist
      BY <3>1 DEF Start, Hist
    <3>3. TypeOK'
      BY <3>1, <3>2 DEF Start, IInv, TypeOK, Labels, Reply, Ended
    <3>4. Locked'
      BY <3>1 DEF Start, IInv, TypeOK, Locked, Appending
    <3>5. Progress(p)' /\ Fresh(p)'
      BY <3>1, <3>2 DEF Start, IInv, TypeOK, Progress, Snapshot, Fresh, Ended
    <3>6. acked \subseteq acked' /\ acked' \subseteq PrefixesOf(Hist)
      BY <3>1 DEF Start, IInv, AcknowledgedDurable, Hist
    <3> QED
      BY <3>1, <3>3, <3>4, <3>5, <3>6, QuietStep DEF Start, IInv, TypeOK
  <2>2. ASSUME NEW p \in Proc, Acquire(p) \/ ListDirectory(p) PROVE IInv'
    <3>1. Hist' = Hist
      BY <2>2 DEF Acquire, ListDirectory, Hist
    <3>2. acked' = acked /\ acked \subseteq PrefixesOf(Hist)
      BY <2>2 DEF Acquire, ListDirectory, IInv, AcknowledgedDurable, Hist
    <3>3. TypeOK'
      BY <2>2, <3>1 DEF Acquire, ListDirectory, IInv, TypeOK, Labels
    <3>4. Locked'
      BY <2>2, NoProcAssumption DEF Acquire, ListDirectory, IInv, TypeOK, Locked, Appending
    <3>5. Snapshot(events)'
      <4>1. Hist \in Seq(Request) /\ events = EventsOf(Hist)
        BY Listings
      <4>2. Len(Hist) \in 0 .. Len(Hist) /\ SubSeq(Hist, 1, Len(Hist)) = Hist
        BY <4>1
      <4> QED
        BY <2>2, <3>1, <4>1, <4>2 DEF Snapshot, Acquire, ListDirectory
    <3>6. Progress(p)'
      <4>1. CASE Acquire(p)
        BY <3>1, <4>1 DEF Acquire, IInv, TypeOK, Progress, Snapshot
      <4>2. CASE ListDirectory(p)
        BY <3>1, <3>2, <3>5, <4>2 DEF ListDirectory, IInv, TypeOK, Progress, Snapshot, Hist
      <4> QED
        BY <2>2, <4>1, <4>2
    <3>7. Fresh(p)'
      BY <2>2, <3>1 DEF Acquire, ListDirectory, IInv, ReadsFresh, Fresh, Hist
    <3> QED
      BY <2>2, <3>2, <3>3, <3>4, <3>6, <3>7, QuietStep DEF Acquire, ListDirectory, IInv, TypeOK
  <2>3. ASSUME NEW p \in Proc, VerifyFails(p) \/ CommitFails(p) PROVE IInv'
    <3>1. PICK k \in {"corrupt", "io_error"} : Finish(p, Ended(k))
      BY <2>3 DEF VerifyFails, CommitFails
    <3>2. Ended(k) \in Reply /\ Ended(k).kind = k
      BY DEF Ended, Reply
    <3> QED
      BY <2>3, <3>1, <3>2, FinishStep DEF VerifyFails, CommitFails
  <2>4. ASSUME NEW p \in Proc, ReadReturns(p) PROVE IInv'
    <3> DEFINE v == View(HistoryOf(seen[p]))
    <3>1. HistoryOf(seen[p]) \in Seq(Request) /\ HistoryOf(seen[p]) \in PrefixesOf(Hist) \cup {<<>>}
      BY Listings
    <3>2. v \in Reply /\ v.kind = "view" /\ v.history = HistoryOf(seen[p])
      BY <3>1 DEF View, Reply
    <3>3. known[p] \subseteq PrefixesOf(HistoryOf(seen[p]))
      BY <2>4 DEF ReadReturns, IInv, Progress
    <3> HIDE DEF v
    <3>4. Finish(p, v)
      BY <2>4 DEF ReadReturns, v
    <3> QED
      BY <2>4, <3>1, <3>2, <3>3, <3>4, FinishStep DEF ReadReturns
  <2>5. ASSUME NEW p \in Proc, AppendReplays(p) PROVE IInv'
    <3>1. PICK e \in Holder(p) :
            Finish(p, IF e.request = op[p].request THEN Stored(Identity(e)) ELSE Ended("conflict"))
      BY <2>5 DEF AppendReplays
    <3> DEFINE a == IF e.request = op[p].request THEN Stored(Identity(e)) ELSE Ended("conflict")
    <3>2. Hist \in Seq(Request) /\ e \in EventsOf(Hist)
      BY Listings DEF Holder
    <3>3. Identity(e) \in PrefixesOf(Hist) /\ Identity(e) \in Seq(Request)
      BY <3>2, IdentityIsPrefix
    <3>4. /\ a \in Reply /\ a.kind \in {"stored", "conflict"}
          /\ a.kind = "stored" => a.history \in PrefixesOf(Hist)
      BY <3>3 DEF Stored, Ended, Reply
    <3> HIDE DEF a
    <3>5. Finish(p, a)
      BY <3>1 DEF a
    <3> QED
      BY <2>5, <3>4, <3>5, FinishStep DEF AppendReplays
  <2>6. ASSUME NEW p \in Proc, WriteTemp(p) PROVE IInv'
    <3>1. Hist' = Hist /\ acked' = acked /\ acked \subseteq PrefixesOf(Hist)
      BY <2>6 DEF WriteTemp, Hist, IInv, AcknowledgedDurable
    <3>2. TypeOK'
      BY <2>6, <3>1 DEF WriteTemp, IInv, TypeOK, Labels
    <3>3. Locked'
      BY <2>6 DEF WriteTemp, IInv, TypeOK, Locked, Appending
    <3>4. Holder(p)' = Holder(p)
      BY <2>6 DEF WriteTemp, Holder
    <3>5. Progress(p)' /\ Fresh(p)'
      BY <2>6, <3>1, <3>4 DEF WriteTemp, IInv, TypeOK, Progress, Snapshot, ReadsFresh, Fresh, Hist
    <3> QED
      BY <2>6, <3>1, <3>2, <3>3, <3>5, QuietStep DEF WriteTemp, IInv, TypeOK
  <2>7. ASSUME NEW p \in Proc, Link(p) PROVE IInv'
    BY <2>7, LinkStep
  <2>8. ASSUME NEW p \in Proc, AppendReturns(p) PROVE IInv'
    <3> DEFINE s == Stored(Identity(NewEvent(p)))
    <3>1. Identity(NewEvent(p)) = Hist /\ Hist # <<>> /\ Hist \in Seq(Request)
      BY <2>8 DEF AppendReturns, IInv, TypeOK, Progress
    <3>2. Hist \in PrefixesOf(Hist)
      <4>1. Len(Hist) \in 1 .. Len(Hist) /\ SubSeq(Hist, 1, Len(Hist)) = Hist
        BY <3>1
      <4> QED
        BY <4>1 DEF PrefixesOf
    <3>3. s \in Reply /\ s.kind = "stored" /\ s.history = Hist
      BY <3>1 DEF Stored, Reply
    <3>4. Ended("io_error") \in Reply /\ Ended("io_error").kind = "io_error"
      BY DEF Ended, Reply
    <3> HIDE DEF s
    <3>5. Finish(p, s) \/ Finish(p, Ended("io_error"))
      BY <2>8 DEF AppendReturns, s
    <3> QED
      BY <2>8, <3>2, <3>3, <3>4, <3>5, FinishStep DEF AppendReturns
  <2>9. ASSUME NEW p \in Proc, Crash(p) PROVE IInv'
    <3>1. Hist' = Hist /\ acked' = acked /\ acked \subseteq PrefixesOf(Hist)
      BY <2>9 DEF Crash, Hist, IInv, AcknowledgedDurable
    <3>2. TypeOK'
      BY <2>9, <3>1 DEF Crash, IInv, TypeOK, Labels
    <3>3. Locked'
      BY <2>9 DEF Crash, IInv, TypeOK, Locked, Appending
    <3>4. Progress(p)' /\ Fresh(p)'
      BY <2>9, <3>1 DEF Crash, IInv, TypeOK, Progress, Snapshot, ReadsFresh, Fresh, Hist
    <3> QED
      BY <2>9, <3>1, <3>2, <3>3, <3>4, QuietStep DEF Crash, IInv, TypeOK
  <2>10. CASE UNCHANGED vars
    BY <2>10 DEF vars, IInv, TypeOK, Locked, Appending, AcknowledgedDurable, Progress,
                 Snapshot, Holder, NewEvent, ReadsFresh, Hist
  <2> QED
    BY <2>1, <2>2, <2>3, <2>4, <2>5, <2>6, <2>7, <2>8, <2>9, <2>10 DEF Next, Step
<1> QED
  BY <1>1, <1>2, PTL DEF Spec

\* The directory is always one chain without a fork, a gap or a second event of
\* a key, and no identity append() returned is ever lost or reordered.
THEOREM Durable == Spec => []AcknowledgedDurable
<1>1. IInv => AcknowledgedDurable
  BY DEF IInv
<1> QED
  BY <1>1, Inductive, PTL

\* A read that took no lock returns a prefix of the stream with every event
\* acknowledged before it began.
THEOREM FreshReads == Spec => []ReadsFresh
<1>1. IInv => ReadsFresh
  BY DEF IInv
<1> QED
  BY <1>1, Inductive, PTL

\* Linking is the log's commit; an acknowledgement tells an event of the log;
\* every other step of the stream is invisible to the log.
THEOREM StreamImplementsLog == Spec => ImplementsLog
<1>1. Init => Log!Init
  BY DEF Init, Log!Init, HistoryOf
<1>2. IInv /\ [Next]_vars => [Log!Next]_Log!vars
  <2> SUFFICES ASSUME IInv, [Next]_vars PROVE Log!Next \/ UNCHANGED Log!vars
    OBVIOUS
  <2>1. ASSUME NEW p \in Proc, Link(p) PROVE Log!Next
    <3> DEFINE r == op[p].request
    <3>1. /\ r \in Request /\ Hist' = Append(Hist, r)
          /\ \A i \in DOMAIN Hist : Hist[i].key # r.key
      BY <2>1, LinkCommits
    <3>2. UNCHANGED acked
      BY <2>1 DEF Link
    <3>3. r \in Log!Request
      BY <3>1 DEF Request, Log!Request
    <3> HIDE DEF r
    <3>4. Log!Commit(r)
      BY <3>1, <3>2 DEF Log!Commit, Log!Keys, Hist
    <3> QED
      BY <3>3, <3>4 DEF Log!Next
  <2>2. ASSUME NEW p \in Proc, NEW h \in PrefixesOf(Hist), Finish(p, Stored(h)), UNCHANGED events
        PROVE  Log!Next
    <3>1. acked' = acked \cup {h}
      BY <2>2 DEF Finish, Stored
    <3>2. h \in Log!PrefixesOf(HistoryOf(events))
      BY DEF PrefixesOf, Log!PrefixesOf, Hist
    <3> QED
      BY <2>2, <3>1, <3>2 DEF Log!Next, Log!Tell
  <2>3. ASSUME NEW p \in Proc, NEW r, r.kind # "stored", Finish(p, r), UNCHANGED events
        PROVE  UNCHANGED Log!vars
    BY <2>3 DEF Finish, Log!vars
  <2>4. ASSUME NEW p \in Proc, AppendReplays(p) PROVE Log!Next \/ UNCHANGED Log!vars
    <3>1. PICK e \in Holder(p) :
            Finish(p, IF e.request = op[p].request THEN Stored(Identity(e)) ELSE Ended("conflict"))
      BY <2>4 DEF AppendReplays
    <3>2. UNCHANGED events
      BY <2>4 DEF AppendReplays
    <3>3. Identity(e) \in PrefixesOf(Hist)
      BY Listings, IdentityIsPrefix DEF Holder
    <3>4. Ended("conflict").kind # "stored"
      BY DEF Ended
    <3> QED
      BY <3>1, <3>2, <3>3, <3>4, <2>2, <2>3
  <2>5. ASSUME NEW p \in Proc, AppendReturns(p) PROVE Log!Next \/ UNCHANGED Log!vars
    <3>1. Identity(NewEvent(p)) = Hist /\ Hist # <<>> /\ Hist \in Seq(Request)
      BY <2>5 DEF AppendReturns, IInv, TypeOK, Progress
    <3>2. Len(Hist) \in 1 .. Len(Hist) /\ SubSeq(Hist, 1, Len(Hist)) = Hist
      BY <3>1
    <3>3. Hist \in PrefixesOf(Hist)
      BY <3>2 DEF PrefixesOf
    <3>4. Ended("io_error").kind # "stored"
      BY DEF Ended
    <3> QED
      BY <2>2, <2>3, <2>5, <3>1, <3>3, <3>4 DEF AppendReturns
  <2>6. ASSUME NEW p \in Proc, VerifyFails(p) \/ ReadReturns(p) \/ CommitFails(p)
        PROVE  UNCHANGED Log!vars
    <3>1. PICK r : r.kind # "stored" /\ Finish(p, r)
      BY <2>6 DEF VerifyFails, ReadReturns, CommitFails, Ended, View
    <3> QED
      BY <2>3, <2>6, <3>1 DEF VerifyFails, ReadReturns, CommitFails
  <2>7. ASSUME NEW p \in Proc,
               \/ StartAppend(p) \/ StartRead(p) \/ Acquire(p)
               \/ ListDirectory(p) \/ WriteTemp(p) \/ Crash(p)
        PROVE  UNCHANGED Log!vars
    BY <2>7 DEF StartAppend, StartRead, Start, Acquire, ListDirectory, WriteTemp, Crash, Log!vars
  <2>8. CASE UNCHANGED vars
    BY <2>8 DEF vars, Log!vars
  <2> QED
    BY <2>1, <2>4, <2>5, <2>6, <2>7, <2>8 DEF Next, Step
<1> QED
  BY <1>1, <1>2, Inductive, PTL DEF Spec, ImplementsLog, Log!Spec
=============================================================================
