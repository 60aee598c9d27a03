-------------------------- MODULE RunOwnershipProofs --------------------------
(***************************************************************************)
(* Proofs about RunOwnership, for every set of services and claims and     *)
(* every bound.                                                            *)
(*                                                                         *)
(* The safety properties are not inductive: that a second launch cannot    *)
(* happen depends on what the process at each label has already           *)
(* established.  IInv records it: past the lease a process is the holder;  *)
(* past the unused-run check the stream is its own (or empty), and holds   *)
(* nothing but preflight events until the label "running".                 *)
(***************************************************************************)
EXTENDS RunOwnership, FiniteSetTheorems, SequenceTheorems, TLAPS

Mine(p, s) == \A i \in DOMAIN s : s[i].by = <<p, attempt[p]>>

Unlaunched(s) == \A i \in DOMAIN s : s[i].role = "preflight"

OneLaunch(s) ==
    \A i, j \in DOMAIN s : s[i].role = "launched" /\ s[j].role = "launched" => i = j

LeaseHeld == \A p \in Proc : pc[p] \in Holding => lease = p

Progress(p) ==
    /\ pc[p] = "preparing" => stream = <<>>
    /\ pc[p] = "launching" => Mine(p, stream) /\ Unlaunched(stream)
    /\ pc[p] \in {"running", "failing"} => Mine(p, stream)

IInv ==
    /\ TypeOK
    /\ LeaseHeld
    /\ \A p \in Proc : Progress(p)
    /\ OneAuthor
    /\ OneLaunch(stream)

-----------------------------------------------------------------------------
(* Lemmas                                                                  *)

\* Appending an event keeps the sequence's type and leaves the others alone.
LEMMA AppendEvent ==
    ASSUME NEW s \in Seq(RunEvent), NEW e \in RunEvent
    PROVE  /\ Append(s, e) \in Seq(RunEvent)
           /\ DOMAIN Append(s, e) = DOMAIN s \cup {Len(s) + 1}
           /\ Len(s) + 1 \notin DOMAIN s
           /\ \A i \in DOMAIN s : Append(s, e)[i] = s[i]
           /\ Append(s, e)[Len(s) + 1] = e
  OBVIOUS

\* An event appended by the stream's only author keeps the stream its own.
LEMMA AppendMine ==
    ASSUME NEW s \in Seq(RunEvent), NEW p \in Proc, NEW e \in RunEvent,
           Mine(p, s), e.by = <<p, attempt[p]>>
    PROVE  /\ Mine(p, Append(s, e))
           /\ \A i, j \in DOMAIN Append(s, e) : Append(s, e)[i].by = Append(s, e)[j].by
<1>1. \A i \in DOMAIN Append(s, e) : Append(s, e)[i].by = <<p, attempt[p]>>
  BY AppendEvent DEF Mine
<1> QED
  BY <1>1 DEF Mine

\* Only a second run_launched can break OneLaunch.
LEMMA AppendLaunch ==
    ASSUME NEW s \in Seq(RunEvent), NEW e \in RunEvent,
           OneLaunch(s), e.role # "launched" \/ Unlaunched(s)
    PROVE  OneLaunch(Append(s, e))
  BY AppendEvent DEF OneLaunch, Unlaunched

LEMMA AppendOther ==
    ASSUME NEW s \in Seq(RunEvent), NEW e \in RunEvent,
           Unlaunched(s), e.role = "preflight"
    PROVE  Unlaunched(Append(s, e))
  BY AppendEvent DEF Unlaunched

\* OneLaunch is the invariant's way to say that the launches number at most 1.
LEMMA OneLaunchCount ==
    ASSUME TypeOK, OneLaunch(stream)
    PROVE  LaunchedAtMostOnce
<1> DEFINE S == {i \in DOMAIN stream : stream[i].role = "launched"}
<1>1. CASE S = {}
  <2>1. Cardinality(S) = 0
    BY <1>1, FS_EmptySet
  <2> QED
    BY <2>1 DEF LaunchedAtMostOnce, Count
<1>2. CASE S # {}
  <2>1. PICK i \in S : TRUE
    BY <1>2
  <2>2. S = {i}
    BY <2>1 DEF OneLaunch
  <2>3. Cardinality(S) = 1
    BY <2>2, FS_Singleton
  <2> QED
    BY <2>3 DEF LaunchedAtMostOnce, Count
<1> QED
  BY <1>1, <1>2

\* The event an attempt appends is well typed and carries its stamp.
LEMMA EventType ==
    ASSUME TypeOK, NEW p \in Proc, NEW r \in Role
    PROVE  /\ Event(p, r) \in RunEvent
           /\ Event(p, r).by = <<p, attempt[p]>>
           /\ Event(p, r).role = r
  BY DEF TypeOK, Event, RunEvent
-----------------------------------------------------------------------------
(* Type correctness                                                        *)

\* Every variable keeps its type in every reachable state.
THEOREM TypeCorrect == Spec => []TypeOK
<1>1. Init => TypeOK
  BY DEF Init, TypeOK, PC
<1>2. TypeOK /\ [Next]_vars => TypeOK'
  <2> SUFFICES ASSUME TypeOK, [Next]_vars PROVE TypeOK'
    OBVIOUS
  <2>1. ASSUME NEW p \in Proc, WriteClaim(p) PROVE TypeOK'
    BY <2>1 DEF TypeOK, WriteClaim, Begin, Goto, PC
  <2>2. ASSUME NEW p \in Proc, ClaimConflict(p) PROVE TypeOK'
    BY <2>2 DEF TypeOK, ClaimConflict, Begin, PC
  <2>3. ASSUME NEW p \in Proc, Crash(p) PROVE TypeOK'
    BY <2>3 DEF TypeOK, Crash, Goto, PC, files
  <2>4. ASSUME NEW p \in Proc,
               TryLock(p) \/ CheckResolution(p) \/ AssertUnused(p) \/ ReleaseLease(p)
        PROVE  TypeOK'
    BY <2>4 DEF TypeOK, TryLock, CheckResolution, AssertUnused, ReleaseLease,
                Unlock, Goto, PC, files
  <2>5. ASSUME NEW p \in Proc, PersistRecords(p) \/ ResolveOwnership(p)
        PROVE  TypeOK'
    <3>1. CASE PersistRecords(p)
      BY <3>1 DEF TypeOK, PersistRecords, Goto, PC
    <3>2. CASE ResolveOwnership(p)
      <4>1. resolution' \in {mine[p], resolution}
        BY <3>2, Zenon DEF ResolveOwnership
      <4>2. /\ Goto(p, "releasing")
            /\ UNCHANGED <<claimFile, lease, stream, recorded, mine, created, attempt>>
        BY <3>2, Zenon DEF ResolveOwnership
      <4> QED
        BY <4>1, <4>2 DEF TypeOK, Goto, PC
    <3> QED
      BY <2>5, <3>1, <3>2
  <2>6. ASSUME NEW p \in Proc,
               \/ Refused(p) \/ AppendPreflight(p) \/ AppendLaunched(p)
               \/ AppendOutput(p) \/ AppendTerminal(p) \/ AppendFailed(p)
        PROVE  TypeOK'
    <3>1. stream' \in Seq(RunEvent)
      <4>1. \A r \in Role : Appends(p, r) => stream' \in Seq(RunEvent)
        BY EventType, AppendEvent DEF Appends, TypeOK
      <4> QED
        BY <2>6, <4>1 DEF Refused, AppendPreflight, AppendLaunched, AppendOutput,
                          AppendTerminal, AppendFailed, Role, TypeOK
    <3>2. pc' \in [Proc -> PC]
      BY <2>6 DEF TypeOK, Refused, AppendPreflight, AppendLaunched, AppendOutput,
                  AppendTerminal, AppendFailed, Goto, PC
    <3>3. UNCHANGED <<claimFile, resolution, lease, recorded, mine, created, attempt>>
      BY <2>6 DEF Refused, AppendPreflight, AppendLaunched, AppendOutput,
                  AppendTerminal, AppendFailed
    <3> QED
      BY <3>1, <3>2, <3>3 DEF TypeOK
  <2>7. CASE UNCHANGED vars
    BY <2>7 DEF TypeOK, vars
  <2> QED
    BY <2>1, <2>2, <2>3, <2>4, <2>5, <2>6, <2>7 DEF Next, Step
<1> QED
  BY <1>1, <1>2, PTL DEF Spec
-----------------------------------------------------------------------------
(* The inductive invariant                                                 *)

\* What a step must do for IInv to survive it: the lease discipline, and, for
\* the process p that moved, its new label's claim on the stream.
LEMMA QuietStep ==
    ASSUME IInv, TypeOK', NEW p \in Proc, UNCHANGED stream, LeaseHeld',
           \A q \in Proc \ {p} : pc'[q] = pc[q] /\ attempt'[q] = attempt[q],
           \A q \in Proc \ {p} : pc[q] = "preparing" => recorded' = recorded,
           Progress(p)'
    PROVE  IInv'
<1>1. ASSUME NEW q \in Proc, q # p PROVE Progress(q)'
  BY <1>1 DEF IInv, Progress, Mine, Unlaunched
<1> QED
  BY <1>1 DEF IInv, OneAuthor, OneLaunch

\* The lease is free or held by another, so p alone is past it.
LEMMA OnlyHolder ==
    ASSUME IInv, NEW p \in Proc, pc[p] \in Holding
    PROVE  \A q \in Proc \ {p} : pc[q] \notin Holding
  BY NoProcAssumption DEF IInv, LeaseHeld

\* The holder appends to a stream of its own: IInv survives.
LEMMA AppendStep ==
    ASSUME IInv, TypeOK', NEW p \in Proc, NEW r \in Role,
           pc[p] \in Holding, pc'[p] \in Holding, Appends(p, r),
           Mine(p, stream), r # "launched" \/ Unlaunched(stream),
           pc'[p] # "preparing", pc'[p] = "launching" => r = "preflight" /\ Unlaunched(stream),
           UNCHANGED <<lease, attempt>>,
           \A q \in Proc \ {p} : pc'[q] = pc[q]
    PROVE  IInv'
<1> DEFINE e == Event(p, r)
<1>1. /\ stream \in Seq(RunEvent) /\ e \in RunEvent
      /\ e.by = <<p, attempt[p]>> /\ e.role = r /\ stream' = Append(stream, e)
  BY EventType DEF IInv, TypeOK, Appends
<1> HIDE DEF e
<1>2. /\ Mine(p, stream')
      /\ \A i, j \in DOMAIN stream' : stream'[i].by = stream'[j].by
  BY <1>1, AppendMine
<1>3. OneLaunch(stream')
  BY <1>1, AppendLaunch DEF IInv
<1>4. pc'[p] = "launching" => Unlaunched(stream')
  BY <1>1, AppendOther
<1>5. LeaseHeld'
  BY DEF IInv, LeaseHeld
<1>6. ASSUME NEW q \in Proc PROVE Progress(q)'
  <2>1. CASE q = p
    BY <2>1, <1>2, <1>4 DEF Progress, Mine, Unlaunched
  <2>2. CASE q # p
    BY <2>2, OnlyHolder DEF Progress, Holding
  <2> QED
    BY <2>1, <2>2
<1> QED
  BY <1>2, <1>3, <1>5, <1>6 DEF IInv, OneAuthor
\* IInv holds initially and every step preserves it.
THEOREM Inductive == Spec => []IInv
<1>1. Init => IInv
  <2> SUFFICES ASSUME Init PROVE IInv
    OBVIOUS
  <2>1. TypeOK
    BY DEF Init, TypeOK, PC
  <2> QED
    BY <2>1 DEF Init, IInv, LeaseHeld, Holding, Progress, OneAuthor, OneLaunch
<1>2. IInv /\ TypeOK' /\ [Next]_vars => IInv'
  <2> SUFFICES ASSUME IInv, TypeOK', [Next]_vars PROVE IInv'
    OBVIOUS
  <2> USE DEF Goto
  <2>1. ASSUME NEW p \in Proc, WriteClaim(p) \/ ClaimConflict(p) PROVE IInv'
    <3>1. PICK c \in Claim : Begin(p, c) /\ pc'[p] \in {"claimed", "idle"}
                             /\ \A q \in Proc \ {p} : pc'[q] = pc[q]
      BY <2>1 DEF WriteClaim, ClaimConflict, Begin, IInv, TypeOK
    <3> QED
      BY <3>1, QuietStep DEF Begin, IInv, TypeOK, LeaseHeld, Holding, Progress
  <2>2. ASSUME NEW p \in Proc, TryLock(p) PROVE IInv'
    <3>1. LeaseHeld'
      BY <2>2, NoProcAssumption DEF TryLock, IInv, TypeOK, LeaseHeld, Holding
    <3>2. Progress(p)'
      BY <2>2 DEF TryLock, IInv, TypeOK, Progress
    <3> QED
      BY <2>2, <3>1, <3>2, QuietStep DEF TryLock, IInv, TypeOK, files
  <2>3. ASSUME NEW p \in Proc, CheckResolution(p) PROVE IInv'
    <3>1. LeaseHeld'
      BY <2>3, OnlyHolder DEF CheckResolution, IInv, TypeOK, LeaseHeld, Holding, Unlock
    <3> QED
      BY <2>3, <3>1, QuietStep
         DEF CheckResolution, IInv, TypeOK, Holding, Progress, Unlock, files
  <2>4. ASSUME NEW p \in Proc, AssertUnused(p) PROVE IInv'
    BY <2>4, QuietStep DEF AssertUnused, IInv, TypeOK, LeaseHeld, Holding, Progress, files
  <2>5. ASSUME NEW p \in Proc, PersistRecords(p) PROVE IInv'
    <3>1. Progress(p)'
      BY <2>5 DEF PersistRecords, IInv, TypeOK, Progress, Mine, Unlaunched
    <3>2. \A q \in Proc \ {p} : pc[q] \notin Holding
      BY <2>5, OnlyHolder DEF PersistRecords, Holding
    <3>3. LeaseHeld'
      BY <2>5 DEF PersistRecords, IInv, TypeOK, LeaseHeld, Holding
    <3> QED
      BY <2>5, <3>1, <3>2, <3>3, QuietStep DEF PersistRecords, IInv, TypeOK, Holding
  <2>6. ASSUME NEW p \in Proc, ResolveOwnership(p) PROVE IInv'
    <3>1. /\ pc[p] = "resolving" /\ pc' = [pc EXCEPT ![p] = "releasing"]
          /\ UNCHANGED <<claimFile, lease, stream, recorded, mine, created, attempt>>
      BY <2>6, Zenon DEF ResolveOwnership
    <3> QED
      BY <3>1, QuietStep DEF IInv, TypeOK, LeaseHeld, Holding, Progress
  <2>7. ASSUME NEW p \in Proc, ReleaseLease(p) PROVE IInv'
    <3>1. LeaseHeld'
      BY <2>7, OnlyHolder DEF ReleaseLease, IInv, TypeOK, LeaseHeld, Holding, Unlock
    <3> QED
      BY <2>7, <3>1, QuietStep DEF ReleaseLease, IInv, TypeOK, Progress, Unlock, files
  <2>8. ASSUME NEW p \in Proc, Crash(p) PROVE IInv'
    <3>1. LeaseHeld'
      BY <2>8, NoProcAssumption DEF Crash, IInv, TypeOK, LeaseHeld, Holding
    <3> QED
      BY <2>8, <3>1, QuietStep DEF Crash, IInv, TypeOK, Progress, files
  <2>9. ASSUME NEW p \in Proc,
               \/ Refused(p) \/ AppendPreflight(p) \/ AppendLaunched(p)
               \/ AppendOutput(p) \/ AppendTerminal(p) \/ AppendFailed(p)
        PROVE  IInv'
    <3>1. /\ pc[p] \in {"preparing", "launching", "running", "failing"}
          /\ pc'[p] \in {"launching", "running", "failing", "resolving"}
          /\ \A q \in Proc \ {p} : pc'[q] = pc[q]
          /\ UNCHANGED <<lease, recorded, attempt>>
      BY <2>9 DEF Refused, AppendPreflight, AppendLaunched, AppendOutput,
                  AppendTerminal, AppendFailed, IInv, TypeOK
    <3>2. Mine(p, stream) /\ (pc[p] \in {"preparing", "launching"} => Unlaunched(stream))
      BY <3>1 DEF IInv, Progress, Mine, Unlaunched
    <3>3. CASE UNCHANGED stream
      <4>1. pc'[p] = "launching" => pc[p] = "launching"
        BY <2>9, <3>3 DEF Refused, AppendPreflight, AppendLaunched, AppendOutput,
                          AppendTerminal, AppendFailed, IInv, TypeOK
      <4>2. LeaseHeld'
        BY <3>1 DEF IInv, LeaseHeld, Holding
      <4>3. Progress(p)'
        BY <3>1, <3>2, <3>3, <4>1 DEF Progress, Mine, Unlaunched
      <4> QED
        BY <3>1, <3>3, <4>2, <4>3, QuietStep
    <3>4. ASSUME NEW r \in Role, Appends(p, r),
                 r = "launched" => pc[p] = "launching",
                 pc'[p] = "launching" => pc[p] = "launching" /\ r = "preflight"
          PROVE  IInv'
      BY <3>1, <3>2, <3>4, AppendStep DEF Holding
    <3>5. \/ UNCHANGED stream
          \/ \E r \in Role :
               /\ Appends(p, r)
               /\ r = "launched" => pc[p] = "launching"
               /\ pc'[p] = "launching" => pc[p] = "launching" /\ r = "preflight"
      BY <2>9 DEF Refused, AppendPreflight, AppendLaunched, AppendOutput,
                  AppendTerminal, AppendFailed, IInv, TypeOK, Role
    <3> QED
      BY <3>3, <3>4, <3>5
  <2>10. CASE UNCHANGED vars
    BY <2>10 DEF vars, IInv, LeaseHeld, Progress, Mine, Unlaunched, OneAuthor, OneLaunch
  <2> QED
    BY <2>1, <2>2, <2>3, <2>4, <2>5, <2>6, <2>7, <2>8, <2>9, <2>10 DEF Next, Step
<1> QED
  BY <1>1, <1>2, TypeCorrect, PTL DEF Spec

\* No two attempts are ever past the lease.
THEOREM ExclusiveOwnership == Spec => []ExclusiveOwner
<1>1. IInv => ExclusiveOwner
  BY DEF IInv, LeaseHeld, ExclusiveOwner
<1> QED
  BY <1>1, Inductive, PTL

\* All events of a run are appended by one attempt.
THEOREM SingleAuthor == Spec => []OneAuthor
<1>1. IInv => OneAuthor
  BY DEF IInv
<1> QED
  BY <1>1, Inductive, PTL

\* A run is never launched twice, whatever crashes, retries and races happen.
THEOREM SingleLaunch == Spec => []LaunchedAtMostOnce
<1>1. IInv => LaunchedAtMostOnce
  BY OneLaunchCount DEF IInv
<1> QED
  BY <1>1, Inductive, PTL

\* A claim that nobody alive can resolve blocks the run id for ever.
THEOREM AbandonedClaimBlocks == Spec => AbandonedStaysBlocked
<1>1. TypeOK /\ [Next]_vars => [Abandoned => Abandoned']_vars
  <2> SUFFICES ASSUME TypeOK, Next, Abandoned PROVE Abandoned'
    BY DEF Abandoned, vars
  <2> USE DEF Goto
  <2>1. ASSUME NEW p \in Proc, WriteClaim(p) \/ ClaimConflict(p) PROVE Abandoned'
    <3>1. /\ claimFile' # NoClaim /\ resolution' = resolution
          /\ created' = created \ {p}
          /\ pc' = pc \/ pc' = [pc EXCEPT ![p] = "claimed"]
      BY <2>1, NoClaimAssumption DEF WriteClaim, ClaimConflict, Begin, Abandoned
    <3> QED
      BY <3>1 DEF Abandoned, TypeOK, Holding
  <2>2. ASSUME NEW p \in Proc, TryLock(p) PROVE Abandoned'
    BY <2>2 DEF TryLock, Abandoned, TypeOK, Holding, files
  <2>3. ASSUME NEW p \in Proc, CheckResolution(p) PROVE Abandoned'
    <3>1. pc[p] = "locked" /\ p \notin created /\ resolution # mine[p]
      BY <2>3, NoClaimAssumption DEF CheckResolution, Abandoned, TypeOK
    <3> QED
      BY <2>3, <3>1 DEF CheckResolution, Unlock, Abandoned, TypeOK, Holding, files
  <2>4. ASSUME NEW p \in Proc, Crash(p) PROVE Abandoned'
    BY <2>4 DEF Crash, Abandoned, TypeOK, Holding, files
  <2>5. ASSUME NEW p \in Proc,
               \/ AssertUnused(p) \/ Refused(p) \/ PersistRecords(p) \/ AppendPreflight(p)
               \/ AppendLaunched(p) \/ AppendOutput(p) \/ AppendTerminal(p)
               \/ AppendFailed(p) \/ ResolveOwnership(p) \/ ReleaseLease(p)
        PROVE  FALSE
    <3>1. pc[p] \in Holding \ {"locked"}
      BY <2>5, Zenon DEF Holding, AssertUnused, Refused, PersistRecords, AppendPreflight,
            AppendLaunched, AppendOutput, AppendTerminal, AppendFailed,
            ResolveOwnership, ReleaseLease
    <3> QED
      BY <3>1 DEF Abandoned
  <2> QED
    BY <2>1, <2>2, <2>3, <2>4, <2>5 DEF Next, Step
<1> QED
  BY <1>1, TypeCorrect, PTL DEF Spec, AbandonedStaysBlocked

\* A launched run that nobody works on any more keeps its stream, whether it
\* ended and whatever resolution stands over its claim.
THEOREM ResolvedIsFinal == Spec => ResolvedLaunchIsFinal
<1> DEFINE Left == Count("launched") > 0 /\ \A p \in Proc : pc[p] \notin {"running", "failing"}
           Final == (resolution' # resolution => Settled') /\ (Left => stream' = stream)
<1>1. IInv /\ [Next]_vars => [Final]_vars
  <2> SUFFICES ASSUME IInv, Next PROVE Final
    OBVIOUS
  <2>1. resolution' # resolution => Settled'
    <3> SUFFICES ASSUME NEW p \in Proc, ResolveOwnership(p), Settled PROVE Settled'
      BY Zenon DEF Next, Step, WriteClaim, ClaimConflict, Begin, Crash, TryLock, CheckResolution,
            AssertUnused, Refused, PersistRecords, AppendPreflight, AppendLaunched,
            AppendOutput, AppendTerminal, AppendFailed, ResolveOwnership, ReleaseLease, files
    <3>1. UNCHANGED stream
      BY Zenon DEF ResolveOwnership
    <3> QED
      BY <3>1 DEF Settled, Count
  <2>2. ASSUME Left PROVE stream' = stream
    <3>1. ASSUME NEW p \in Proc, pc[p] \in {"preparing", "launching"} PROVE FALSE
      <4>1. \A i \in DOMAIN stream : stream[i].role = "preflight"
        BY <3>1 DEF IInv, Progress, Unlaunched
      <4>2. {i \in DOMAIN stream : stream[i].role = "launched"} = {}
        BY <4>1
      <4> QED
        BY <2>2, <4>2, FS_EmptySet DEF Count
    <3>2. \A p \in Proc : pc[p] \notin {"preparing", "launching", "running", "failing"}
      BY <2>2, <3>1
    <3> QED
      BY <3>2, Zenon DEF Next, Step, WriteClaim, ClaimConflict, Begin, Crash, TryLock,
            CheckResolution, AssertUnused, Refused, PersistRecords, AppendPreflight,
            AppendLaunched, AppendOutput, AppendTerminal, AppendFailed, ResolveOwnership,
            ReleaseLease, files
  <2> QED
    BY <2>1, <2>2
<1> QED
  BY <1>1, Inductive, PTL DEF Spec, ResolvedLaunchIsFinal
=============================================================================
