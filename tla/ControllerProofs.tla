-------------------------- MODULE ControllerProofs --------------------------
(***************************************************************************)
(* Proofs about the serialized controller and about the adapter that       *)
(* drives one: RuntimeController for any number of messages, steps and     *)
(* bundles, offered in any order and any number of times; LibraryAdapter   *)
(* for any threads, runs, resources and capacities, any number of steps    *)
(* and any cadence.                                                        *)
(*                                                                         *)
(* What a controller may still do is fixed by its state, not by its        *)
(* ledger, so the properties of the ledger are not inductive.  Agreement   *)
(* ties the two together: what each state says of the last message and of  *)
(* the cancellation, and that the step counter bounds every step told.     *)
(*                                                                         *)
(* The capacity is kept by the leases, and the leases count trainings only *)
(* because no two threads execute one run: Accounts ties the three         *)
(* together.  Sound says what each label of execute() has established: a   *)
(* controller that is active and numbered like its adapter while the       *)
(* backend trains, and a step that is strictly before the one to stop at   *)
(* once the backend has looked.                                            *)
(***************************************************************************)
EXTENDS RuntimeController, LibraryAdapter, FiniteSetTheorems, SequenceTheorems,
        WellFoundedInduction, TLAPS

LastIs(k) == Len(Ledger) > 0 /\ Ledger[Len(Ledger)].kind = k

Agreement ==
    /\ LastIs("disconnected") <=> controller.state = "disconnected"
    /\ controller.state = "artifact_ready" =>
         /\ LastIs("artifact_ready")
         /\ controller.bundle = Ledger[Len(Ledger)].value
    /\ Said("artifact_ready") =>
         controller.state \in {"artifact_ready", "completed", "failed"}
    /\ \/ controller.state = "cancelling"
       \/ controller.state = "disconnected" /\ controller.resume = "cancelling"
       => Said("cancellation_requested")
    /\ \A i \in DOMAIN Ledger :
         Ledger[i].kind \in Stepped => Ledger[i].value <= controller.step

ControllerInv ==
    /\ ControllerTypeOK
    /\ Agreement
    /\ TerminalJustified
    /\ CancellationNotForgotten
    /\ DisconnectsPaired
    /\ StepsNeverRegress

-----------------------------------------------------------------------------
(* Lemmas                                                                  *)

\* The ledger grows at its end.
LEMMA AppendMessage ==
    ASSUME NEW s \in Seq(Message), NEW m \in Message
    PROVE  /\ Append(s, m) \in Seq(Message)
           /\ Len(Append(s, m)) = Len(s) + 1
           /\ DOMAIN Append(s, m) = DOMAIN s \cup {Len(s) + 1}
           /\ DOMAIN s = 1 .. Len(s) /\ Len(s) \in Nat
           /\ \A i \in DOMAIN s : Append(s, m)[i] = s[i]
           /\ Append(s, m)[Len(s) + 1] = m
  OBVIOUS

\* What is offered to a controller is a message of the protocol.
LEMMA OfferedType == Offered \subseteq Message
<1> SUFFICES ASSUME NEW n \in 1 .. MaxSequence, NEW k \in Kind, NEW v \in Values(k)
             PROVE  Msg(n, k, v) \in Message
  BY DEF Offered
<1>1. n \in Nat \ {0}
  BY BoundsAssumption
<1>2. v \in Nat
  BY BoundsAssumption, BundleAssumption DEF Values
<1> QED
  BY <1>1, <1>2 DEF Msg, Message

\* The state after an accepted message is one of the nine.
LEMMA SuccessorType ==
    ASSUME ControllerTypeOK, NEW m \in Message, Accepts(controller, m)
    PROVE  Successor(controller, m) \in ControllerState
  BY DEF ControllerTypeOK, Accepts, Admits, Successor, Message, Kind, ControllerState, Live,
         Terminal, TerminalKind, Activity, Stepped, Link

LEMMA LiveTransition ==
    ASSUME ControllerTypeOK, NEW m \in Message, Accepts(controller, m)
    PROVE  Transition(controller, m) \in
             [state : ControllerState, step : Nat, heartbeats : Nat,
              checkpoints : Nat, metrics : Nat, bundle : Nat,
              resume : Live \cup {"created"}, messages : Seq(Message)]
<1> DEFINE c == controller
<1>1. Successor(c, m) \in ControllerState
  BY SuccessorType
<1>2. m.value \in Nat
  BY DEF Message
<1>3. Tick("heartbeat", m) \in Nat /\ Tick("checkpoint", m) \in Nat /\ Tick("metric", m) \in Nat
  BY DEF Tick
<1>4. Append(c.messages, m) \in Seq(Message)
  BY DEF ControllerTypeOK
<1>5. m.kind = "disconnected" => c.state \in Live
  BY DEF Accepts, Admits, Sources, Activity, Stepped
<1> QED
  BY <1>1, <1>2, <1>3, <1>4, <1>5, SMTT(60) DEF Transition, ControllerTypeOK

\* The ways a message is accepted, kind by kind.
LEMMA AcceptedKinds ==
    ASSUME ControllerTypeOK, NEW m \in Message, Accepts(controller, m)
    PROVE  \/ /\ m.kind = "launched" /\ controller.state = "created"
              /\ Successor(controller, m) = "active"
           \/ /\ m.kind \in Activity /\ controller.state \in Live
              /\ Successor(controller, m) = controller.state
           \/ /\ m.kind = "cancellation_requested" /\ controller.state = "active"
              /\ Successor(controller, m) = "cancelling"
           \/ /\ m.kind = "disconnected" /\ controller.state \in Live
              /\ Successor(controller, m) = "disconnected"
           \/ /\ m.kind = "reconnected" /\ controller.state = "disconnected"
              /\ Successor(controller, m) = controller.resume
              /\ controller.resume \in Live
           \/ /\ m.kind = "artifact_ready" /\ controller.state = "active"
              /\ Successor(controller, m) = "artifact_ready"
           \/ /\ m.kind = "completed" /\ controller.state = "artifact_ready"
              /\ Successor(controller, m) = "completed"
           \/ /\ m.kind = "cancelled" /\ controller.state = "cancelling"
              /\ Successor(controller, m) = "cancelled"
           \/ /\ m.kind = "interrupted" /\ controller.state \in Live \cup {"disconnected"}
              /\ Successor(controller, m) = "interrupted"
           \/ /\ m.kind = "failed" /\ controller.state \notin Terminal \cup {"created"}
              /\ Successor(controller, m) = "failed"
<1>1. /\ m.kind \in Kind /\ controller.state \in Sources(m.kind)
      /\ controller.state \notin Terminal
      /\ m.kind = "reconnected" => controller.resume \in Live
  BY DEF Accepts, Admits, Message
<1> QED
  BY <1>1 DEF Kind, Sources, Successor, ReadyFrom, Activity, Stepped, Link,
              TerminalKind, Live, ControllerState

\* What accepting a message does to the fields of the controller.
LEMMA AcceptedFields ==
    ASSUME ControllerTypeOK, NEW m \in Message, Accepts(controller, m),
           controller' = Transition(controller, m)
    PROVE  /\ controller'.state = Successor(controller, m)
           /\ Ledger' = Append(Ledger, m)
           /\ controller'.step = IF m.kind \in Stepped THEN m.value ELSE controller.step
           /\ controller'.bundle =
                IF m.kind = "artifact_ready" THEN m.value ELSE controller.bundle
           /\ m.kind = "disconnected" => controller'.resume = controller.state
           /\ m.kind \notin Link => controller'.resume = controller.resume
           /\ m.kind \in Stepped => controller.step <= m.value
           /\ m.kind \in Link => m.value = Len(Ledger)
           /\ Ledger \in Seq(Message)
  BY DEF Transition, Ledger, Link, ControllerTypeOK, Accepts, Admits, StepInOrder, LinkInStep,
         LastSequence, Message

\* What the ledger said it still says, and the new message besides.
LEMMA SaidAfter ==
    ASSUME NEW m \in Message, Ledger \in Seq(Message), Ledger' = Append(Ledger, m), NEW k
    PROVE  /\ Said(k)' <=> Said(k) \/ m.kind = k
           /\ LastIs(k)' <=> m.kind = k
<1>1. /\ DOMAIN Ledger' = DOMAIN Ledger \cup {Len(Ledger) + 1}
      /\ \A i \in DOMAIN Ledger : Ledger'[i] = Ledger[i]
      /\ Ledger'[Len(Ledger) + 1] = m
      /\ Len(Ledger') = Len(Ledger) + 1 /\ Len(Ledger) \in Nat
  BY AppendMessage
<1> QED
  BY <1>1 DEF Said, LastIs
-----------------------------------------------------------------------------
(* Type correctness                                                        *)

\* The controller keeps its types whatever is offered to it.
THEOREM TypeCorrect == ControllerSpec => []ControllerTypeOK
<1>1. ControllerInit => ControllerTypeOK
  BY DEF ControllerInit, NewController, ControllerTypeOK, ControllerState
<1>2. ControllerTypeOK /\ [ControllerNext]_controllerVars => ControllerTypeOK'
  <2> SUFFICES ASSUME ControllerTypeOK, [ControllerNext]_controllerVars PROVE ControllerTypeOK'
    OBVIOUS
  <2>1. ASSUME NEW m \in Offered, AcceptNext(m) PROVE ControllerTypeOK'
    BY <2>1, OfferedType, LiveTransition DEF AcceptNext, ControllerTypeOK
  <2>2. ASSUME NEW m \in Offered, AcceptReplay(m) \/ Refuse(m) PROVE ControllerTypeOK'
    BY <2>2 DEF AcceptReplay, Refuse, ControllerTypeOK
  <2>3. CASE UNCHANGED controllerVars
    BY <2>3 DEF ControllerTypeOK, controllerVars
  <2> QED
    BY <2>1, <2>2, <2>3 DEF ControllerNext
<1> QED
  BY <1>1, <1>2, PTL DEF ControllerSpec
-----------------------------------------------------------------------------
(* The inductive invariant                                                 *)

\* An accepted message keeps ControllerInv: one step for each of its parts.
LEMMA AcceptStep ==
    ASSUME ControllerInv, ControllerTypeOK', NEW m \in Message, Accepts(controller, m),
           controller' = Transition(controller, m)
    PROVE  ControllerInv'
<1> DEFINE n == Len(Ledger)
<1>1. /\ DOMAIN Ledger' = DOMAIN Ledger \cup {n + 1}
      /\ DOMAIN Ledger = 1 .. n /\ n \in Nat
      /\ \A i \in DOMAIN Ledger : Ledger'[i] = Ledger[i] /\ Ledger[i] \in Message
      /\ Ledger'[n + 1] = m
      /\ Len(Ledger') = n + 1
  <2>1. Ledger \in Seq(Message) /\ Ledger' = Append(Ledger, m)
    BY AcceptedFields DEF ControllerInv
  <2> QED
    BY <2>1, AppendMessage
<1>2. \A k : /\ Said(k)' <=> Said(k) \/ m.kind = k
             /\ LastIs(k)' <=> m.kind = k
  BY AcceptedFields, SaidAfter DEF ControllerInv
<1>3. Agreement'
  <2>1. LastIs("disconnected")' <=> controller'.state = "disconnected"
    BY <1>2, AcceptedKinds, AcceptedFields
       DEF ControllerInv, Live, Activity, Stepped, Terminal, TerminalKind
  <2>2. controller'.state = "artifact_ready" =>
          /\ LastIs("artifact_ready")'
          /\ controller'.bundle = Ledger'[Len(Ledger')].value
    BY <1>1, <1>2, AcceptedKinds, AcceptedFields DEF ControllerInv, Live
  <2>3. Said("artifact_ready")' =>
          controller'.state \in {"artifact_ready", "completed", "failed"}
    BY <1>2, AcceptedKinds, AcceptedFields
       DEF ControllerInv, Agreement, Live, Activity, Stepped, Terminal, TerminalKind
  <2>4. \/ controller'.state = "cancelling"
        \/ controller'.state = "disconnected" /\ controller'.resume = "cancelling"
        => Said("cancellation_requested")'
    BY <1>2, AcceptedKinds, AcceptedFields
       DEF ControllerInv, Agreement, Live, Link, Activity, Stepped, Terminal, TerminalKind
  <2>5. ASSUME NEW i \in DOMAIN Ledger', Ledger'[i].kind \in Stepped
        PROVE  Ledger'[i].value <= controller'.step
    <3>1. controller.step \in Nat /\ m.value \in Nat
      BY DEF ControllerInv, ControllerTypeOK, Message
    <3>2. CASE i = n + 1
      BY <1>1, <2>5, <3>1, <3>2, AcceptedFields DEF ControllerInv
    <3>3. CASE i \in DOMAIN Ledger
      <4>1. Ledger[i].kind \in Stepped
        BY <1>1, <2>5, <3>3
      <4>2. Ledger[i].value <= controller.step
        BY <3>3, <4>1 DEF ControllerInv, Agreement
      <4>3. Ledger[i].value \in Nat
        BY <1>1, <3>3 DEF Message
      <4> QED
        BY <1>1, <3>1, <3>3, <4>2, <4>3, AcceptedFields DEF ControllerInv
    <3> QED
      BY <1>1, <3>2, <3>3
  <2> QED
    BY <2>1, <2>2, <2>3, <2>4, <2>5 DEF Agreement
<1>4. TerminalJustified'
  <2>1. controller'.state = "completed" =>
          /\ Ledger'[Len(Ledger') - 1].kind = "artifact_ready"
          /\ ~Said("cancellation_requested")'
          /\ controller'.bundle = Ledger'[Len(Ledger') - 1].value
    <3> SUFFICES ASSUME controller'.state = "completed"
                 PROVE  /\ Ledger'[Len(Ledger') - 1].kind = "artifact_ready"
                        /\ ~Said("cancellation_requested")'
                        /\ controller'.bundle = Ledger'[Len(Ledger') - 1].value
      OBVIOUS
    <3>1. m.kind = "completed" /\ controller.state = "artifact_ready"
      BY AcceptedKinds, AcceptedFields DEF ControllerInv, Live, Terminal, TerminalKind
    <3>2. n \in DOMAIN Ledger /\ Ledger[n].kind = "artifact_ready"
          /\ controller.bundle = Ledger[n].value
      BY <1>1, <3>1 DEF ControllerInv, Agreement, LastIs
    <3>3. ~Said("cancellation_requested")
      BY <3>1 DEF ControllerInv, CancellationNotForgotten, Terminal, TerminalKind
    <3> QED
      BY <1>1, <1>2, <3>1, <3>2, <3>3, AcceptedFields DEF ControllerInv
  <2>2. controller'.state = "cancelled" =>
          Said("cancellation_requested")' /\ ~Said("artifact_ready")'
    BY <1>2, AcceptedKinds, AcceptedFields DEF ControllerInv, Agreement, Live, Terminal, TerminalKind
  <2> QED
    BY <2>1, <2>2 DEF TerminalJustified
<1>5. CancellationNotForgotten'
  BY <1>2, AcceptedKinds, AcceptedFields
     DEF ControllerInv, CancellationNotForgotten, Live, Link, Activity, Stepped, Terminal, TerminalKind
<1>6. DisconnectsPaired'
  <2> SUFFICES ASSUME NEW i \in DOMAIN Ledger'
               PROVE  /\ Ledger'[i].kind \in Link => Ledger'[i].value = i - 1
                      /\ Ledger'[i].kind = "disconnected" /\ i < Len(Ledger') =>
                           Ledger'[i + 1].kind \in {"reconnected", "interrupted", "failed"}
                      /\ Ledger'[i].kind = "reconnected" =>
                           i > 1 /\ Ledger'[i - 1].kind = "disconnected"
    BY DEF DisconnectsPaired
  <2>1. CASE i = n + 1
    <3>1. Ledger'[i] = m /\ i - 1 = n /\ ~(i < Len(Ledger'))
      BY <1>1, <2>1
    <3>2. m.kind \in Link => m.value = n
      BY AcceptedFields DEF ControllerInv
    <3>3. m.kind = "reconnected" => controller.state = "disconnected"
      BY AcceptedKinds DEF ControllerInv, Activity, Stepped
    <3>4. m.kind = "reconnected" =>
            n \in DOMAIN Ledger /\ n > 0 /\ Ledger[n].kind = "disconnected"
      BY <1>1, <3>3 DEF ControllerInv, Agreement, LastIs
    <3> QED
      BY <1>1, <3>1, <3>2, <3>4
  <2>2. CASE i \in DOMAIN Ledger
    <3>1. Ledger'[i] = Ledger[i] /\ i \in 1 .. n /\ i > 0
      BY <1>1, <2>2
    <3>2. Ledger[i].kind \in Link => Ledger[i].value = i - 1
      BY <2>2 DEF ControllerInv, DisconnectsPaired
    <3>3. Ledger[i].kind = "reconnected" => i > 1 /\ Ledger'[i - 1].kind = "disconnected"
      <4>1. Ledger[i].kind = "reconnected" => i > 1 /\ Ledger[i - 1].kind = "disconnected"
        BY <2>2 DEF ControllerInv, DisconnectsPaired
      <4>2. i > 1 => Ledger'[i - 1] = Ledger[i - 1]
        BY <1>1, <3>1
      <4> QED
        BY <4>1, <4>2
    <3>4. CASE i < n
      <4>1. Ledger[i].kind = "disconnected" =>
              Ledger[i + 1].kind \in {"reconnected", "interrupted", "failed"}
        BY <2>2, <3>4 DEF ControllerInv, DisconnectsPaired
      <4>2. Ledger'[i + 1] = Ledger[i + 1]
        BY <1>1, <3>1, <3>4
      <4> QED
        BY <3>1, <3>2, <3>3, <4>1, <4>2
    <3>5. CASE i = n
      <4>1. Ledger[n].kind = "disconnected" => controller.state = "disconnected"
        <5>1. LastIs("disconnected") => controller.state = "disconnected"
          BY DEF ControllerInv, Agreement
        <5> QED
          BY <3>1, <3>5, <5>1 DEF LastIs
      <4>2. controller.state = "disconnected" =>
              m.kind \in {"reconnected", "interrupted", "failed"}
        BY AcceptedKinds DEF ControllerInv, Live
      <4>3. Ledger'[i + 1] = m
        BY <1>1, <3>5
      <4> QED
        BY <3>1, <3>2, <3>3, <3>5, <4>1, <4>2, <4>3
    <3> QED
      BY <1>1, <3>1, <3>4, <3>5
  <2> QED
    BY <1>1, <2>1, <2>2
<1>7. StepsNeverRegress'
  <2> SUFFICES ASSUME NEW i \in DOMAIN Ledger', NEW j \in DOMAIN Ledger', i < j,
                      Ledger'[i].kind \in Stepped, Ledger'[j].kind \in Stepped
               PROVE  Ledger'[i].value <= Ledger'[j].value
    BY DEF StepsNeverRegress
  <2>1. i \in DOMAIN Ledger /\ Ledger[i].kind \in Stepped /\ Ledger[i].value <= controller.step
    BY <1>1 DEF ControllerInv, Agreement
  <2>2. CASE j = n + 1
    <3>1. Ledger[i].value \in Nat /\ controller.step \in Nat /\ m.value \in Nat
      BY <1>1, <2>1 DEF ControllerInv, ControllerTypeOK, Message
    <3> QED
      BY <1>1, <2>1, <2>2, <3>1, AcceptedFields DEF ControllerInv
  <2>3. CASE j \in DOMAIN Ledger
    BY <1>1, <2>1, <2>3 DEF ControllerInv, StepsNeverRegress
  <2> QED
    BY <1>1, <2>2, <2>3
<1> QED
  BY <1>3, <1>4, <1>5, <1>6, <1>7 DEF ControllerInv

\* ControllerInv holds in every reachable state.
THEOREM ControllerInductive == ControllerSpec => []ControllerInv
<1>1. ControllerInit => ControllerInv
  <2> SUFFICES ASSUME ControllerInit PROVE ControllerInv
    OBVIOUS
  <2>1. ControllerTypeOK
    BY DEF ControllerInit, NewController, ControllerTypeOK, ControllerState
  <2>2. Ledger = <<>> /\ controller.state = "created" /\ controller.resume = "created"
    BY DEF ControllerInit, NewController, Ledger
  <2>3. \A k : ~Said(k) /\ ~LastIs(k)
    BY <2>2 DEF Said, LastIs
  <2> QED
    BY <2>1, <2>2, <2>3 DEF ControllerInv, Agreement, TerminalJustified, CancellationNotForgotten,
                            DisconnectsPaired, StepsNeverRegress
<1>2. ControllerInv /\ ControllerTypeOK' /\ [ControllerNext]_controllerVars => ControllerInv'
  <2> SUFFICES ASSUME ControllerInv, ControllerTypeOK', [ControllerNext]_controllerVars PROVE ControllerInv'
    OBVIOUS
  <2>1. ASSUME NEW m \in Offered, AcceptNext(m) PROVE ControllerInv'
    <3>1. m \in Message
      BY OfferedType
    <3>2. Accepts(controller, m) /\ controller' = Transition(controller, m)
      BY <2>1 DEF AcceptNext
    <3> QED
      BY <3>1, <3>2, AcceptStep
  <2>2. CASE UNCHANGED controller
    BY <2>2 DEF ControllerInv, Agreement, TerminalJustified, CancellationNotForgotten,
                DisconnectsPaired, StepsNeverRegress, Said, LastIs, Ledger
  <2> QED
    BY <2>1, <2>2 DEF ControllerNext, AcceptReplay, Refuse, controllerVars
<1> QED
  BY <1>1, <1>2, TypeCorrect, PTL DEF ControllerSpec
-----------------------------------------------------------------------------
(* What follows                                                            *)

\* A run is completed only behind its artifact and with no cancellation
\* acknowledged, and cancelled only behind an acknowledged one.
THEOREM TerminalStatesJustified == ControllerSpec => []TerminalJustified
  BY ControllerInductive, PTL DEF ControllerInv

\* A cancellation survives any number of lost connections.
THEOREM CancellationKept == ControllerSpec => []CancellationNotForgotten
  BY ControllerInductive, PTL DEF ControllerInv

\* The ledger tells of paired disconnects and of steps that never go back.
THEOREM LedgerOrdered == ControllerSpec => [](DisconnectsPaired /\ StepsNeverRegress)
  BY ControllerInductive, PTL DEF ControllerInv

\* Nothing that is offered after a terminal message changes the controller.
THEOREM TerminalIsFinal == ControllerSpec => TerminalWinsOnce
<1>1. [ControllerNext]_controllerVars => [controller.state \in Terminal => UNCHANGED controller]_controllerVars
  BY DEF ControllerNext, AcceptNext, AcceptReplay, Refuse, Accepts, controllerVars
<1> QED
  BY <1>1, PTL DEF ControllerSpec, TerminalWinsOnce
-----------------------------------------------------------------------------
(* Reconstruction.  reconstruct() is a fold over the ledger, which is the   *)
(* last of a list of controllers that starts with a new one: Feeds.        *)

Feeds(h) ==
    /\ h[0] = NewController
    /\ \A i \in DOMAIN Ledger : h[i] = Transition(h[i - 1], Ledger[i])

Rebuilt ==
    /\ \E h : Feeds(h)
    /\ \A h : Feeds(h) =>
         /\ h[Len(Ledger)] = controller
         /\ \A i \in DOMAIN Ledger : Accepts(h[i - 1], Ledger[i])

\* A fresh controller that is fed the accepted messages in order accepts every
\* one of them and ends as the live controller, however it came to be.
THEOREM ReconstructsLive == ControllerSpec => []Rebuilt
<1>1. ControllerInit => Rebuilt
  <2> SUFFICES ASSUME ControllerInit PROVE Rebuilt
    OBVIOUS
  <2>1. Ledger = <<>> /\ controller = NewController
    BY DEF ControllerInit, NewController, Ledger
  <2>2. Feeds([i \in {0} |-> NewController])
    BY <2>1 DEF Feeds
  <2>3. \A h : Feeds(h) => h[Len(Ledger)] = controller
    BY <2>1 DEF Feeds
  <2> QED
    BY <2>1, <2>2, <2>3 DEF Rebuilt
<1>2. ControllerTypeOK /\ Rebuilt /\ [ControllerNext]_controllerVars => Rebuilt'
  <2> SUFFICES ASSUME ControllerTypeOK, Rebuilt, [ControllerNext]_controllerVars PROVE Rebuilt'
    OBVIOUS
  <2>1. ASSUME NEW m \in Offered, AcceptNext(m) PROVE Rebuilt'
    <3> DEFINE n == Len(Ledger)
    <3>1. m \in Message /\ Accepts(controller, m) /\ controller' = Transition(controller, m)
      BY <2>1, OfferedType DEF AcceptNext
    <3>2. Ledger \in Seq(Message) /\ Ledger' = Append(Ledger, m)
      BY <3>1, AcceptedFields
    <3>3. /\ DOMAIN Ledger' = DOMAIN Ledger \cup {n + 1}
          /\ DOMAIN Ledger = 1 .. n /\ n \in Nat
          /\ \A i \in DOMAIN Ledger : Ledger'[i] = Ledger[i]
          /\ Ledger'[n + 1] = m
          /\ Len(Ledger') = n + 1
      BY <3>1, <3>2, AppendMessage
    <3> HIDE DEF n
    <3>4. \E h : Feeds(h)'
      <4>1. PICK g : Feeds(g)
        BY DEF Rebuilt
      <4>2. g[n] = controller
        BY <4>1 DEF Rebuilt, n
      <4> DEFINE h == [i \in 0 .. n + 1 |-> IF i = n + 1 THEN controller' ELSE g[i]]
      <4>3. h[0] = NewController
        BY <3>3, <4>1 DEF Feeds
      <4>4. \A i \in DOMAIN Ledger : h[i] = g[i] /\ h[i - 1] = g[i - 1]
        BY <3>3
      <4>5. h[n + 1] = controller' /\ h[n + 1 - 1] = controller
        BY <3>3, <4>2
      <4> HIDE DEF h
      <4>6. \A i \in DOMAIN Ledger : h[i] = Transition(h[i - 1], Ledger'[i])
        BY <3>3, <4>1, <4>4 DEF Feeds
      <4>7. h[n + 1] = Transition(h[n + 1 - 1], Ledger'[n + 1])
        BY <3>1, <3>3, <4>5
      <4>8. \A i \in DOMAIN Ledger' : h[i] = Transition(h[i - 1], Ledger'[i])
        BY <3>3, <4>6, <4>7
      <4> QED
        BY <4>3, <4>8 DEF Feeds
    <3>5. ASSUME NEW h, Feeds(h)'
          PROVE  /\ h[Len(Ledger')] = controller'
                 /\ \A i \in DOMAIN Ledger' : Accepts(h[i - 1], Ledger'[i])
      <4>1. Feeds(h)
        BY <3>3, <3>5 DEF Feeds
      <4>2. h[n] = controller /\ \A i \in DOMAIN Ledger : Accepts(h[i - 1], Ledger[i])
        BY <4>1 DEF Rebuilt, n
      <4>3. n + 1 - 1 = n
        BY <3>3
      <4>4. h[n + 1] = Transition(h[n], m)
        BY <3>3, <3>5, <4>3 DEF Feeds
      <4> QED
        BY <3>1, <3>3, <4>2, <4>3, <4>4
    <3> QED
      BY <3>4, <3>5 DEF Rebuilt
  <2>2. CASE UNCHANGED controller
    BY <2>2 DEF Rebuilt, Feeds, Ledger
  <2> QED
    BY <2>1, <2>2 DEF ControllerNext, AcceptReplay, Refuse, controllerVars
<1> QED
  BY <1>1, <1>2, TypeCorrect, PTL DEF ControllerSpec

-----------------------------------------------------------------------------
(* The same of the fold itself.  FoldLeft goes through the subsets of the  *)
(* positions by a recursive function, of which Folds(g) says that g is it; *)
(* Start and Step are its base and its operator.  A message appended       *)
(* extends the function, and leaves it as it was on the earlier positions. *)

Start == [ok |-> TRUE, made |-> NewController]

Step(r, m) ==
    IF r.ok /\ Accepts(r.made, m) THEN [ok |-> TRUE, made |-> Transition(r.made, m)]
    ELSE [ok |-> FALSE, made |-> r.made]

Folds(g) ==
    g = [t \in SUBSET DOMAIN Ledger |->
            IF t = {} THEN Start ELSE Step(g[t \ {Max(t)}], Ledger[Max(t)])]

Kept == [ok |-> TRUE, made |-> controller]

FoldsToLive ==
    /\ \E g : Folds(g)
    /\ \A g : Folds(g) => g[DOMAIN Ledger] = Kept

\* A set of positions has a last one.
LEMMA Greatest ==
    ASSUME NEW n \in Nat, NEW t \in SUBSET (1 .. n), t # {}
    PROVE  Max(t) \in t
<1> DEFINE B == {k \in Nat : \A y \in t : y <= k}
<1>1. n \in B
  OBVIOUS
<1>2. PICK k \in B : \A j \in B : ~(<<j, k>> \in OpToRel(<, Nat))
  BY <1>1, WFMin, NatLessThanWellFounded
<1>3. k \in t
  <2> SUFFICES ASSUME k \notin t PROVE FALSE
    OBVIOUS
  <2>1. k \in Nat /\ \A y \in t : y \in Nat /\ y >= 1 /\ y <= k /\ y # k
    OBVIOUS
  <2>2. k >= 1
    <3>1. PICK y : y \in t
      OBVIOUS
    <3> QED
      BY <2>1, <3>1
  <2>3. k - 1 \in Nat /\ \A y \in t : y <= k - 1
    BY <2>1, <2>2
  <2>4. k - 1 \in B
    BY <2>3
  <2>5. k - 1 < k
    BY <2>1
  <2>6. <<k - 1, k>> \in OpToRel(<, Nat)
    BY <2>1, <2>3, <2>5 DEF OpToRel
  <2> QED
    BY <1>2, <2>4, <2>6
<1> QED
  BY <1>3 DEF Max

LEMMA FoldIsReconstruct ==
    ASSUME FoldsToLive
    PROVE  RebuiltFromLedger
<1> DEFINE g == CHOOSE g : Folds(g)
<1>1. Folds(g)
  BY DEF FoldsToLive
<1>2. g[DOMAIN Ledger] = Kept
  BY <1>1 DEF FoldsToLive
<1>3. Reconstruct(Ledger) = g[DOMAIN Ledger]
  BY DEF Reconstruct, FoldLeft, MapThenFoldSet, Folds, Start, Step
<1> QED
  BY <1>2, <1>3 DEF RebuiltFromLedger, Kept

\* Rebuilding the controller from the ledger of messages it accepted gives
\* exactly the live controller, whatever was offered to it.
THEOREM ReconstructionIsExact == ControllerSpec => []RebuiltFromLedger
<1>1. ControllerInit => FoldsToLive
  <2> SUFFICES ASSUME ControllerInit PROVE FoldsToLive
    OBVIOUS
  <2>1. DOMAIN Ledger = {} /\ Kept = Start
    BY DEF ControllerInit, NewController, Ledger, Kept, Start
  <2>2. SUBSET {} = {{}}
    OBVIOUS
  <2>3. Folds([t \in SUBSET DOMAIN Ledger |-> Start])
    BY <2>1, <2>2 DEF Folds
  <2>4. \A g : Folds(g) => g[{}] = Start
    BY <2>1, <2>2 DEF Folds
  <2> QED
    BY <2>1, <2>3, <2>4 DEF FoldsToLive
<1>2. ControllerTypeOK /\ FoldsToLive /\ [ControllerNext]_controllerVars => FoldsToLive'
  <2> SUFFICES ASSUME ControllerTypeOK, FoldsToLive, [ControllerNext]_controllerVars PROVE FoldsToLive'
    OBVIOUS
  <2>1. ASSUME NEW m \in Offered, AcceptNext(m) PROVE FoldsToLive'
    <3> DEFINE n == Len(Ledger)
               D == DOMAIN Ledger
    <3>1. m \in Message /\ Accepts(controller, m) /\ controller' = Transition(controller, m)
      BY <2>1, OfferedType DEF AcceptNext
    <3>2. Ledger \in Seq(Message) /\ Ledger' = Append(Ledger, m)
      BY <3>1, AcceptedFields
    <3>3. /\ DOMAIN Ledger' = D \cup {n + 1}
          /\ D = 1 .. n /\ n \in Nat /\ n + 1 \notin D
          /\ \A i \in D : Ledger'[i] = Ledger[i]
          /\ Ledger'[n + 1] = m
      BY <3>1, <3>2, AppendMessage
    <3> HIDE DEF n, D
    <3>4. Kept' = Step(Kept, m)
      BY <3>1 DEF Kept, Step
    <3>5. \A t \in SUBSET (D \cup {n + 1}) : n + 1 \in t => Max(t) = n + 1
      <4> SUFFICES ASSUME NEW t \in SUBSET (D \cup {n + 1}), n + 1 \in t
                   PROVE  Max(t) = n + 1
        OBVIOUS
      <4>1. \A y \in t : y \in Nat /\ n + 1 >= y
        BY <3>3
      <4>2. \A x \in t : (\A y \in t : x >= y) => x = n + 1
        BY <3>3, <4>1
      <4> QED
        BY <4>1, <4>2 DEF Max
    <3>6. \A t \in SUBSET D : t # {} => Max(t) \in D
      BY <3>3, Greatest
    <3>7. \E g : Folds(g)'
      <4>1. PICK g : Folds(g)
        BY DEF FoldsToLive
      <4> DEFINE f == [t \in SUBSET (D \cup {n + 1}) |->
                          IF n + 1 \in t THEN Step(g[t \ {n + 1}], m) ELSE g[t]]
      <4>2. \A t \in SUBSET (D \cup {n + 1}) :
               f[t] = IF t = {} THEN Start
                      ELSE Step(f[t \ {Max(t)}], Ledger'[Max(t)])
        <5> SUFFICES ASSUME NEW t \in SUBSET (D \cup {n + 1})
                     PROVE  f[t] = IF t = {} THEN Start
                                   ELSE Step(f[t \ {Max(t)}], Ledger'[Max(t)])
          OBVIOUS
        <5>1. CASE n + 1 \in t
          <6>1. Max(t) = n + 1 /\ t # {}
            BY <3>5, <5>1
          <6>2. t \ {n + 1} \in SUBSET (D \cup {n + 1}) /\ n + 1 \notin t \ {n + 1}
            OBVIOUS
          <6>3. f[t \ {n + 1}] = g[t \ {n + 1}]
            BY <6>2
          <6>4. f[t] = Step(g[t \ {n + 1}], m)
            BY <5>1
          <6> HIDE DEF f
          <6> QED
            BY <3>3, <6>1, <6>3, <6>4
        <5>2. CASE t = {}
          <6>1. f[t] = g[t]
            BY <5>2
          <6>2. g[{}] = Start
            BY <4>1 DEF Folds
          <6> QED
            BY <5>2, <6>1, <6>2
        <5>3. CASE n + 1 \notin t /\ t # {}
          <6>1. t \in SUBSET D /\ Max(t) \in D
            BY <3>6, <5>3
          <6>2. f[t] = g[t] /\ f[t \ {Max(t)}] = g[t \ {Max(t)}]
            BY <5>3
          <6>3. g[t] = Step(g[t \ {Max(t)}], Ledger[Max(t)])
            BY <4>1, <5>3, <6>1 DEF Folds, D
          <6>4. Ledger'[Max(t)] = Ledger[Max(t)]
            BY <3>3, <6>1
          <6> HIDE DEF f
          <6> QED
            BY <5>3, <6>2, <6>3, <6>4
        <5> QED
          BY <5>1, <5>2, <5>3
      <4>3. f = [t \in SUBSET (D \cup {n + 1}) |-> f[t]]
        OBVIOUS
      <4> HIDE DEF f
      <4>4. f = [t \in SUBSET (D \cup {n + 1}) |->
                    IF t = {} THEN Start ELSE Step(f[t \ {Max(t)}], Ledger'[Max(t)])]
        BY <4>2, <4>3
      <4> QED
        BY <3>3, <4>4 DEF Folds
    <3>8. ASSUME NEW f, Folds(f)' PROVE f[D \cup {n + 1}] = Kept'
      <4> DEFINE g == [t \in SUBSET D |-> f[t]]
      <4>1. \A t \in SUBSET D :
               f[t] = IF t = {} THEN Start ELSE Step(f[t \ {Max(t)}], Ledger[Max(t)])
        <5>1. \A t \in SUBSET D : t # {} => Ledger'[Max(t)] = Ledger[Max(t)]
          BY <3>3, <3>6
        <5>2. \A t \in SUBSET (D \cup {n + 1}) :
                 f[t] = IF t = {} THEN Start ELSE Step(f[t \ {Max(t)}], Ledger'[Max(t)])
          BY <3>3, <3>8 DEF Folds
        <5> QED
          BY <5>1, <5>2
      <4>2. \A t \in SUBSET D :
               g[t] = IF t = {} THEN Start ELSE Step(g[t \ {Max(t)}], Ledger[Max(t)])
        BY <4>1
      <4>3. g = [t \in SUBSET D |-> g[t]]
        OBVIOUS
      <4>4. g[D] = f[D]
        OBVIOUS
      <4> HIDE DEF g
      <4>5. Folds(g)
        BY <4>2, <4>3 DEF Folds, D
      <4>6. f[D] = Kept
        BY <4>4, <4>5 DEF FoldsToLive, D
      <4>7. Max(D \cup {n + 1}) = n + 1 /\ (D \cup {n + 1}) \ {n + 1} = D
        BY <3>3, <3>5
      <4>8. f[D \cup {n + 1}] = Step(f[D], m)
        <5>1. \A t \in SUBSET (D \cup {n + 1}) :
                 f[t] = IF t = {} THEN Start ELSE Step(f[t \ {Max(t)}], Ledger'[Max(t)])
          BY <3>3, <3>8 DEF Folds
        <5>2. D \cup {n + 1} # {}
          OBVIOUS
        <5> QED
          BY <3>3, <4>7, <5>1, <5>2
      <4> QED
        BY <3>4, <4>6, <4>8
    <3> QED
      BY <3>3, <3>7, <3>8 DEF FoldsToLive
  <2>2. CASE UNCHANGED controller
    BY <2>2 DEF FoldsToLive, Folds, Kept, Ledger
  <2> QED
    BY <2>1, <2>2 DEF ControllerNext, AcceptReplay, Refuse, controllerVars
<1> QED
  BY <1>1, <1>2, TypeCorrect, FoldIsReconstruct, PTL DEF ControllerSpec

-----------------------------------------------------------------------------
(* LibraryAdapter                                                          *)

Looping == {"check", "progress", "recheck"}

Polling == {"poll", "heartbeat", "checkpoint"}

Training == Looping \cup Polling \cup {"spawn"}

Labels == Training \cup {"idle", "acquire", "release", "conclude", "leave"}

Outcome == {"completed", "interrupted", "cancelled", "disconnected", "failed"}

Controller ==
    [state : ControllerState, step : Nat, heartbeats : Nat, checkpoints : Nat,
     metrics : Nat, bundle : Nat, resume : ControllerState, messages : Seq(Message)]

Execution ==
    [pc : Labels, run : Run \cup {"none"}, control : [cancel : Nat, interrupt : Nat],
     step : Nat, sequence : Nat, controller : Controller,
     result : Outcome \cup {"none"}, misled : BOOLEAN, executions : Nat]

Worker ==
    [step : Nat, asked : SUBSET {"cancel", "interrupt"},
     status : {"none", "running", "completed", "cancelled", "interrupted"}]

TypeOK ==
    /\ thread \in [Thread -> Execution]
    /\ worker \in [Remote -> Worker]
    /\ active \subseteq Run
    /\ DOMAIN leases \subseteq Run

InStep(s) == s.sequence = LastSequence(s.controller)

\* The controller follows the adapter and the run has not ended.
Follows(s) == InStep(s) /\ s.controller.state = "active" /\ ~s.misled

\* The ledger's end is the outcome, or it has none.
Told(s) ==
    IF Refused(s) THEN s.misled /\ s.result = "failed" /\ s.controller.state \notin Terminal
    ELSE s.controller.state = IF s.result = "disconnected" THEN "interrupted" ELSE s.result

\* What an execution has established when it is at its label.
Sound(s) ==
    /\ s.step <= Steps
    /\ s.control.cancel <= Steps /\ s.control.interrupt <= Steps
    /\ s.control.interrupt # 0 => s.control.interrupt < Steps
    /\ s.run \notin Remote =>
         /\ s.control.cancel # 0 => s.step <= s.control.cancel
         /\ s.control.interrupt # 0 => s.step <= s.control.interrupt
         /\ s.result = "completed" => s.control.cancel \in {0, Steps} /\ s.control.interrupt = 0
    /\ s.result = "cancelled" => s.control.cancel # 0 /\ s.step >= s.control.cancel
    /\ s.result = "interrupted" => s.control.interrupt # 0 /\ s.step >= s.control.interrupt
    /\ s.pc \in Looping => s.run \notin Remote
    /\ s.pc \in {"spawn", "poll"} => s.run \in Remote
    /\ s.pc = "progress" => /\ s.step < Steps
                            /\ s.control.cancel # s.step \/ s.control.cancel = 0
                            /\ s.control.interrupt # s.step \/ s.control.interrupt = 0
    /\ s.pc \in Training \cup {"acquire"} =>
         Follows(s) /\ s.result = "none" /\ s.controller.step \in {0, s.step}
    /\ s.pc \in {"release", "conclude"} => s.result # "none"
    /\ s.pc = "conclude" => s.result # "failed"
    /\ s.pc \in {"release", "conclude"} /\ s.result # "failed" => Follows(s)
    /\ s.pc = "release" /\ s.result = "failed" => Told(s)
    /\ s.pc = "leave" => Told(s)

\* The host is behind its worker, and what was asked of the worker was due.
Behind(s, w) ==
    /\ s.step <= w.step /\ w.step <= Steps
    /\ w.status # "none"
    /\ "cancel" \in w.asked => s.control.cancel # 0 /\ s.step >= s.control.cancel
    /\ "interrupt" \in w.asked => s.control.interrupt # 0 /\ s.step >= s.control.interrupt
    /\ w.status = "cancelled" => "cancel" \in w.asked
    /\ w.status = "interrupted" => "interrupt" \in w.asked

Polls(s) == s.run \in Remote /\ s.pc \in Polling

Busy(t) == thread[t].pc # "idle"

Leasing(t) == thread[t].pc \in Training \cup {"release"}

Users(resource) == {o \in DOMAIN leases : resource \in leases[o]}

\* One execution per active run, one lease per execution that acquired and has
\* not released, and no resource leased beyond its capacity.
Accounts ==
    /\ \A t \in Thread : Busy(t) => thread[t].run \in active
    /\ \A t, u \in Thread : Busy(t) /\ Busy(u) /\ thread[t].run = thread[u].run => t = u
    /\ DOMAIN leases = {thread[t].run : t \in {u \in Thread : Leasing(u)}}
    /\ \A o \in DOMAIN leases : leases[o] = Needs[o]
    /\ IsFiniteSet(DOMAIN leases)
    /\ \A resource \in DOMAIN Capacity : Cardinality(Users(resource)) <= Capacity[resource]

IInv ==
    /\ TypeOK
    /\ \A t \in Thread : Sound(thread[t])
    /\ \A t \in Thread : Polls(thread[t]) => Behind(thread[t], worker[thread[t].run])
    /\ Accounts

-----------------------------------------------------------------------------
(* Lemmas about emit()                                                     *)

\* A message leaves the controller well typed.
LEMMA TransitionType ==
    ASSUME NEW c \in Controller, NEW m \in Message
    PROVE  Transition(c, m) \in Controller
<1>1. m.value \in Nat /\ m.kind \in Kind
  BY DEF Message
<1>2. Successor(c, m) \in ControllerState
  BY <1>1 DEF Controller, Successor, Kind, ControllerState, Live, Terminal,
              TerminalKind, Activity, Stepped, Link
<1>3. Tick("heartbeat", m) \in Nat /\ Tick("checkpoint", m) \in Nat /\ Tick("metric", m) \in Nat
  BY DEF Tick
<1>4. Append(c.messages, m) \in Seq(Message)
  BY DEF Controller
<1>5. "created" \in ControllerState
  BY DEF ControllerState
<1> QED
  BY <1>1, <1>2, <1>3, <1>4, <1>5, SMTT(30) DEF Transition, Controller

\* emit() takes the next number, and the controller takes the message or not.
LEMMA EmittedFields ==
    ASSUME NEW s \in Execution, NEW k \in Kind, NEW v \in Nat, NEW e, e = Emitted(s, k, v)
    PROVE  /\ e \in Execution
           /\ e.pc = s.pc /\ e.run = s.run /\ e.control = s.control /\ e.step = s.step
           /\ e.result = s.result /\ e.misled = s.misled /\ e.executions = s.executions
           /\ e.sequence = s.sequence + 1
           /\ e.controller = IF Accepts(s.controller, Msg(s.sequence + 1, k, v))
                             THEN Transition(s.controller, Msg(s.sequence + 1, k, v))
                             ELSE s.controller
<1> DEFINE m == Msg(s.sequence + 1, k, v)
<1>1. m \in Message
  BY DEF Msg, Message, Execution
<1>2. Transition(s.controller, m) \in Controller
  BY <1>1, TransitionType DEF Execution
<1> DEFINE c == IF Accepts(s.controller, m) THEN Transition(s.controller, m) ELSE s.controller
<1>3. e = [s EXCEPT !.sequence = s.sequence + 1, !.controller = c]
  BY DEF Emitted
<1>4. c \in Controller /\ s.sequence + 1 \in Nat
  BY <1>2 DEF Execution
<1> HIDE DEF m, c
<1>5. /\ e \in Execution /\ e.controller = c /\ e.sequence = s.sequence + 1
      /\ e.pc = s.pc /\ e.run = s.run /\ e.control = s.control /\ e.step = s.step
      /\ e.result = s.result /\ e.misled = s.misled /\ e.executions = s.executions
  BY <1>3, <1>4 DEF Execution
<1> QED
  BY <1>5 DEF c, m

\* The next message, when the controller is in a state that admits it.
LEMMA Taken ==
    ASSUME NEW s \in Execution, NEW k \in Kind, NEW v \in Nat, NEW e, e = Emitted(s, k, v),
           InStep(s), s.controller.state \in Sources(k), s.controller.state \notin Terminal,
           k # "reconnected", k \in Stepped => v >= s.controller.step,
           k \in Link => v = s.sequence
    PROVE  /\ InStep(e)
           /\ e.controller.state =
                CASE k = "launched" -> "active"
                  [] k = "cancellation_requested" -> "cancelling"
                  [] k \in Activity -> s.controller.state
                  [] OTHER -> k
           /\ e.controller.step = IF k \in Stepped THEN v ELSE s.controller.step
<1> DEFINE m == Msg(s.sequence + 1, k, v)
           c == s.controller
<1>1. m.sequence = s.sequence + 1 /\ m.kind = k /\ m.value = v
  BY DEF Msg
<1>2. Accepts(c, m)
  BY <1>1 DEF InStep, Accepts, Admits, StepInOrder, LinkInStep
<1>3. e.controller = Transition(c, m) /\ e.sequence = s.sequence + 1
  BY <1>2, EmittedFields
<1>4. c.messages \in Seq(Message) /\ m \in Message
  BY <1>1 DEF Execution, Controller, Message, Msg
<1>5. LastSequence(e.controller) = LastSequence(c) + 1
  BY <1>3, <1>4 DEF Transition, LastSequence
<1>6. e.controller.state = Successor(c, m)
  BY <1>3 DEF Transition
<1>7. e.controller.step = IF k \in Stepped THEN v ELSE c.step
  BY <1>1, <1>3 DEF Transition
<1> HIDE DEF m
<1>8. InStep(e)
  BY <1>3, <1>5 DEF InStep
<1>9. k \notin {"launched", "cancellation_requested"} \/ k \notin Activity
  BY DEF Activity, Stepped
<1> QED
  BY <1>1, <1>6, <1>7, <1>8, <1>9 DEF Successor

\* While the backend trains, its progress, metrics, heartbeats and checkpoints
\* are taken.
LEMMA Reported ==
    ASSUME NEW s \in Execution, Follows(s), NEW k \in Activity, NEW v \in Nat,
           k \in Stepped => v >= s.controller.step, NEW e, e = Emitted(s, k, v)
    PROVE  /\ e \in Execution /\ Follows(e) /\ ~Refused(e)
           /\ e.controller.step = IF k \in Stepped THEN v ELSE s.controller.step
           /\ e.pc = s.pc /\ e.run = s.run /\ e.control = s.control /\ e.step = s.step
           /\ e.result = s.result /\ e.executions = s.executions
<1>1. k \in Kind /\ k \notin Link /\ k # "reconnected" /\ k # "launched"
      /\ k # "cancellation_requested"
  BY DEF Kind, Activity, Stepped, Link
<1>2. s.controller.state \in Sources(k) /\ s.controller.state \notin Terminal
  BY <1>1 DEF Follows, Sources, Live, Terminal, TerminalKind, Activity, Stepped
<1>3. InStep(e) /\ e.controller.state = "active"
      /\ e.controller.step = IF k \in Stepped THEN v ELSE s.controller.step
  BY <1>1, <1>2, Taken DEF Follows
<1>4. /\ e \in Execution /\ e.misled = s.misled
      /\ e.pc = s.pc /\ e.run = s.run /\ e.control = s.control /\ e.step = s.step
      /\ e.result = s.result /\ e.executions = s.executions
  BY <1>1, EmittedFields
<1> QED
  BY <1>3, <1>4 DEF Follows, Refused, InStep

\* A run that trains can still be ended, interrupted or disconnected.
LEMMA Ending ==
    ASSUME NEW s \in Execution, Follows(s), NEW k \in {"failed", "interrupted", "disconnected",
                                                       "cancellation_requested", "artifact_ready"},
           NEW v \in Nat, k = "disconnected" => v = s.sequence, NEW e, e = Emitted(s, k, v)
    PROVE  /\ InStep(e)
           /\ e.controller.state = IF k = "cancellation_requested" THEN "cancelling" ELSE k
<1>1. k \in Kind /\ k \notin Stepped \cup Activity /\ (k \in Link => k = "disconnected")
  BY DEF Kind, TerminalKind, Stepped, Link, Activity
<1>2. s.controller.state \in Sources(k) /\ s.controller.state \notin Terminal
  BY DEF Follows, Sources, ReadyFrom, Activity, Stepped, ControllerState, Live, Terminal,
         TerminalKind
<1>3. /\ InStep(e)
      /\ e.controller.state =
           CASE k = "launched" -> "active"
             [] k = "cancellation_requested" -> "cancelling"
             [] k \in Activity -> s.controller.state
             [] OTHER -> k
  BY <1>1, <1>2, Taken DEF Follows
<1> QED
  BY <1>1, <1>3

\* The terminal message of a conclusion follows the message that allows it.
LEMMA Concluding ==
    ASSUME NEW s \in Execution, InStep(s), NEW k \in {"completed", "cancelled", "interrupted"},
           s.controller.state = CASE k = "completed" -> "artifact_ready"
                                  [] k = "cancelled" -> "cancelling"
                                  [] k = "interrupted" -> "disconnected",
           NEW e, e = Emitted(s, k, 0)
    PROVE  InStep(e) /\ e.controller.state = k
<1>1. k \in Kind /\ k \notin Stepped \cup Activity \cup Link
  BY DEF Kind, TerminalKind, Stepped, Link, Activity
<1>2. s.controller.state \in Sources(k) /\ s.controller.state \notin Terminal
  BY DEF Sources, Activity, Stepped, Live, Terminal, TerminalKind
<1>3. /\ InStep(e)
      /\ e.controller.state =
           CASE k = "launched" -> "active"
             [] k = "cancellation_requested" -> "cancelling"
             [] k \in Activity -> s.controller.state
             [] OTHER -> k
  BY <1>1, <1>2, Taken
<1> QED
  BY <1>1, <1>3

-----------------------------------------------------------------------------
(* Lemmas about the accounts                                               *)

\* What is on a moved thread's record, and that no other thread is touched.
LEMMA MovedThread ==
    ASSUME TypeOK, NEW t \in Thread, NEW e \in Execution, Moved(t, e)
    PROVE  /\ thread' \in [Thread -> Execution]
           /\ thread'[t] = e
           /\ \A u \in Thread \ {t} : thread'[u] = thread[u]
  BY DEF TypeOK, Moved

\* A thread that executes a run shares it with nobody.
LEMMA BusyRun ==
    ASSUME IInv, NEW t \in Thread, Busy(t)
    PROVE  /\ thread[t].run \in Run /\ thread[t].run \in active
           /\ \A u \in Thread \ {t} : Busy(u) => thread[u].run # thread[t].run
           /\ thread[t].run \in DOMAIN leases <=> Leasing(t)
  BY DEF IInv, TypeOK, Accounts, Leasing, Busy, Training, Looping, Polling

\* What a thread knows of its worker, when another run's worker moves.
LEMMA OthersStay ==
    ASSUME IInv, NEW t \in Thread, Busy(t), NEW w \in [Remote -> Worker],
           \A r \in Remote \ {thread[t].run} : w[r] = worker[r]
    PROVE  \A u \in Thread \ {t} : Polls(thread[u]) => Behind(thread[u], w[thread[u].run])
<1> SUFFICES ASSUME NEW u \in Thread \ {t}, Polls(thread[u])
             PROVE  Behind(thread[u], w[thread[u].run])
  OBVIOUS
<1>1. Busy(u) /\ thread[u].run \in Remote
  BY DEF Polls, Polling, Busy
<1>2. thread[u].run # thread[t].run
  BY <1>1, BusyRun
<1>3. w[thread[u].run] = worker[thread[u].run]
  BY <1>1, <1>2
<1> QED
  BY <1>3 DEF IInv

\* A step that takes or gives back nothing keeps the invariant if the moved
\* thread has established what its new label says, of its worker as well.
LEMMA WorkerLocalStep ==
    ASSUME IInv, NEW t \in Thread, NEW e \in Execution, Moved(t, e),
           UNCHANGED <<active, leases>>, Busy(t), e.pc # "idle", e.run = thread[t].run,
           Leasing(t) <=> e.pc \in Training \cup {"release"}, Sound(e),
           worker' \in [Remote -> Worker],
           \A r \in Remote \ {thread[t].run} : worker'[r] = worker[r],
           Polls(e) => Behind(e, worker'[e.run])
    PROVE  IInv'
<1>1. /\ thread' \in [Thread -> Execution] /\ thread'[t] = e
      /\ \A u \in Thread \ {t} : thread'[u] = thread[u]
  BY MovedThread DEF IInv
<1>2. \A u \in Thread : /\ thread'[u].run = thread[u].run
                        /\ Busy(u)' <=> Busy(u)
                        /\ Leasing(u)' <=> Leasing(u)
  BY <1>1 DEF Busy, Leasing
<1>3. {thread'[u].run : u \in {w \in Thread : Leasing(w)'}} = {thread[u].run : u \in {w \in Thread : Leasing(w)}}
  BY <1>2
<1>4. Accounts'
  BY <1>2, <1>3 DEF IInv, Accounts, Users
<1>5. TypeOK'
  BY <1>1 DEF IInv, TypeOK
<1>6. \A u \in Thread : Sound(thread'[u])
  BY <1>1 DEF IInv
<1>7. \A u \in Thread : Polls(thread'[u]) => Behind(thread'[u], worker'[thread'[u].run])
  BY <1>1, OthersStay
<1> QED
  BY <1>4, <1>5, <1>6, <1>7 DEF IInv, Sound, Follows, InStep, Told, Refused, Behind, Polls

\* The same, where no worker moves.
LEMMA LocalStep ==
    ASSUME IInv, NEW t \in Thread, NEW e \in Execution, Moved(t, e),
           UNCHANGED <<active, leases, worker>>, Busy(t), e.pc # "idle", e.run = thread[t].run,
           Leasing(t) <=> e.pc \in Training \cup {"release"}, Sound(e),
           Polls(e) => Behind(e, worker[e.run])
    PROVE  IInv'
  BY WorkerLocalStep DEF IInv, TypeOK

\* A resource's users, when one owner more holds its needs.
LEMMA AcquireStep ==
    ASSUME IInv, NEW t \in Thread, Acquire(t)
    PROVE  IInv'
<1> DEFINE run == thread[t].run
           l == IF run \in Remote THEN "spawn" ELSE "check"
           e == [thread[t] EXCEPT !.pc = l]
<1>1. At(t, "acquire") /\ Moved(t, e) /\ active' = active /\ worker' = worker
      /\ leases' = [o \in DOMAIN leases \cup {run} |-> IF o = run THEN Needs[run] ELSE leases[o]]
  BY DEF Acquire
<1>2. Busy(t) /\ ~Leasing(t)
  BY <1>1 DEF At, Busy, Leasing, Training, Looping, Polling
<1>3. /\ run \in Run /\ run \in active /\ run \notin DOMAIN leases
      /\ \A u \in Thread \ {t} : Busy(u) => thread[u].run # run
  BY <1>2, BusyRun
<1>4. \A resource \in Needs[run] : Usage(resource) < Capacity[resource]
  BY <1>3 DEF Acquire, Available
<1>5. thread[t] \in Execution /\ e \in Execution /\ e.pc = l /\ e.run = run
  BY DEF IInv, TypeOK, Execution, Labels, Training, Looping
<1>6. /\ thread' \in [Thread -> Execution] /\ thread'[t] = e
      /\ \A u \in Thread \ {t} : thread'[u] = thread[u]
  BY <1>1, <1>5, MovedThread DEF IInv
<1>7. Sound(e)
  <2>1. Sound(thread[t]) /\ thread[t].pc = "acquire"
    BY <1>1 DEF IInv, At
  <2>2. /\ e.step = thread[t].step /\ e.control = thread[t].control
        /\ e.result = thread[t].result /\ e.controller = thread[t].controller
        /\ e.sequence = thread[t].sequence /\ e.misled = thread[t].misled
    BY <1>5 DEF Execution
  <2>3. /\ l \in {"spawn", "check"} /\ (l = "check" => run \notin Remote)
        /\ (l = "spawn" => run \in Remote)
    OBVIOUS
  <2> HIDE DEF e, l
  <2> QED
    BY <1>5, <2>1, <2>2, <2>3 DEF Sound, Follows, InStep, Training, Looping
<1>17. l \in {"spawn", "check"}
  OBVIOUS
<1> HIDE DEF run, e, l
<1>8. /\ DOMAIN leases' = DOMAIN leases \cup {run} /\ leases'[run] = Needs[run]
      /\ \A o \in DOMAIN leases : leases'[o] = leases[o]
  BY <1>1, <1>3
<1>9. ASSUME NEW resource \in DOMAIN Capacity
      PROVE  Cardinality(Users(resource)') <= Capacity[resource]
  <2>1. IsFiniteSet(Users(resource)) /\ Cardinality(Users(resource)) \in Nat
    BY FS_Subset, FS_CardinalityType DEF IInv, Accounts, Users
  <2>2. Cardinality(Users(resource)) <= Capacity[resource] /\ Capacity[resource] \in Nat
    BY ResourceAssumption DEF IInv, Accounts
  <2>3. CASE resource \in Needs[run]
    <3>1. Users(resource)' = Users(resource) \cup {run}
      BY <1>8, <2>3 DEF Users
    <3>2. Cardinality(Users(resource)) < Capacity[resource]
      BY <1>4, <2>3 DEF Usage, Users
    <3>3. Cardinality(Users(resource)') \in {Cardinality(Users(resource)), Cardinality(Users(resource)) + 1}
      BY <2>1, <3>1, FS_AddElement
    <3> QED
      BY <2>1, <2>2, <3>2, <3>3
  <2>4. CASE resource \notin Needs[run]
    <3>1. Users(resource)' = Users(resource)
      BY <1>3, <1>8, <2>4 DEF Users
    <3> QED
      BY <2>2, <3>1
  <2> QED
    BY <2>3, <2>4
<1>10. \A u \in Thread : /\ thread'[u].run = thread[u].run
                         /\ Busy(u)' <=> Busy(u)
                         /\ Leasing(u)' <=> Leasing(u) \/ u = t
  BY <1>2, <1>5, <1>6, <1>17 DEF Busy, Leasing, Training, Looping, run
<1>11. DOMAIN leases' = {thread'[u].run : u \in {w \in Thread : Leasing(w)'}}
  BY <1>8, <1>10 DEF IInv, Accounts, run
<1>12. \A o \in DOMAIN leases' : leases'[o] = Needs[o]
  BY <1>8 DEF IInv, Accounts
<1>13. IsFiniteSet(DOMAIN leases')
  BY <1>8, FS_AddElement DEF IInv, Accounts
<1>14. Accounts'
  BY <1>1, <1>9, <1>10, <1>11, <1>12, <1>13 DEF IInv, Accounts
<1>15. TypeOK'
  BY <1>1, <1>3, <1>6, <1>8 DEF IInv, TypeOK
<1>16. \A u \in Thread : Sound(thread'[u])
  BY <1>6, <1>7 DEF IInv
<1>18. \A u \in Thread : Polls(thread'[u]) => Behind(thread'[u], worker'[thread'[u].run])
  BY <1>1, <1>5, <1>6, <1>17 DEF IInv, Polls, Polling
<1> QED
  BY <1>14, <1>15, <1>16, <1>18 DEF IInv, Sound, Follows, InStep, Told, Refused, Behind, Polls

\* The lease that goes is the run's own, and it was the only one of the run.
LEMMA ReleaseStep ==
    ASSUME IInv, NEW t \in Thread, Release(t)
    PROVE  IInv'
<1> DEFINE run == thread[t].run
           next == IF thread[t].result = "failed" THEN "leave" ELSE "conclude"
           e == [thread[t] EXCEPT !.pc = next]
<1>1. /\ At(t, "release") /\ Moved(t, e) /\ active' = active /\ worker' = worker
      /\ leases' = [o \in DOMAIN leases \ {run} |-> leases[o]]
  BY DEF Release
<1>2. Busy(t) /\ Leasing(t)
  BY <1>1 DEF At, Busy, Leasing, Training, Looping, Polling
<1>3. \A u \in Thread \ {t} : Busy(u) => thread[u].run # run
  BY <1>2, BusyRun
<1>4. thread[t] \in Execution /\ e \in Execution /\ e.pc = next /\ e.run = run
  BY DEF IInv, TypeOK, Execution, Labels, Training, Looping
<1>5. /\ thread' \in [Thread -> Execution] /\ thread'[t] = e
      /\ \A u \in Thread \ {t} : thread'[u] = thread[u]
  BY <1>1, <1>4, MovedThread DEF IInv
<1>6. Sound(e)
  <2>1. Sound(thread[t]) /\ thread[t].pc = "release"
    BY <1>1 DEF IInv, At
  <2>2. /\ e.step = thread[t].step /\ e.control = thread[t].control
        /\ e.result = thread[t].result /\ e.controller = thread[t].controller
        /\ e.sequence = thread[t].sequence /\ e.misled = thread[t].misled
    BY <1>4 DEF Execution
  <2> HIDE DEF e
  <2> QED
    BY <1>4, <2>1, <2>2 DEF Sound, Follows, InStep, Training, Looping, Polling, Told, Refused
<1>7. next \in {"leave", "conclude"}
  OBVIOUS
<1> HIDE DEF run, e, next
<1>8. /\ DOMAIN leases' = DOMAIN leases \ {run}
      /\ \A o \in DOMAIN leases' : leases'[o] = leases[o]
  BY <1>1
<1>9. ASSUME NEW resource \in DOMAIN Capacity
      PROVE  Cardinality(Users(resource)') <= Capacity[resource]
  <2>1. Users(resource)' \subseteq Users(resource)
    BY <1>8 DEF Users
  <2>2. IsFiniteSet(Users(resource))
    BY FS_Subset DEF IInv, Accounts, Users
  <2>3. /\ Cardinality(Users(resource)') <= Cardinality(Users(resource))
        /\ Cardinality(Users(resource)') \in Nat /\ Cardinality(Users(resource)) \in Nat
    BY <2>1, <2>2, FS_Subset, FS_CardinalityType
  <2>4. Cardinality(Users(resource)) <= Capacity[resource] /\ Capacity[resource] \in Nat
    BY ResourceAssumption DEF IInv, Accounts
  <2> QED
    BY <2>3, <2>4
<1>10. \A u \in Thread : /\ thread'[u].run = thread[u].run
                         /\ Busy(u)' <=> Busy(u)
                         /\ Leasing(u)' <=> Leasing(u) /\ u # t
  BY <1>2, <1>4, <1>5, <1>7 DEF Busy, Leasing, Training, Looping, Polling, run
<1>11. DOMAIN leases' = {thread'[u].run : u \in {w \in Thread : Leasing(w)'}}
  <2>1. \A u \in Thread : Leasing(u) => Busy(u)
    BY DEF Leasing, Busy, Training, Looping, Polling
  <2>2. \A u \in Thread : Leasing(u) => (thread[u].run = run <=> u = t)
    BY <1>3, <2>1 DEF run
  <2> QED
    BY <1>8, <1>10, <2>2 DEF IInv, Accounts
<1>12. \A o \in DOMAIN leases' : leases'[o] = Needs[o]
  BY <1>8 DEF IInv, Accounts
<1>13. IsFiniteSet(DOMAIN leases')
  BY <1>8, FS_Subset DEF IInv, Accounts
<1>14. Accounts'
  BY <1>1, <1>9, <1>10, <1>11, <1>12, <1>13 DEF IInv, Accounts
<1>15. TypeOK'
  BY <1>1, <1>5, <1>8 DEF IInv, TypeOK
<1>16. \A u \in Thread : Sound(thread'[u])
  BY <1>5, <1>6 DEF IInv
<1>17. \A u \in Thread : Polls(thread'[u]) => Behind(thread'[u], worker'[thread'[u].run])
  BY <1>1, <1>4, <1>5, <1>7 DEF IInv, Polls, Polling
<1> QED
  BY <1>14, <1>15, <1>16, <1>17 DEF IInv, Sound, Follows, InStep, Told, Refused, Behind, Polls

-----------------------------------------------------------------------------
(* Lemmas about the steps of an execution                                  *)

\* Nothing but the label and the outcome of an execution changes.
Continues(s, e) ==
    /\ e \in Execution
    /\ e.run = s.run /\ e.control = s.control /\ e.step = s.step
    /\ e.sequence = s.sequence /\ e.controller = s.controller /\ e.misled = s.misled

\* The run and the step to stop at, of an idle thread.
LEMMA IdleThread ==
    ASSUME NEW n \in Nat
    PROVE  Idle(n) \in Execution /\ Sound(Idle(n))
<1>1. NewController \in Controller
  BY DEF NewController, Controller, ControllerState
<1> QED
  BY <1>1, NumbersAssumption DEF Idle, Execution, Labels, Sound, Training, Looping, Polling

\* A run is taken up only when nobody executes it.
LEMMA ExecuteStep ==
    ASSUME IInv, NEW t \in Thread, NEW r \in Run, NEW c \in Control,
           NEW start \in 0 .. Steps - 1, Execute(t, r, c, start)
    PROVE  IInv'
<1> DEFINE i == Idle(thread[t].executions + 1)
           s == [i EXCEPT !.pc = "acquire", !.run = r, !.control = c, !.step = start]
           e == Emitted(s, "launched", 0)
<1>1. /\ At(t, "idle") /\ r \notin active /\ active' = active \cup {r}
      /\ c.cancel # 0 => start < c.cancel
      /\ c.interrupt # 0 => start < c.interrupt
      /\ leases' = leases /\ worker' = worker /\ Moved(t, e)
  BY DEF Execute
<1>2. thread[t].executions + 1 \in Nat
  BY DEF IInv, TypeOK, Execution
<1>3. i \in Execution /\ i.sequence = 0 /\ i.controller = NewController /\ i.result = "none" /\ ~i.misled
  BY <1>2, IdleThread DEF Idle
<1>4. /\ c \in [cancel : Nat, interrupt : Nat] /\ start \in Nat /\ start < Steps
      /\ c.cancel <= Steps /\ c.interrupt <= Steps /\ (c.interrupt # 0 => c.interrupt < Steps)
  BY NumbersAssumption DEF Control
<1> HIDE DEF i
<1>5. /\ s \in Execution /\ s.pc = "acquire" /\ s.run = r /\ s.control = c /\ s.step = start
      /\ s.sequence = 0 /\ s.controller = NewController /\ s.result = "none" /\ ~s.misled
  BY <1>3, <1>4 DEF Execution, Labels
<1> HIDE DEF s
<1>6. /\ InStep(s) /\ s.controller.state = "created" /\ s.controller.step = 0
  BY <1>5 DEF InStep, LastSequence, NewController
<1>7. "launched" \in Kind /\ "launched" \notin Activity \cup Stepped \cup Link
  BY DEF Kind, Activity, Stepped, Link
<1>8. s.controller.state \in Sources("launched") /\ s.controller.state \notin Terminal
  BY <1>6, <1>7 DEF Sources, Terminal, TerminalKind
<1>9. InStep(e) /\ e.controller.state = "active" /\ e.controller.step = 0
  BY <1>5, <1>6, <1>7, <1>8, Taken
<1>10. /\ e \in Execution /\ e.pc = "acquire" /\ e.run = r /\ e.control = c /\ e.step = start
       /\ e.result = "none" /\ ~e.misled
  BY <1>5, <1>7, EmittedFields
<1> HIDE DEF e
<1>11. Sound(e)
  BY <1>1, <1>4, <1>9, <1>10, NumbersAssumption DEF Sound, Follows, Training, Looping, Polling
<1>12. /\ thread' \in [Thread -> Execution] /\ thread'[t] = e
       /\ \A u \in Thread \ {t} : thread'[u] = thread[u]
  BY <1>1, <1>10, MovedThread DEF IInv
<1>13. ~Busy(t) /\ ~Leasing(t)
  BY <1>1 DEF At, Busy, Leasing, Training, Looping, Polling
<1>14. \A u \in Thread : /\ u # t => thread'[u].run = thread[u].run
                         /\ Busy(u)' <=> Busy(u) \/ u = t
                         /\ Leasing(u)' <=> Leasing(u)
  BY <1>10, <1>12, <1>13 DEF Busy, Leasing, Training, Looping, Polling
<1>15. {thread'[u].run : u \in {w \in Thread : Leasing(w)'}} = {thread[u].run : u \in {w \in Thread : Leasing(w)}}
  BY <1>13, <1>14
<1>16. \A u \in Thread \ {t} : Busy(u) => thread[u].run # r
  BY <1>1 DEF IInv, Accounts
<1>17. \A u \in Thread : Busy(u)' => thread'[u].run \in active'
  BY <1>1, <1>10, <1>12, <1>14 DEF IInv, Accounts
<1>18. \A u, w \in Thread : Busy(u)' /\ Busy(w)' /\ thread'[u].run = thread'[w].run => u = w
  BY <1>10, <1>12, <1>14, <1>16 DEF IInv, Accounts
<1>19. Accounts'
  BY <1>1, <1>15, <1>17, <1>18 DEF IInv, Accounts, Users
<1>20. TypeOK' /\ \A u \in Thread : Sound(thread'[u])
  BY <1>1, <1>11, <1>12 DEF IInv, TypeOK
<1>21. \A u \in Thread : Polls(thread'[u]) => Behind(thread'[u], worker'[thread'[u].run])
  BY <1>1, <1>10, <1>12 DEF IInv, Polls, Polling
<1> QED
  BY <1>19, <1>20, <1>21 DEF IInv, Sound, Follows, InStep, Told, Refused, Behind, Polls

\* The run that is left is nobody else's.
LEMMA LeaveStep ==
    ASSUME IInv, NEW t \in Thread, Leave(t) \/ \E r \in Run : RejectRequest(t, r)
    PROVE  IInv'
<1>1. PICK n \in Nat : Moved(t, Idle(n))
  BY DEF Leave, RejectRequest, IInv, TypeOK, Execution
<1>2. /\ thread' \in [Thread -> Execution] /\ thread'[t] = Idle(n)
      /\ \A u \in Thread \ {t} : thread'[u] = thread[u]
  BY <1>1, IdleThread, MovedThread DEF IInv
<1>3. /\ leases' = leases /\ worker' = worker /\ ~Leasing(t)
      /\ \/ active' = active \ {thread[t].run} /\ Busy(t)
         \/ active' = active
  BY DEF Leave, RejectRequest, At, Leasing, Busy, Training, Looping, Polling
<1>4. \A u \in Thread : /\ u # t => thread'[u].run = thread[u].run
                        /\ Busy(u)' <=> Busy(u) /\ u # t
                        /\ Leasing(u)' <=> Leasing(u)
  BY <1>2, <1>3 DEF Busy, Leasing, Training, Looping, Polling, Idle
<1>5. {thread'[u].run : u \in {w \in Thread : Leasing(w)'}} = {thread[u].run : u \in {w \in Thread : Leasing(w)}}
  BY <1>3, <1>4
<1>6. \A u \in Thread \ {t} : Busy(u) => thread[u].run \in active'
  BY <1>3, BusyRun DEF IInv, Accounts
<1>7. Accounts'
  BY <1>3, <1>4, <1>5, <1>6 DEF IInv, Accounts, Users
<1>8. TypeOK' /\ \A u \in Thread : Sound(thread'[u])
  BY <1>2, <1>3, IdleThread DEF IInv, TypeOK
<1>9. \A u \in Thread : Polls(thread'[u]) => Behind(thread'[u], worker'[thread'[u].run])
  BY <1>2, <1>3 DEF IInv, Polls, Polling, Idle
<1> QED
  BY <1>7, <1>8, <1>9 DEF IInv, Sound, Follows, InStep, Told, Refused, Behind, Polls

\* The steps of train(): every message a sound backend reports is accepted.
LEMMA CallbackStep ==
    ASSUME IInv, NEW t \in Thread, OnProgress(t) \/ OnHeartbeat(t) \/ OnCheckpoint(t)
    PROVE  IInv'
<1> DEFINE s == thread[t]
<1>1. s \in Execution /\ Sound(s) /\ s.pc \in Training
  BY DEF IInv, TypeOK, OnProgress, OnHeartbeat, OnCheckpoint, StepDone, At, Training, Looping, Polling
<1>2. Follows(s) /\ s.result = "none" /\ s.controller.step \in {0, s.step}
  BY <1>1 DEF Sound
<1>3. s.step \in Nat /\ s.controller.step \in Nat /\ s.control.cancel \in Nat /\ s.control.interrupt \in Nat
  BY <1>1 DEF Execution, Controller
<1>13. s.run \in Remote /\ s.pc \in Polling => Behind(s, worker[s.run])
  BY DEF IInv, Polls
<1>14. s.run \in Remote => worker[s.run].step \in Nat
  BY DEF IInv, TypeOK, Worker
<1> HIDE DEF s
<1>4. ASSUME NEW e \in Execution, NEW next \in Polling \cup {"recheck"}, Called(t, e, next), Follows(e),
             next = "recheck" => s.run \notin Remote, next = "poll" => s.run \in Remote,
             ~Refused(e), e.run = s.run, e.control = s.control, e.result = "none",
             e.controller.step \in {0, e.step}, e.step <= Steps,
             s.run \notin Remote =>
                /\ s.control.cancel # 0 => e.step <= s.control.cancel
                /\ s.control.interrupt # 0 => e.step <= s.control.interrupt,
             s.run \in Remote => Behind(e, worker[s.run])
      PROVE  IInv'
  <2> DEFINE d == [e EXCEPT !.pc = next]
  <2>1. Moved(t, d) /\ UNCHANGED <<active, leases, worker>>
    BY <1>4 DEF Called
  <2>2. /\ d \in Execution /\ d.pc = next /\ d.result = "none" /\ d.run = s.run
        /\ d.control = s.control /\ d.step = e.step
        /\ d.sequence = e.sequence /\ d.controller = e.controller /\ d.misled = e.misled
    <3>1. next \in Labels
      BY <1>4 DEF Labels, Training, Looping, Polling
    <3> QED
      BY <1>4, <3>1 DEF Execution
  <2> HIDE DEF d
  <2>3. Sound(d)
    BY <1>1, <1>4, <2>2 DEF Sound, Follows, InStep, Training, Looping, Polling
  <2>4. s.run \in Remote => Behind(d, worker[d.run])
    BY <1>4, <2>2 DEF Behind
  <2> QED
    BY <1>1, <1>4, <2>1, <2>2, <2>3, <2>4, LocalStep
       DEF Busy, Leasing, Training, Looping, Polling, Polls, s
<1>5. CASE OnProgress(t)
  <2> DEFINE a == [s EXCEPT !.step = @ + 1]
             b == Emitted(a, "progress", s.step + 1)
             c == Emitted(b, "metric", b.step)
  <2>1. StepDone(t) /\ Called(t, c, "heartbeat")
    BY <1>5 DEF OnProgress, s
  <2>2. \/ s.pc = "progress" /\ s.run \notin Remote
        \/ s.pc = "poll" /\ s.run \in Remote /\ s.step < worker[s.run].step
    BY <1>1, <2>1 DEF StepDone, At, Sound, Looping, s
  <2>3. /\ s.step + 1 <= Steps
        /\ s.run \notin Remote =>
             /\ s.control.cancel # 0 => s.step + 1 <= s.control.cancel
             /\ s.control.interrupt # 0 => s.step + 1 <= s.control.interrupt
    <3>1. CASE s.pc = "progress" /\ s.run \notin Remote
      BY <1>1, <1>3, <3>1, NumbersAssumption DEF Sound
    <3>2. CASE s.pc = "poll" /\ s.run \in Remote /\ s.step < worker[s.run].step
      <4>1. worker[s.run].step <= Steps
        BY <1>13, <3>2 DEF Polling, Behind
      <4> QED
        BY <1>3, <1>14, <3>2, <4>1, NumbersAssumption
    <3> QED
      BY <2>2, <3>1, <3>2
  <2>4. /\ a \in Execution /\ a.step = s.step + 1 /\ a.controller = s.controller
        /\ a.sequence = s.sequence /\ a.misled = s.misled /\ a.run = s.run
        /\ a.control = s.control /\ a.result = s.result
    BY <1>1, <1>3 DEF Execution
  <2> HIDE DEF a
  <2>5. Follows(a)
    BY <1>2, <2>4 DEF Follows, InStep
  <2>6. "progress" \in Activity /\ "progress" \in Stepped /\ "metric" \in Activity /\ "metric" \notin Stepped
    BY DEF Activity, Stepped
  <2>7. s.step + 1 \in Nat /\ s.step + 1 >= a.controller.step
    BY <1>2, <1>3, <2>4
  <2>8. /\ b \in Execution /\ Follows(b) /\ b.controller.step = s.step + 1 /\ b.step = s.step + 1
        /\ b.run = s.run /\ b.control = s.control /\ b.result = s.result
    BY <2>4, <2>5, <2>6, <2>7, Reported
  <2> HIDE DEF b
  <2>9. /\ c \in Execution /\ Follows(c) /\ ~Refused(c)
        /\ c.controller.step = s.step + 1 /\ c.step = s.step + 1
        /\ c.run = s.run /\ c.control = s.control /\ c.result = s.result
    BY <2>6, <2>7, <2>8, Reported
  <2> HIDE DEF c
  <2>10. s.run \in Remote => Behind(c, worker[s.run])
    BY <1>3, <1>13, <1>14, <2>2, <2>9 DEF Behind, Polling
  <2>11. "heartbeat" \in Polling
    BY DEF Polling
  <2> QED
    BY <1>2, <1>4, <2>1, <2>3, <2>9, <2>10, <2>11
<1>6. CASE OnHeartbeat(t) \/ OnCheckpoint(t)
  <2>1. PICK k \in {"heartbeat", "checkpoint"}, next \in {"checkpoint", "recheck", "poll"} :
          /\ Called(t, Emitted(s, k, IF k = "heartbeat" THEN 0 ELSE s.step), next)
          /\ s.pc = k
          /\ next = "recheck" => s.run \notin Remote
          /\ next = "poll" => s.run \in Remote
    BY <1>6 DEF OnHeartbeat, OnCheckpoint, Onward, At, s
  <2> DEFINE v == IF k = "heartbeat" THEN 0 ELSE s.step
             e == Emitted(s, k, v)
  <2>2. k \in Activity /\ (k \in Stepped <=> k = "checkpoint")
    BY DEF Activity, Stepped
  <2>3. v \in Nat /\ (k \in Stepped => v >= s.controller.step)
    BY <1>2, <1>3, <2>2
  <2>4. Called(t, e, next)
    BY <2>1
  <2>5. k = "checkpoint" => v = s.step
    OBVIOUS
  <2> HIDE DEF v
  <2>6. /\ e \in Execution /\ Follows(e) /\ ~Refused(e)
        /\ e.controller.step = IF k \in Stepped THEN v ELSE s.controller.step
        /\ e.run = s.run /\ e.control = s.control /\ e.step = s.step /\ e.result = s.result
    BY <1>1, <1>2, <2>2, <2>3, Reported
  <2> HIDE DEF e
  <2>7. e.controller.step \in {0, e.step}
    BY <1>2, <2>2, <2>5, <2>6
  <2>8. s.run \in Remote => Behind(e, worker[s.run])
    BY <1>13, <2>1, <2>6 DEF Behind, Polling
  <2>9. next \in Polling \cup {"recheck"}
    BY DEF Polling
  <2> QED
    BY <1>1, <1>2, <1>4, <2>1, <2>4, <2>6, <2>7, <2>8, <2>9 DEF Sound
<1> QED
  BY <1>5, <1>6

\* A step told twice is refused, and nothing after it is accepted.
LEMMA RepeatedStep ==
    ASSUME IInv, NEW t \in Thread, OnProgressAgain(t)
    PROVE  IInv'
<1> DEFINE w == thread[t]
           s == [w EXCEPT !.step = @ - 1, !.misled = TRUE]
           b == Emitted(s, "progress", s.step)
           c == Emitted(b, "failed", 0)
           d == [c EXCEPT !.pc = "release", !.result = "failed"]
<1>1. w \in Execution /\ Sound(w) /\ w.pc = "progress"
  BY DEF IInv, TypeOK, OnProgressAgain, At
<1>2. /\ Follows(w) /\ w.controller.step \in {0, w.step} /\ w.run \notin Remote
      /\ w.step \in Nat /\ w.controller.step \in Nat
      /\ w.control.cancel \in Nat /\ w.control.interrupt \in Nat
  BY <1>1 DEF Sound, Training, Looping, Execution, Controller
<1>3. s.controller.step > 0 /\ Called(t, b, "heartbeat")
  BY DEF OnProgressAgain
<1> HIDE DEF w
<1>4. s.controller = w.controller
  BY <1>1 DEF Execution
<1>5. w.step > 0 /\ w.controller.step = w.step
  BY <1>2, <1>3, <1>4
<1>6. /\ s \in Execution /\ s.step = w.step - 1 /\ s.sequence = w.sequence
      /\ s.run = w.run /\ s.control = w.control /\ s.misled = TRUE /\ s.pc = "progress"
  <2>1. w.step - 1 \in Nat
    BY <1>2, <1>5
  <2> QED
    BY <1>1, <2>1 DEF Execution
<1> HIDE DEF s
<1>7. "progress" \in Kind /\ "progress" \in Stepped /\ "failed" \in Kind
  BY DEF Kind, Activity, Stepped, TerminalKind
<1>8. s.step \in Nat /\ ~(s.step >= s.controller.step)
  BY <1>2, <1>4, <1>5, <1>6
<1>9. ~Accepts(s.controller, Msg(s.sequence + 1, "progress", s.step))
  BY <1>7, <1>8 DEF Accepts, Admits, StepInOrder, Msg
<1>10. /\ b \in Execution /\ b.controller = s.controller /\ b.sequence = s.sequence + 1
       /\ b.run = w.run /\ b.control = w.control /\ b.misled = s.misled /\ b.step = s.step
  <2>1. b = Emitted(s, "progress", s.step)
    OBVIOUS
  <2> HIDE DEF b
  <2>2. /\ b \in Execution /\ b.run = s.run /\ b.control = s.control /\ b.misled = s.misled
        /\ b.step = s.step /\ b.sequence = s.sequence + 1
        /\ b.controller = IF Accepts(s.controller, Msg(s.sequence + 1, "progress", s.step))
                          THEN Transition(s.controller, Msg(s.sequence + 1, "progress", s.step))
                          ELSE s.controller
    BY <1>6, <1>7, <1>8, <2>1, EmittedFields, SMTT(90)
  <2> QED
    BY <1>6, <1>9, <2>2
<1> HIDE DEF b
<1>11. b.sequence = LastSequence(b.controller) + 1 /\ LastSequence(b.controller) \in Nat
  BY <1>1, <1>2, <1>4, <1>6, <1>10 DEF Follows, InStep, Execution, Controller, LastSequence
<1>12. Refused(b)
  BY <1>11 DEF Refused
<1>18. b.controller.state = "active"
  BY <1>2, <1>4, <1>10 DEF Follows
<1>13. /\ c \in Execution /\ c.run = w.run /\ c.control = w.control
       /\ c.misled = s.misled /\ c.step = s.step
       /\ Refused(c) /\ c.controller.state = "active"
  <2>1. c = Emitted(b, "failed", 0) /\ 0 \in Nat
    OBVIOUS
  <2> HIDE DEF c
  <2>2. /\ c \in Execution /\ c.run = b.run /\ c.control = b.control /\ c.misled = b.misled
        /\ c.step = b.step /\ c.sequence = b.sequence + 1
        /\ c.controller = IF Accepts(b.controller, Msg(b.sequence + 1, "failed", 0))
                          THEN Transition(b.controller, Msg(b.sequence + 1, "failed", 0))
                          ELSE b.controller
    BY <1>7, <1>10, <2>1, EmittedFields, SMTT(60)
  <2>3. ~Accepts(b.controller, Msg(b.sequence + 1, "failed", 0))
    BY <1>11 DEF Accepts, Msg
  <2>4. c.controller = b.controller /\ c.sequence # LastSequence(b.controller)
    BY <1>11, <2>2, <2>3
  <2> QED
    BY <1>10, <1>18, <2>2, <2>4 DEF Refused
<1> HIDE DEF c
<1>14. /\ d \in Execution /\ d.pc = "release" /\ d.result = "failed" /\ d.run = w.run
       /\ d.control = w.control /\ d.misled = s.misled /\ d.step = s.step
       /\ d.sequence = c.sequence /\ d.controller = c.controller
  <2>1. "release" \in Labels /\ "failed" \in Outcome
    BY DEF Labels, Outcome
  <2> HIDE DEF d
  <2>2. d = [c EXCEPT !.pc = "release", !.result = "failed"]
    BY DEF d
  <2>3. Continues(c, d) /\ d.pc = "release" /\ d.result = "failed"
    BY <1>13, <2>1, <2>2 DEF Execution, Continues
  <2> QED
    BY <1>13, <2>3 DEF Continues
<1>15. Moved(t, d) /\ UNCHANGED <<active, leases, worker>>
  BY <1>3, <1>12 DEF Called, c
<1> HIDE DEF d
<1>16. d.step <= w.step
  BY <1>2, <1>6, <1>14
<1>19. Told(d)
  BY <1>6, <1>13, <1>14 DEF Told, Refused, Terminal, TerminalKind
<1>17. Sound(d)
  BY <1>1, <1>2, <1>6, <1>8, <1>14, <1>16, <1>19, NumbersAssumption
     DEF Sound, Training, Looping, Polling
<1> QED
  BY <1>1, <1>14, <1>15, <1>17, LocalStep
     DEF Busy, Leasing, Training, Looping, Polling, Polls, w

\* A training may end this way.
Due(s, r) ==
    /\ r = "completed" /\ s.run \notin Remote => s.step = Steps
    /\ r = "cancelled" => s.control.cancel # 0 /\ s.step >= s.control.cancel
    /\ r = "interrupted" => s.control.interrupt # 0 /\ s.step >= s.control.interrupt

\* The steps that only look and go on, or leave the loop.
LEMMA LookStep ==
    ASSUME IInv, NEW t \in Thread,
           Check(t) \/ Recheck(t) \/ WorkerEnded(t) \/ BackendDisconnects(t)
    PROVE  IInv'
<1> DEFINE s == thread[t]
<1>1. s \in Execution /\ Sound(s) /\ s.pc \in Training
  BY DEF IInv, TypeOK, Check, Recheck, WorkerEnded, BackendDisconnects, Reporting, At,
         Training, Looping, Polling
<1>2. /\ Follows(s) /\ s.result = "none" /\ s.controller.step \in {0, s.step}
      /\ s.step \in Nat /\ s.control.cancel \in Nat /\ s.control.interrupt \in Nat
  BY <1>1 DEF Sound, Execution
<1>3. UNCHANGED <<active, leases, worker>>
  BY DEF Check, Recheck, WorkerEnded, BackendDisconnects
<1>4. ASSUME NEW e, Moved(t, e), Continues(s, e), e.pc = "release",
             e.result \in Outcome \ {"failed"}, Due(s, e.result)
      PROVE  IInv'
  <2> HIDE DEF s
  <2>1. Follows(e)
    BY <1>2, <1>4 DEF Follows, InStep, Continues
  <2>2. e.result = "completed" /\ s.run \notin Remote =>
          s.control.cancel \in {0, Steps} /\ s.control.interrupt = 0
    BY <1>1, <1>2, <1>4, NumbersAssumption DEF Sound, Due
  <2>3. Sound(e)
    BY <1>1, <1>4, <2>1, <2>2 DEF Sound, Due, Training, Looping, Polling, Continues, Outcome
  <2> QED
    BY <1>1, <1>3, <1>4, <2>3, LocalStep
       DEF Busy, Leasing, Training, Looping, Polling, Polls, Continues, s
<1>5. ASSUME NEW e, Moved(t, e), Continues(s, e), e.pc \in {"check", "progress"},
             e.result = s.result, s.run \notin Remote,
             e.pc = "progress" => /\ s.step # Steps
                                  /\ s.control.cancel # s.step \/ s.control.cancel = 0
                                  /\ s.control.interrupt # s.step \/ s.control.interrupt = 0
      PROVE  IInv'
  <2> HIDE DEF s
  <2>1. Follows(e)
    BY <1>2, <1>5 DEF Follows, InStep, Continues
  <2>2. e.pc = "progress" => s.step < Steps
    BY <1>1, <1>2, <1>5, NumbersAssumption DEF Sound
  <2>3. Sound(e)
    BY <1>1, <1>2, <1>5, <2>1, <2>2 DEF Sound, Training, Looping, Continues
  <2> QED
    BY <1>1, <1>3, <1>5, <2>3, LocalStep
       DEF Busy, Leasing, Training, Looping, Polling, Polls, Continues, s
<1>6. ASSUME NEW r \in Outcome \ {"failed"}, Due(s, r),
             Moved(t, [s EXCEPT !.pc = "release", !.result = r])
      PROVE  IInv'
  <2> DEFINE e == [s EXCEPT !.pc = "release", !.result = r]
  <2>1. Moved(t, e) /\ e = [s EXCEPT !.pc = "release", !.result = r]
    BY <1>6
  <2> HIDE DEF e, s
  <2>2. Continues(s, e) /\ e.pc = "release" /\ e.result = r
    BY <1>1, <2>1 DEF Labels, Execution, Outcome, Continues
  <2> QED
    BY <1>4, <1>6, <2>1, <2>2
<1>7. ASSUME NEW l \in {"check", "progress"}, Moved(t, [s EXCEPT !.pc = l]), s.run \notin Remote,
             l = "progress" => /\ s.step # Steps
                               /\ s.control.cancel # s.step \/ s.control.cancel = 0
                               /\ s.control.interrupt # s.step \/ s.control.interrupt = 0
      PROVE  IInv'
  <2> DEFINE e == [s EXCEPT !.pc = l]
  <2>1. Moved(t, e) /\ e = [s EXCEPT !.pc = l] /\ l \in Labels
    BY <1>7 DEF Labels, Training, Looping
  <2> HIDE DEF e, s
  <2>2. Continues(s, e) /\ e.pc = l /\ e.result = s.result
    BY <1>1, <2>1 DEF Execution, Continues
  <2> QED
    BY <1>5, <1>7, <2>1, <2>2
<1>8. \/ \E r \in Outcome \ {"failed"} :
           /\ Due(s, r)
           /\ Moved(t, [s EXCEPT !.pc = "release", !.result = r])
      \/ \E l \in {"check", "progress"} :
           /\ s.run \notin Remote
           /\ l = "progress" => /\ s.step # Steps
                                /\ s.control.cancel # s.step \/ s.control.cancel = 0
                                /\ s.control.interrupt # s.step \/ s.control.interrupt = 0
           /\ Moved(t, [s EXCEPT !.pc = l])
  <2>1. {"completed", "interrupted", "cancelled", "disconnected"} = Outcome \ {"failed"}
    BY DEF Outcome
  <2>2. CASE Check(t)
    <3>1. CASE s.step = Steps
      <4>1. Moved(t, [s EXCEPT !.pc = "release", !.result = "completed"]) /\ Due(s, "completed")
        BY <2>2, <3>1 DEF Check, Due
      <4> QED
        BY <2>1, <4>1
    <3>2. CASE s.step # Steps /\ InterruptionRequested(s)
      <4>1. Moved(t, [s EXCEPT !.pc = "release", !.result = "interrupted"])
        BY <2>2, <3>2 DEF Check
      <4>2. Due(s, "interrupted")
        BY <1>2, <3>2 DEF InterruptionRequested, Due
      <4> QED
        BY <2>1, <4>1, <4>2
    <3>3. CASE s.step # Steps /\ ~InterruptionRequested(s) /\ CancellationRequested(s)
      <4>1. Moved(t, [s EXCEPT !.pc = "release", !.result = "cancelled"])
        BY <2>2, <3>3 DEF Check
      <4>2. Due(s, "cancelled")
        BY <1>2, <3>3 DEF CancellationRequested, Due
      <4> QED
        BY <2>1, <4>1, <4>2
    <3>4. CASE s.step # Steps /\ ~InterruptionRequested(s) /\ ~CancellationRequested(s)
      <4>1. Moved(t, [s EXCEPT !.pc = "progress"]) /\ s.pc = "check"
        BY <2>2, <3>4 DEF Check, At
      <4>2. s.run \notin Remote
        BY <1>1, <4>1 DEF Sound, Looping
      <4> QED
        BY <3>4, <4>1, <4>2 DEF InterruptionRequested, CancellationRequested
    <3> QED
      BY <3>1, <3>2, <3>3, <3>4
  <2>3. CASE Recheck(t)
    <3>1. CASE InterruptionRequested(s)
      <4>1. Moved(t, [s EXCEPT !.pc = "release", !.result = "interrupted"])
        BY <2>3, <3>1 DEF Recheck
      <4>2. Due(s, "interrupted")
        BY <1>2, <3>1 DEF InterruptionRequested, Due
      <4> QED
        BY <2>1, <4>1, <4>2
    <3>2. CASE ~InterruptionRequested(s)
      <4>1. Moved(t, [s EXCEPT !.pc = "check"]) /\ s.pc = "recheck"
        BY <2>3, <3>2 DEF Recheck, At
      <4>2. s.run \notin Remote
        BY <1>1, <4>1 DEF Sound, Looping
      <4> QED
        BY <4>1, <4>2
    <3> QED
      BY <3>1, <3>2
  <2>4. CASE BackendDisconnects(t)
    <3>1. Moved(t, [s EXCEPT !.pc = "release", !.result = "disconnected"]) /\ Due(s, "disconnected")
      BY <2>4 DEF BackendDisconnects, Due
    <3> QED
      BY <2>1, <3>1
  <2>5. CASE WorkerEnded(t)
    <3> DEFINE w == worker[s.run]
    <3>1. s.pc = "poll" /\ s.run \in Remote
      BY <1>1, <2>5 DEF WorkerEnded, At, Sound
    <3>2. Behind(s, w) /\ w \in Worker
      BY <3>1 DEF IInv, TypeOK, Polls, Polling
    <3>3. w.status # "running" /\ Moved(t, [s EXCEPT !.pc = "release", !.result = w.status])
      BY <2>5 DEF WorkerEnded
    <3> HIDE DEF w, s
    <3>4. w.status \in {"completed", "interrupted", "cancelled"}
      BY <3>2, <3>3 DEF Worker, Behind
    <3>5. Due(s, w.status)
      BY <3>1, <3>2 DEF Behind, Due
    <3> QED
      BY <2>1, <3>3, <3>4, <3>5
  <2> QED
    BY <2>2, <2>3, <2>4, <2>5
<1> HIDE DEF s
<1> QED
  BY <1>6, <1>7, <1>8

\* The worker runs ahead, and is asked to stop when the host has come to the
\* step.
LEMMA WorkerStep ==
    ASSUME IInv, NEW t \in Thread, Spawn(t) \/ WorkerSteps(t) \/ Poll(t)
    PROVE  IInv'
<1> DEFINE s == thread[t]
           w == worker[s.run]
<1>1. s \in Execution /\ Sound(s) /\ s.pc \in Polling \cup {"spawn"}
  BY DEF IInv, TypeOK, Spawn, WorkerSteps, Poll, Reporting, At, Polling
<1>2. s.run \in Remote
  BY <1>1 DEF Spawn, WorkerSteps, Poll, Reporting, At, Sound
<1>3. w \in Worker /\ worker \in [Remote -> Worker]
  BY <1>2 DEF IInv, TypeOK
<1>4. Spawn(t) \/ Behind(s, w)
  BY <1>2 DEF IInv, WorkerSteps, Poll, Reporting, Polls, Polling
<1>5. /\ s.step \in Nat /\ w.step \in Nat /\ s.step <= Steps /\ Steps \in Nat
      /\ s.control.cancel \in Nat /\ s.control.interrupt \in Nat
  BY <1>1, <1>3, NumbersAssumption DEF Execution, Worker, Sound
<1>6. ASSUME NEW v \in Worker, worker' = [worker EXCEPT ![s.run] = v], Behind(s, v),
             NEW e, Moved(t, e), Continues(s, e), e.pc \in Polling, e.result = s.result,
             UNCHANGED <<active, leases>>
      PROVE  IInv'
  <2>1. /\ worker' \in [Remote -> Worker] /\ worker'[s.run] = v
        /\ \A r \in Remote \ {s.run} : worker'[r] = worker[r]
    BY <1>2, <1>3, <1>6
  <2> HIDE DEF s, w
  <2>2. Follows(s) /\ s.result = "none" /\ s.controller.step \in {0, s.step}
    BY <1>1 DEF Sound, Training
  <2>3. Sound(e)
    BY <1>1, <1>2, <1>6, <2>2 DEF Sound, Follows, InStep, Training, Looping, Polling, Continues
  <2>4. Behind(e, worker'[e.run])
    BY <1>6, <2>1 DEF Behind, Continues
  <2> QED
    BY <1>1, <1>6, <2>1, <2>3, <2>4, WorkerLocalStep
       DEF Busy, Leasing, Training, Looping, Polling, Polls, Continues, s
<1>7. ASSUME NEW v \in Worker, worker' = [worker EXCEPT ![s.run] = v], Behind(s, v),
             UNCHANGED <<thread, active, leases>>, s.pc \in Polling
      PROVE  IInv'
  <2>1. Moved(t, s)
    BY <1>7 DEF Moved, IInv, TypeOK
  <2>2. Continues(s, s)
    BY <1>1 DEF Continues
  <2> QED
    BY <1>6, <1>7, <2>1, <2>2
<1>8. CASE Spawn(t)
  <2> DEFINE v == [step |-> s.step, asked |-> {}, status |-> "running"]
             e == [s EXCEPT !.pc = "poll"]
  <2>1. worker' = [worker EXCEPT ![s.run] = v] /\ Moved(t, e) /\ UNCHANGED <<active, leases>>
    BY <1>8 DEF Spawn
  <2>2. v \in Worker
    BY <1>5 DEF Worker
  <2>3. Behind(s, v)
    BY <1>5 DEF Behind
  <2>5. "poll" \in Polling /\ "poll" \in Labels
    BY DEF Polling, Labels, Training
  <2> HIDE DEF v, s
  <2>4. Continues(s, e) /\ e.pc = "poll" /\ e.result = s.result
    BY <1>1, <2>5 DEF Execution, Continues
  <2> HIDE DEF e
  <2> QED
    BY <1>6, <2>1, <2>2, <2>3, <2>4, <2>5
<1>9. CASE WorkerSteps(t)
  <2> DEFINE v == IF "interrupt" \in w.asked THEN [w EXCEPT !.status = "interrupted"]
                  ELSE IF w.step = Steps THEN [w EXCEPT !.status = "completed"]
                  ELSE IF "cancel" \in w.asked THEN [w EXCEPT !.status = "cancelled"]
                  ELSE [w EXCEPT !.step = @ + 1]
  <2>1. /\ worker' = [worker EXCEPT ![s.run] = v] /\ UNCHANGED <<thread, active, leases>>
        /\ s.pc \in Polling /\ w.status = "running"
    BY <1>9 DEF WorkerSteps, Reporting, Polling
  <2>2. Behind(s, w)
    BY <1>4, <1>9, <2>1 DEF IInv, Polls, WorkerSteps, Reporting
  <2> HIDE DEF s, w
  <2>3. v \in Worker
    BY <1>3, <1>5 DEF Worker
  <2>4. Behind(s, v)
    BY <1>3, <1>5, <2>1, <2>2 DEF Behind, Worker
  <2> HIDE DEF v
  <2> QED
    BY <1>7, <2>1, <2>3, <2>4
<1>10. CASE Poll(t)
  <2> DEFINE asked == {m \in {"cancel", "interrupt"} :
                         IF m = "cancel" THEN CancellationRequested(s) ELSE InterruptionRequested(s)}
             v == [w EXCEPT !.asked = @ \cup asked]
  <2>1. /\ worker' = [worker EXCEPT ![s.run] = v] /\ UNCHANGED <<thread, active, leases>>
        /\ s.pc \in Polling
    BY <1>2, <1>3, <1>10 DEF Poll, Reporting, Polling
  <2>2. Behind(s, w)
    BY <1>2, <2>1 DEF IInv, Polls
  <2>3. /\ asked \subseteq {"cancel", "interrupt"}
        /\ "cancel" \in asked => CancellationRequested(s)
        /\ "interrupt" \in asked => InterruptionRequested(s)
    OBVIOUS
  <2> HIDE DEF s, w, asked
  <2>4. v \in Worker /\ v.asked = w.asked \cup asked /\ v.step = w.step /\ v.status = w.status
    BY <1>3, <2>3 DEF Worker
  <2> HIDE DEF v
  <2>5. Behind(s, v)
    BY <1>5, <2>2, <2>3, <2>4 DEF Behind, CancellationRequested, InterruptionRequested
  <2> QED
    BY <1>7, <2>1, <2>4, <2>5
<1> QED
  BY <1>8, <1>9, <1>10

\* A failure before or during the training is told as such.
LEMMA FailStep ==
    ASSUME IInv, NEW t \in Thread, AcquireFails(t) \/ BackendRaises(t)
    PROVE  IInv'
<1> DEFINE s == thread[t]
           c == Emitted(s, "failed", 0)
<1>1. s \in Execution /\ Sound(s) /\ s.pc \in Training \cup {"acquire"}
  BY DEF IInv, TypeOK, AcquireFails, BackendRaises, Trains, At, Training, Looping, Polling
<1>2. Follows(s)
  BY <1>1 DEF Sound
<1>3. PICK l \in {"leave", "release"} :
        /\ Moved(t, [c EXCEPT !.pc = l, !.result = "failed"])
        /\ l = "release" <=> s.pc # "acquire"
  BY DEF AcquireFails, BackendRaises, Trains, At
<1> DEFINE e == [c EXCEPT !.pc = l, !.result = "failed"]
<1>4. Moved(t, e) /\ UNCHANGED <<active, leases, worker>>
  BY <1>3 DEF AcquireFails, BackendRaises
<1>5. "failed" \in Kind
  BY DEF Kind, TerminalKind
<1> HIDE DEF s
<1>6. /\ c \in Execution /\ c.run = s.run /\ c.control = s.control /\ c.step = s.step
      /\ c.controller.state = "failed"
  BY <1>1, <1>2, <1>5, EmittedFields, Ending
<1>9. InStep(c)
  BY <1>1, <1>2, Ending
<1> HIDE DEF c
<1>7. /\ e \in Execution /\ e.pc = l /\ e.result = "failed" /\ e.run = s.run
      /\ e.control = s.control /\ e.step = s.step /\ e.controller = c.controller
      /\ e.sequence = c.sequence
  BY <1>6 DEF Execution, Labels, Outcome
<1> HIDE DEF e
<1>10. Told(e)
  BY <1>6, <1>7, <1>9 DEF Told, Refused, InStep
<1>8. Sound(e)
  BY <1>1, <1>6, <1>7, <1>10 DEF Sound, Training, Looping, Polling
<1> QED
  BY <1>1, <1>3, <1>4, <1>7, <1>8, LocalStep
     DEF Busy, Leasing, Training, Looping, Polling, Polls, s

\* What execute() ends with is what its last message says.
LEMMA ConcludeStep ==
    ASSUME IInv, NEW t \in Thread,
           \/ ConcludeCancelled(t) \/ ConcludeInterrupted(t)
           \/ ConcludeCompleted(t) \/ TransferFails(t)
    PROVE  IInv'
<1> DEFINE s == thread[t]
<1>1. s \in Execution /\ Sound(s) /\ s.pc = "conclude"
  BY DEF IInv, TypeOK, ConcludeCancelled, ConcludeInterrupted, ConcludeCompleted,
         TransferFails, At
<1>2. UNCHANGED <<active, leases, worker>>
  BY DEF ConcludeCancelled, ConcludeInterrupted, ConcludeCompleted, TransferFails, Concludes
<1>3. s.result \in Outcome \ {"failed"} /\ Follows(s) /\ s.sequence \in Nat
  BY <1>1 DEF Sound, Execution
<1>4. ASSUME NEW e \in Execution, Moved(t, e), e.pc = "leave",
             e.run = s.run, e.control = s.control, e.step = s.step,
             e.result \in {"failed", s.result}, InStep(e),
             e.controller.state = IF e.result = "disconnected" THEN "interrupted" ELSE e.result
      PROVE  IInv'
  <2> HIDE DEF s
  <2>1. Sound(e)
    BY <1>1, <1>4 DEF Sound, Told, Refused, InStep, Training, Looping, Polling
  <2> QED
    BY <1>1, <1>2, <1>4, <2>1, LocalStep
       DEF Busy, Leasing, Training, Looping, Polling, Polls, s
<1>5. \A k \in {"failed", "interrupted", "disconnected", "cancellation_requested",
                "artifact_ready", "completed", "cancelled"} : k \in Kind
  BY DEF Kind, TerminalKind, Link
<1>6. CASE ConcludeCancelled(t)
  <2> DEFINE b == Emitted(s, "cancellation_requested", 0)
             d == Emitted(b, "cancelled", 0)
             e == [d EXCEPT !.pc = "leave"]
  <2>1. s.result = "cancelled" /\ Moved(t, e)
    BY <1>6 DEF ConcludeCancelled, Concludes
  <2> HIDE DEF s
  <2>2. /\ b \in Execution /\ b.run = s.run /\ b.control = s.control /\ b.step = s.step
        /\ b.result = s.result /\ InStep(b) /\ b.controller.state = "cancelling"
    <3>1. InStep(b) /\ b.controller.state = "cancelling"
      BY <1>1, <1>3, Ending
    <3>2. "cancellation_requested" \in Kind
      BY <1>5
    <3> QED
      BY <1>1, <3>1, <3>2, EmittedFields
  <2> HIDE DEF b
  <2>3. /\ d \in Execution /\ d.run = s.run /\ d.control = s.control /\ d.step = s.step
        /\ d.result = "cancelled" /\ InStep(d) /\ d.controller.state = "cancelled"
    BY <1>5, <2>1, <2>2, EmittedFields, Concluding, SMTT(90)
  <2> HIDE DEF d
  <2>4. /\ e \in Execution /\ e.pc = "leave" /\ e.run = d.run /\ e.control = d.control
        /\ e.step = d.step /\ e.result = d.result /\ e.controller = d.controller
        /\ e.sequence = d.sequence
    BY <2>3 DEF Execution, Labels
  <2> HIDE DEF e
  <2> QED
    BY <1>4, <2>1, <2>3, <2>4 DEF InStep
<1>7. CASE ConcludeInterrupted(t)
  <2> DEFINE b == IF s.result = "disconnected" THEN Emitted(s, "disconnected", s.sequence) ELSE s
             d == Emitted(b, "interrupted", 0)
             e == [d EXCEPT !.pc = "leave"]
  <2>1. s.result \in {"interrupted", "disconnected"} /\ Moved(t, e)
    BY <1>7 DEF ConcludeInterrupted, Concludes
  <2> HIDE DEF s
  <2>2. CASE s.result = "interrupted"
    <3>1. b = s
      BY <2>2
    <3> HIDE DEF b
    <3>2. /\ d \in Execution /\ d.run = s.run /\ d.control = s.control /\ d.step = s.step
          /\ d.result = s.result /\ InStep(d) /\ d.controller.state = "interrupted"
      <4>1. InStep(d) /\ d.controller.state = "interrupted"
        BY <1>1, <1>3, <3>1, Ending
      <4>2. d = Emitted(s, "interrupted", 0) /\ "interrupted" \in Kind
        BY <1>5, <3>1
      <4> HIDE DEF d
      <4> QED
        BY <1>1, <4>1, <4>2, EmittedFields
    <3> HIDE DEF d
    <3>3. /\ e \in Execution /\ e.pc = "leave" /\ e.run = d.run /\ e.control = d.control
          /\ e.step = d.step /\ e.result = d.result /\ e.controller = d.controller
          /\ e.sequence = d.sequence
      BY <3>2 DEF Execution, Labels
    <3> HIDE DEF e
    <3> QED
      BY <1>4, <2>1, <2>2, <3>2, <3>3 DEF InStep
  <2>3. CASE s.result = "disconnected"
    <3>1. b = Emitted(s, "disconnected", s.sequence)
      BY <2>3
    <3> HIDE DEF b
    <3>2. /\ b \in Execution /\ b.run = s.run /\ b.control = s.control /\ b.step = s.step
          /\ b.result = s.result /\ InStep(b) /\ b.controller.state = "disconnected"
      <4>1. InStep(b) /\ b.controller.state = "disconnected"
        BY <1>1, <1>3, <3>1, Ending
      <4>2. "disconnected" \in Kind
        BY <1>5
      <4> QED
        BY <1>1, <1>3, <3>1, <4>1, <4>2, EmittedFields
    <3>3. /\ d \in Execution /\ d.run = s.run /\ d.control = s.control /\ d.step = s.step
          /\ d.result = s.result /\ InStep(d) /\ d.controller.state = "interrupted"
      BY <1>5, <3>2, EmittedFields, Concluding, SMTT(30)
    <3> HIDE DEF d
    <3>4. /\ e \in Execution /\ e.pc = "leave" /\ e.run = d.run /\ e.control = d.control
          /\ e.step = d.step /\ e.result = d.result /\ e.controller = d.controller
          /\ e.sequence = d.sequence
      BY <3>3 DEF Execution, Labels
    <3> HIDE DEF e
    <3> QED
      BY <1>4, <2>1, <2>3, <3>3, <3>4 DEF InStep
  <2> QED
    BY <2>1, <2>2, <2>3
<1>8. CASE ConcludeCompleted(t)
  <2> DEFINE b == Emitted(s, "artifact_ready", 1)
             d == Emitted(b, "completed", 0)
             e == [d EXCEPT !.pc = "leave"]
  <2>1. s.result = "completed" /\ Moved(t, e)
    BY <1>8 DEF ConcludeCompleted, Concludes
  <2> HIDE DEF s
  <2>2. /\ b \in Execution /\ b.run = s.run /\ b.control = s.control /\ b.step = s.step
        /\ b.result = s.result /\ InStep(b) /\ b.controller.state = "artifact_ready"
    <3>1. InStep(b) /\ b.controller.state = "artifact_ready"
      BY <1>1, <1>3, <2>1, Ending
    <3>2. "artifact_ready" \in Kind
      BY <1>5
    <3> QED
      BY <1>1, <1>3, <3>1, <3>2, EmittedFields
  <2> HIDE DEF b
  <2>3. /\ d \in Execution /\ d.run = s.run /\ d.control = s.control /\ d.step = s.step
        /\ d.result = "completed" /\ InStep(d) /\ d.controller.state = "completed"
    BY <1>5, <2>1, <2>2, EmittedFields, Concluding, SMTT(90)
  <2> HIDE DEF d
  <2>4. /\ e \in Execution /\ e.pc = "leave" /\ e.run = d.run /\ e.control = d.control
        /\ e.step = d.step /\ e.result = d.result /\ e.controller = d.controller
        /\ e.sequence = d.sequence
    BY <2>3 DEF Execution, Labels
  <2> HIDE DEF e
  <2> QED
    BY <1>4, <2>1, <2>3, <2>4 DEF InStep
<1>9. CASE TransferFails(t)
  <2> DEFINE d == Emitted(s, "failed", 0)
             f == [d EXCEPT !.result = "failed"]
             e == [f EXCEPT !.pc = "leave"]
  <2>1. Moved(t, e)
    BY <1>9 DEF TransferFails, Concludes
  <2> HIDE DEF s
  <2>2. /\ d \in Execution /\ d.run = s.run /\ d.control = s.control /\ d.step = s.step
        /\ InStep(d) /\ d.controller.state = "failed"
    <3>1. InStep(d) /\ d.controller.state = "failed"
      BY <1>1, <1>3, Ending
    <3> QED
      BY <1>1, <1>5, <3>1, EmittedFields
  <2> HIDE DEF d
  <2>3. /\ f \in Execution /\ f.run = d.run /\ f.control = d.control
        /\ f.step = d.step /\ f.result = "failed" /\ f.controller = d.controller
        /\ f.sequence = d.sequence
    BY <2>2 DEF Execution, Outcome
  <2> HIDE DEF f
  <2>4. /\ e \in Execution /\ e.pc = "leave" /\ e.run = f.run /\ e.control = f.control
        /\ e.step = f.step /\ e.result = f.result /\ e.controller = f.controller
        /\ e.sequence = f.sequence
    BY <2>3 DEF Execution, Labels
  <2> HIDE DEF e
  <2> QED
    BY <1>4, <2>1, <2>2, <2>3, <2>4 DEF InStep
<1> QED
  BY <1>6, <1>7, <1>8, <1>9

-----------------------------------------------------------------------------
(* The inductive invariant and what follows from it                        *)

\* IInv, with the types of all variables in it, holds initially and every step
\* preserves it.
THEOREM Inductive == Spec => []IInv
<1>1. Init => IInv
  <2> SUFFICES ASSUME Init PROVE IInv
    OBVIOUS
  <2>1. Idle(0) \in Execution /\ Sound(Idle(0)) /\ Idle(0).pc = "idle"
    BY IdleThread DEF Idle
  <2>5. \A t \in Thread : ~Polls(thread[t])
    BY <2>1 DEF Init, Polls, Polling
  <2>2. TypeOK /\ \A t \in Thread : Sound(thread[t]) /\ ~Busy(t) /\ ~Leasing(t)
    BY <2>1 DEF Init, TypeOK, Busy, Leasing, Training, Looping, Polling, Polls, Worker
  <2>3. DOMAIN leases = {} /\ {thread[t].run : t \in {u \in Thread : Leasing(u)}} = {}
    BY <2>2 DEF Init
  <2>4. \A resource \in DOMAIN Capacity : Cardinality(Users(resource)) <= Capacity[resource]
    <3>1. \A resource : Users(resource) = {}
      BY <2>3 DEF Users
    <3> QED
      BY <3>1, FS_EmptySet, ResourceAssumption
  <2> QED
    BY <2>2, <2>3, <2>4, <2>5, FS_EmptySet DEF IInv, Accounts
<1>2. IInv /\ [Next]_vars => IInv'
  <2> SUFFICES ASSUME IInv, [Next]_vars PROVE IInv'
    OBVIOUS
  <2>1. ASSUME NEW t \in Thread, NEW r \in Run, NEW c \in Control,
               NEW start \in 0 .. Steps - 1, Execute(t, r, c, start)
        PROVE  IInv'
    BY <2>1, ExecuteStep
  <2>2. ASSUME NEW t \in Thread, Leave(t) \/ \E r \in Run : RejectRequest(t, r) PROVE IInv'
    BY <2>2, LeaveStep
  <2>3. ASSUME NEW t \in Thread, Continue(t) PROVE IInv'
    BY <2>2, <2>3, AcquireStep, ReleaseStep, CallbackStep, RepeatedStep, LookStep, WorkerStep,
       FailStep, ConcludeStep DEF Continue
  <2>4. CASE UNCHANGED vars
    BY <2>4 DEF vars, IInv, TypeOK, Accounts, Users, Busy, Leasing, Sound, Told, Refused,
                Follows, InStep, Behind, Polls
  <2> QED
    BY <2>1, <2>2, <2>3, <2>4 DEF Next
<1> QED
  BY <1>1, <1>2, PTL DEF Spec

\* The coordinator's leases are exactly those of the executions between their
\* acquire and their finally clause.
THEOREM LeasesAreAccounted == Spec => []LeasesAccounted
<1>1. IInv => LeasesAccounted
  <2>1. \A t \in Thread : Leasing(t) <=> Trains(t) \/ At(t, "release")
    BY DEF Leasing, Training, Looping, Polling, Trains, At
  <2>2. {t \in Thread : Leasing(t)} = Trainers \cup {t \in Thread : At(t, "release")}
    BY <2>1 DEF Trainers
  <2> QED
    BY <2>2 DEF IInv, Accounts, LeasesAccounted
<1> QED
  BY <1>1, Inductive, PTL

\* No resource is used by more trainings than its capacity and no run trains
\* twice at once, whatever fails, disconnects or is refused.
THEOREM CapacityKept == Spec => []TrainsWithinCapacity
<1>1. IInv => TrainsWithinCapacity
  <2> SUFFICES ASSUME IInv PROVE TrainsWithinCapacity
    OBVIOUS
  <2>1. \A t \in Trainers : t \in Thread /\ Busy(t) /\ Leasing(t)
    BY DEF Trainers, Trains, Busy, Leasing, Training, Looping, Polling
  <2>2. \A t, u \in Trainers : thread[t].run = thread[u].run => t = u
    BY <2>1 DEF IInv, Accounts
  <2>3. ASSUME NEW resource \in DOMAIN Capacity
        PROVE  Cardinality({t \in Trainers : resource \in Needs[thread[t].run]}) <= Capacity[resource]
    <3> DEFINE S == {t \in Trainers : resource \in Needs[thread[t].run]}
               f == [t \in S |-> thread[t].run]
    <3>1. \A t \in S : thread[t].run \in Users(resource)
      BY <2>1 DEF IInv, Accounts, Users
    <3>2. f \in Injection(S, Users(resource))
      BY <2>2, <3>1 DEF Injection, IsInjective
    <3>3. IsFiniteSet(Users(resource))
      BY FS_Subset DEF IInv, Accounts, Users
    <3> HIDE DEF f
    <3>4. IsFiniteSet(S) /\ Cardinality(S) <= Cardinality(Users(resource))
      BY <3>2, <3>3, FS_Injection
    <3>5. /\ Cardinality(S) \in Nat /\ Cardinality(Users(resource)) \in Nat
          /\ Cardinality(Users(resource)) <= Capacity[resource] /\ Capacity[resource] \in Nat
      BY <3>3, <3>4, FS_CardinalityType, ResourceAssumption DEF IInv, Accounts
    <3> QED
      BY <3>4, <3>5
  <2> QED
    BY <2>2, <2>3 DEF TrainsWithinCapacity
<1> QED
  BY <1>1, Inductive, PTL

\* No training ends cancelled or interrupted unasked or before its step, however
\* far its worker is ahead of the host; and one in the process never goes past
\* the step, nor completes when something was asked for before its last one.
THEOREM StopsAtItsStep == Spec => []StopsWhereAsked
<1>1. IInv => StopsWhereAsked
  BY DEF IInv, Sound, StopsWhereAsked
<1> QED
  BY <1>1, Inductive, PTL

\* What execute() returns or raises is the terminal state of its ledger, and
\* where a message was refused it raises and the ledger has no terminal state.
THEOREM OutcomeIsTold == Spec => []OutcomeInLedger
<1>1. IInv => OutcomeInLedger
  BY DEF IInv, Sound, Told, OutcomeInLedger
<1> QED
  BY <1>1, Inductive, PTL

=============================================================================
