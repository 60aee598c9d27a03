-------------------------- MODULE RuntimeController --------------------------
(***************************************************************************)
(* One SerializedRunController that is offered messages in any order, with *)
(* losses, exact replays, conflicting replays and wrong numbers: what a    *)
(* worker that restarts or a ledger read twice can present.  accept() runs *)
(* under the controller's lock, so each call is one step.                  *)
(***************************************************************************)
EXTENDS ControllerRules, SequencesExt

CONSTANTS
    Bundle,        \* bundle identities (positive numbers)
    MaxStep,       \* bound: training steps
    MaxSequence    \* bound: message numbers offered

ASSUME BundleAssumption == Bundle \subseteq Nat \ {0}
ASSUME BoundsAssumption == MaxStep \in Nat /\ MaxSequence \in Nat

VARIABLES
    controller,   \* the controller's fields
    answer        \* how the last accept() ended

controllerVars == <<controller, answer>>

Values(k) ==
    CASE k \in Stepped -> 0 .. MaxStep
      [] k \in Link -> 0 .. MaxSequence
      [] k = "artifact_ready" -> Bundle
      [] OTHER -> {0}

Offered ==
    {m \in UNION {{Msg(n, k, v) : n \in 1 .. MaxSequence, v \in Values(k)} : k \in Kind} :
        ValidPayload(m)}

ControllerInit == controller = NewController /\ answer = "none"

AcceptNext(m) ==
    /\ Accepts(controller, m)
    /\ controller' = Transition(controller, m)
    /\ answer' = "applied"

AcceptReplay(m) ==
    /\ Replays(controller, m)
    /\ answer' = "replayed"
    /\ UNCHANGED controller

Refuse(m) ==
    /\ Refuses(controller, m)
    /\ answer' = "refused"
    /\ UNCHANGED controller

ControllerNext == \E m \in Offered : AcceptNext(m) \/ AcceptReplay(m) \/ Refuse(m)

ControllerSpec == ControllerInit /\ [][ControllerNext]_controllerVars

\* reconstruct(): a fresh controller fed the messages in order.  A message it
\* would refuse makes it raise, which the marker FALSE stands for.
Reconstruct(messages) ==
    FoldLeft(LAMBDA c, m : IF c.ok /\ Accepts(c.made, m)
                           THEN [ok |-> TRUE, made |-> Transition(c.made, m)]
                           ELSE [ok |-> FALSE, made |-> c.made],
             [ok |-> TRUE, made |-> NewController], messages)

-----------------------------------------------------------------------------
(* Properties                                                              *)

ControllerTypeOK ==
    /\ controller \in
         [state : ControllerState, step : Nat, heartbeats : Nat,
          checkpoints : Nat, metrics : Nat, bundle : Nat,
          resume : Live \cup {"created"}, messages : Seq(Message)]
    /\ answer \in {"none", "applied", "replayed", "refused"}

Ledger == controller.messages
Said(k) == \E i \in DOMAIN Ledger : Ledger[i].kind = k

\* The controller is non-canonical: rebuilding it from the ledger of messages
\* it accepted gives exactly the live controller, whatever was offered to it.
RebuiltFromLedger == Reconstruct(Ledger) = [ok |-> TRUE, made |-> controller]

\* A terminal message wins once: nothing offered later changes anything.
TerminalWinsOnce ==
    [][controller.state \in Terminal => UNCHANGED controller]_controllerVars

\* Every terminal state is earned by the whole ledger: completed directly
\* after a verified artifact and never once a cancellation was acknowledged;
\* cancelled only after an acknowledged cancellation.
TerminalJustified ==
    /\ controller.state = "completed" =>
         /\ Ledger[Len(Ledger) - 1].kind = "artifact_ready"
         /\ ~Said("cancellation_requested")
         /\ controller.bundle = Ledger[Len(Ledger) - 1].value
    /\ controller.state = "cancelled" =>
         Said("cancellation_requested") /\ ~Said("artifact_ready")

\* A cancellation acknowledged before a lost connection still holds after the
\* reconnect: the run is cancelling (or cut off) until it ends.
CancellationNotForgotten ==
    Said("cancellation_requested") /\ controller.state \notin Terminal =>
        \/ controller.state = "cancelling"
        \/ controller.state = "disconnected" /\ controller.resume = "cancelling"

\* Nothing happens while the connection is down, and both ends agree on what
\* had been received: a reconnect directly follows its disconnect, and each
\* names its predecessor's number.
DisconnectsPaired ==
    \A i \in DOMAIN Ledger :
        /\ Ledger[i].kind \in Link => Ledger[i].value = i - 1
        /\ Ledger[i].kind = "disconnected" /\ i < Len(Ledger) =>
             Ledger[i + 1].kind \in {"reconnected", "interrupted", "failed"}
        /\ Ledger[i].kind = "reconnected" => i > 1 /\ Ledger[i - 1].kind = "disconnected"

\* Training progress never runs backwards over the accepted ledger, across
\* kinds, replays and reconnects.
StepsNeverRegress ==
    \A i, j \in DOMAIN Ledger :
        i < j /\ Ledger[i].kind \in Stepped /\ Ledger[j].kind \in Stepped =>
            Ledger[i].value <= Ledger[j].value
=============================================================================
