--------------------------- MODULE ControllerRules ---------------------------
(***************************************************************************)
(* The message protocol between a runtime worker and its host              *)
(* (runtime/protocol.py) and the rules by which a SerializedRunController  *)
(* takes one message (runtime/controller.py).  Pure operators over a       *)
(* controller record, shared by the modules that keep controllers.         *)
(*                                                                         *)
(* A message is its position, its kind and one number of its payload: the  *)
(* step of progress, metric and checkpoint messages, the last sequence of  *)
(* disconnected and reconnected ones, the bundle of artifact_ready.        *)
(***************************************************************************)
EXTENDS Naturals, Sequences

Stepped == {"progress", "checkpoint"}
Activity == Stepped \cup {"metric", "log", "heartbeat"}
Link == {"disconnected", "reconnected"}
TerminalKind == {"cancelled", "interrupted", "completed", "failed"}
Kind == Activity \cup Link \cup TerminalKind
          \cup {"launched", "cancellation_requested", "artifact_ready"}

Live == {"active", "cancelling"}
Terminal == TerminalKind
ControllerState == Live \cup Terminal \cup {"created", "disconnected", "artifact_ready"}

Message == [sequence : Nat \ {0}, kind : Kind, value : Nat]

\* The values the protocol admits: a checkpoint's step is positive, kinds
\* without a number of interest carry 0.
ValidPayload(m) ==
    /\ m.kind = "checkpoint" => m.value > 0
    /\ m.kind \notin Stepped \cup Link \cup {"metric", "artifact_ready"} => m.value = 0

Msg(n, k, v) == [sequence |-> n, kind |-> k, value |-> v]

\* SerializedRunController(request_identity, run_id).  The accepted messages
\* are numbered 1, 2, ... without gap, so the dictionary is a sequence;
\* resume is _state_before_disconnect ("created" for None), bundle 0 is None.
NewController ==
    [state |-> "created", step |-> 0, heartbeats |-> 0, checkpoints |-> 0,
     metrics |-> 0, bundle |-> 0, resume |-> "created", messages |-> <<>>]

LastSequence(c) == Len(c.messages)

\* Training steps do not run backwards.
StepInOrder(c, m) == m.kind \in Stepped => m.value >= c.step

\* Both ends agree on the last message received.
LinkInStep(c, m) == m.kind \in Link => m.value = LastSequence(c)

\* Mutant: an artifact is accepted from a run that is being cancelled.
ReadyLate == Live

\* The state an artifact is accepted in.
ReadyFrom == {"active"}

\* The states a message of each kind is taken in.
Sources(k) ==
    CASE k = "launched" -> {"created"}
      [] k \in Activity -> Live
      [] k = "cancellation_requested" -> {"active"}
      [] k = "disconnected" -> Live
      [] k = "reconnected" -> {"disconnected"}
      [] k = "artifact_ready" -> ReadyFrom
      [] k = "completed" -> {"artifact_ready"}
      [] k = "cancelled" -> {"cancelling"}
      [] k = "interrupted" -> Live \cup {"disconnected"}
      [] k = "failed" -> ControllerState \ {"created"}

\* _transition, the conditions.
Admits(c, m) ==
    /\ c.state \in Sources(m.kind)
    /\ StepInOrder(c, m) /\ LinkInStep(c, m)
    /\ m.kind = "reconnected" => c.resume \in Live

\* Mutant: a reconnect always resumes training.
SuccessorActive(c, m) ==
    CASE m.kind \in {"launched", "reconnected"} -> "active"
      [] m.kind = "cancellation_requested" -> "cancelling"
      [] m.kind \in Activity -> c.state
      [] OTHER -> m.kind

\* _transition, the state it moves to.
Successor(c, m) ==
    CASE m.kind = "launched" -> "active"
      [] m.kind = "cancellation_requested" -> "cancelling"
      [] m.kind = "reconnected" -> c.resume
      [] m.kind \in Activity -> c.state
      [] OTHER -> m.kind

Tick(k, m) == IF m.kind = k THEN 1 ELSE 0

\* Mutant: heartbeats are not kept.
TransitionForgetful(c, m) ==
    [c EXCEPT !.state = Successor(c, m),
              !.step = IF m.kind \in Stepped THEN m.value ELSE @,
              !.heartbeats = @ + Tick("heartbeat", m),
              !.checkpoints = @ + Tick("checkpoint", m),
              !.metrics = @ + Tick("metric", m),
              !.messages = IF m.kind = "heartbeat" THEN @ ELSE Append(@, m)]

\* The controller after it accepted m as its next message.
Transition(c, m) ==
    [state |-> Successor(c, m),
     step |-> IF m.kind \in Stepped THEN m.value ELSE c.step,
     heartbeats |-> c.heartbeats + Tick("heartbeat", m),
     checkpoints |-> c.checkpoints + Tick("checkpoint", m),
     metrics |-> c.metrics + Tick("metric", m),
     bundle |-> IF m.kind = "artifact_ready" THEN m.value ELSE c.bundle,
     resume |-> CASE m.kind = "disconnected" -> c.state
                  [] m.kind = "reconnected" -> "created"
                  [] OTHER -> c.resume,
     messages |-> Append(c.messages, m)]

\* An exact replay of an accepted message: answered, changes nothing.
Replays(c, m) ==
    m.sequence \in DOMAIN c.messages /\ c.messages[m.sequence] = m

\* The next message, in order, to a controller that is not terminal.
Accepts(c, m) ==
    /\ m.sequence = LastSequence(c) + 1
    /\ c.state \notin Terminal
    /\ Admits(c, m)

\* accept() raises for every other message and leaves the controller alone.
Refuses(c, m) == ~Replays(c, m) /\ ~Accepts(c, m)
=============================================================================
