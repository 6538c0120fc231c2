---------------------------- MODULE ReviewLedger ----------------------------
(***************************************************************************)
(* What the resolution of reviews promises, without queue, replay or       *)
(* awaits: each accepted request adds its decision to the history of its   *)
(* review at one moment between call and answer, or never; a request that  *)
(* is answered well has been decided, one that is turned down has not, and *)
(* no decision is ever taken back.                                         *)
(***************************************************************************)
EXTENDS Sequences

CONSTANTS
  Requests,   \* the operators' requests
  Reviews     \* the identities reviews can have

VARIABLES
  phase,      \* "idle", "open", "decided", or how the request ended
  history     \* history[v]: the requests that decided on review v, in order

vars == <<phase, history>>

Init ==
  /\ phase = [r \in Requests |-> "idle"]
  /\ history = [v \in Reviews |-> <<>>]

Become(r, label) == phase' = [phase EXCEPT ![r] = label]

Open(r) == phase[r] = "idle" /\ Become(r, "open") /\ UNCHANGED history

Decide(r, v) ==
  /\ phase[r] \in {"idle", "open"}
  /\ Become(r, "decided")
  /\ history' = [history EXCEPT ![v] = Append(@, r)]

\* The request is turned down: unknown review, role, or a failed replay.
TurnDown(r) ==
  /\ phase[r] \in {"idle", "open"}
  /\ Become(r, "turnedDown")
  /\ UNCHANGED history

\* The operator hears of the decision, or gets an error although it stands.
Answer(r) ==
  /\ phase[r] = "decided"
  /\ Become(r, "acknowledged") \/ Become(r, "unanswered")
  /\ UNCHANGED history

Next ==
  \E r \in Requests :
    Open(r) \/ TurnDown(r) \/ Answer(r) \/ \E v \in Reviews : Decide(r, v)

Spec == Init /\ [][Next]_vars
=============================================================================
