--------------------------- MODULE GovernanceRules ---------------------------
(***************************************************************************)
(* ConstitutionalGovernanceLayer.evaluate_action: the first rule of the    *)
(* list that matches decides.  A value of a context is abstracted to what  *)
(* the predicates of DEFAULT_RULES can tell of it; "malformed" is a value  *)
(* that float() refuses, so that the evaluation raises.                    *)
(***************************************************************************)
EXTENDS Naturals, Sequences

CONSTANT Rules   \* the rules of the layer, in order

Keys == {"action", "criticality", "amount", "reversibility", "sensor_confidence",
         "data_type", "intent", "capability"}

Contexts ==
  [action : {"shutdown", "other"}, criticality : {"above", "below"},
   amount : {"large", "small", "malformed"}, reversibility : {"none", "partial"},
   sensor_confidence : {"low", "high", "malformed"},
   data_type : {"protected", "open"}, intent : {"harm", "other"},
   capability : {"weapon", "other"}]

Stops == {"BLOCK", "ESCALATE"}
Actions == Stops \cup {"MONITOR", "ALLOW"}

\* A condition gives, for the keys it looks at, the values it is met by.
Rule(condition, action) == [condition |-> condition, action |-> action]

DefaultRules ==
  << Rule([action |-> {"shutdown"}, criticality |-> {"above"}], "ESCALATE"),
     Rule([amount |-> {"large"}], "BLOCK"),
     Rule([reversibility |-> {"none"}], "ESCALATE"),
     Rule([sensor_confidence |-> {"low"}], "MONITOR"),
     Rule([data_type |-> {"protected"}], "BLOCK"),
     Rule([intent |-> {"harm"}, capability |-> {"weapon"}], "BLOCK") >>

LooksAt(i) == DOMAIN Rules[i].condition

\* The action service and the kernel build their contexts from different
\* values of sensor_confidence: no rule that stops may look at it, and none
\* allows what a later one would stop.
ASSUME RulesAssumption ==
  /\ Len(Rules) \in Nat
  /\ \A i \in 1 .. Len(Rules) :
       /\ Rules[i].action \in Stops \cup {"MONITOR"}
       /\ LooksAt(i) \subseteq Keys
       /\ Rules[i].action \in Stops => "sensor_confidence" \notin LooksAt(i)

Matches(i, c) == \A k \in LooksAt(i) : c[k] \in Rules[i].condition[k]
Raises(i, c) == \E k \in LooksAt(i) : c[k] = "malformed"

\* The rules at which the search through the list can end.
Hits(c) == {i \in 1 .. Len(Rules) : Matches(i, c) \/ Raises(i, c)}

\* Mutant of Verdict: the last rule that matches decides.
VerdictOfLast(c) ==
  IF Hits(c) = {} THEN "ALLOW"
  ELSE LET i == CHOOSE i \in Hits(c) : \A j \in Hits(c) : j <= i
       IN  IF Raises(i, c) THEN "error" ELSE Rules[i].action

\* evaluate_action: "error" is the exception that the endpoint answers with
\* status 500.
Verdict(c) ==
  IF Hits(c) = {} THEN "ALLOW"
  ELSE LET i == CHOOSE i \in Hits(c) : \A j \in Hits(c) : i <= j
       IN  IF Raises(i, c) THEN "error" ELSE Rules[i].action
=============================================================================
