-------------------------- MODULE MCActionDispatch --------------------------
(***************************************************************************)
(* Two clients that use one key and a run of the kernel.                   *)
(***************************************************************************)
EXTENDS ActionDispatch

CONSTANTS run, first, second   \* dispatches

MCCalls == {run, first, second}
MCKey == [c \in MCCalls |-> IF c = run THEN "fresh" ELSE "given"]

Plain == [action |-> "other", criticality |-> "below", amount |-> "small",
          reversibility |-> "partial", sensor_confidence |-> "high",
          data_type |-> "open", intent |-> "other", capability |-> "other"]

\* Nothing matches; one stop of each kind, before and behind a MONITOR rule; an
\* evaluation that raises.
MCTemplates ==
  {Plain,
   [Plain EXCEPT !.amount = "large"],
   [Plain EXCEPT !.reversibility = "none", !.sensor_confidence = "low"],
   [Plain EXCEPT !.data_type = "protected", !.sensor_confidence = "low"],
   [Plain EXCEPT !.sensor_confidence = "malformed"]}
=============================================================================
