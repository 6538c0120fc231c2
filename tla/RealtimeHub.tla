----------------------------- MODULE RealtimeHub -----------------------------
(***************************************************************************)
(* The realtime gateway on one topic: POST publish/{topic} goes to the     *)
(* event bus, whose consumer in the same process shows it on the hub; when *)
(* the bus raises, the request shows it itself.  The hub keeps a list for  *)
(* the dashboard and sends to the connected websockets.                    *)
(*                                                                         *)
(* The list keeps the last hundred messages; shown counts how often each   *)
(* message was appended.                                                   *)
(***************************************************************************)
EXTENDS EventBus

CONSTANTS
  gateway,
  Foreign     \* messages other services publish on the topic

ASSUME GatewayAssumption == gateway \in Subscribers /\ Foreign \subseteq Messages

Posted == Messages \ Foreign

VARIABLES
  post,       \* where the POST of each message is
  shown,      \* how often the hub has appended it
  following   \* whether the gateway's consumer of the topic lives

vars == <<busVars, post, shown, following>>

Init ==
  /\ BusInit
  /\ post = [m \in Posted |-> "idle"]
  /\ shown = [m \in Messages |-> 0]
  /\ following = TRUE

Goes(m, label) == post' = [post EXCEPT ![m] = label]

\* BroadcastHub.publish up to its sends: the list is extended first, so that it
\* holds the message even when a send raises.
Show(m) == shown' = [shown EXCEPT ![m] = @ + 1]

\* event_bus.publish of the handler.
PostSends(m, reaches) ==
  /\ post[m] = "idle"
  /\ Published(gateway, m, reaches)
  /\ Goes(m, IF reaches THEN "sent" ELSE "raised")
  /\ UNCHANGED <<distributed, readerVars, taken, shown, following>>

\* It returns: done, with a distributed bus; otherwise the hub is told too, and
\* a send that raises leads into the handler's except branch.
PostReturns(m) ==
  /\ post[m] = "sent"
  /\ IF distributed[gateway]
     THEN Goes(m, "answered") /\ UNCHANGED shown
     ELSE Show(m) /\ \E label \in {"answered", "raised"} : Goes(m, label)
  /\ UNCHANGED <<busVars, following>>

\* The answer of Redis is lost: publish raises although the entry is there.
PostLosesAnswer(m) ==
  /\ post[m] = "sent" /\ distributed[gateway]
  /\ Goes(m, "raised")
  /\ UNCHANGED <<busVars, shown, following>>

\* Mutant of PostFallsBack: the exception is only logged.
PostFallsBackQuietly(m) ==
  /\ post[m] = "raised"
  /\ Goes(m, "answered")
  /\ UNCHANGED <<busVars, shown, following>>

\* The except branch: the hub is told directly; a send that raises again ends
\* the request with an error.
PostFallsBack(m) ==
  /\ post[m] = "raised"
  /\ Show(m)
  /\ \E label \in {"answered", "error"} : Goes(m, label)
  /\ UNCHANGED <<busVars, following>>

\* consume_topic: a send that raises anything but RuntimeError ends it.
HubConsumes ==
  /\ following /\ Get(gateway)
  /\ Show(Upcoming(gateway))
  /\ following' \in BOOLEAN
  /\ UNCHANGED post

\* Another service reaches Redis with a message of its own.
OtherPublishes(m) ==
  /\ \A i \in DOMAIN stream : stream[i] # m
  /\ Xadd(m, TRUE)
  /\ UNCHANGED <<distributed, readerVars, taken, post, shown, following>>

Next ==
  \/ \E m \in Posted : \/ \E reaches \in BOOLEAN : PostSends(m, reaches)
                       \/ PostReturns(m) \/ PostLosesAnswer(m) \/ PostFallsBack(m)
  \/ \E m \in Foreign : OtherPublishes(m)
  \/ HubConsumes
  \/ (Pumping(gateway) \/ PumpDies(gateway)) /\ UNCHANGED <<post, shown, following>>

\* uvicorn runs every handler on, and the event loop every consumer and pump.
Spec ==
  /\ Init /\ [][Next]_vars
  /\ \A m \in Posted : WF_vars(PostReturns(m) \/ PostFallsBack(m))
  /\ WF_vars(HubConsumes)
  /\ WF_vars(Pumping(gateway) /\ UNCHANGED <<post, shown, following>>)
-----------------------------------------------------------------------------
\* Passed over by the gateway: in the stream before its first entry.
Missed(m) ==
  \E i \in 1..position[gateway] - Len(seen[gateway]) : stream[i] = m

\* Type invariant, of the bus and of the hub.
TypeOK ==
  /\ BusTypeOK
  /\ post \in [Posted -> {"idle", "sent", "raised", "answered", "error"}]
  /\ shown \in [Messages -> Nat]
  /\ following \in BOOLEAN

\* A POST that was answered is shown on the dashboard in the end, whatever
\* fails between the handler, Redis and the consumer, unless the gateway had
\* not read its first entry of the topic when it was sent, or its pump or its
\* consumer has ended.
PostsAreShown ==
  \A m \in Posted :
    post[m] = "answered" ~>
      shown[m] > 0 \/ Missed(m) \/ pump[gateway] = "dead" \/ ~ following
=============================================================================
