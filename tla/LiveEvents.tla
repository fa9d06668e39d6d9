------------------------------- MODULE LiveEvents -------------------------------
(***************************************************************************)
(* The browser client and the gateway of live events over an unreliable    *)
(* network: connections are refused, lost or cut without notice, and the   *)
(* gateway is restarted or ends itself.                                    *)
(*                                                                         *)
(* The emission of events and what boards make of them is KanbanBoard and TaskboardOrder.       *)
(***************************************************************************)
EXTENDS EventsClient

CONSTANTS
  MaxFaults, \* bound: faults of network and gateway, and steps that come far too soon
  MaxClicks  \* bound: boards opened or left, and logins

ASSUME BoundsAssumption == MaxFaults \in Nat /\ MaxClicks \in Nat

VARIABLES faults, clicks  \* how many are left

vars == <<gateway, client, faults, clicks>>
bounds == <<faults, clicks>>

Init ==
  /\ GatewayInit
  /\ ClientInit
  /\ faults = MaxFaults
  /\ clicks = MaxClicks

Spend == faults > 0 /\ faults' = faults - 1
Click == clicks > 0 /\ clicks' = clicks - 1 /\ UNCHANGED faults

-----------------------------------------------------------------------------
(* The gateway.                                                            *)

Ping(c) == Pong(c) /\ ReceivePong(c) /\ UNCHANGED bounds

Handle(c) ==
  /\ \/ Authenticate(c)
     \/ Ignore(c)
     \/ AddSubscription(c)
     \/ RemoveSubscription(c)
     \/ Close(c)
     \/ CreateChannel(c)
     \/ Answer(c)
  /\ UNCHANGED <<client, bounds>>

\* docker compose restart, or the loss of the one connection to RabbitMQ.
Restart ==
  /\ \E c \in Connections : gateway[c].socket
  /\ Spend
  /\ Exit
  /\ UNCHANGED <<client, clicks>>

-----------------------------------------------------------------------------
(* The network.                                                            *)

Opens == OnOpen /\ UNCHANGED bounds

Refused ==
  /\ state = "connecting"
  /\ errors < MaxErrors
  /\ Spend
  /\ OnClose(TRUE)
  /\ UNCHANGED <<gateway, clicks>>

\* The gateway finds out on its own; the client is told, or is not.
Cut ==
  /\ state = "open" /\ link = "up"
  /\ Spend
  /\ link' \in {"lost", "silent"}
  /\ gateway' = [gateway EXCEPT ![ws].inbox = IF gateway[ws].socket THEN <<<<"close">>>> ELSE @]
  /\ UNCHANGED <<ws, state, connected, error, errors, pending, heartbeat, missed, timers,
                 page, asked, clicks>>

Lost ==
  /\ state = "open"
  /\ link = "lost" \/ (link = "up" /\ ~ gateway[ws].socket)
  /\ \E failed \in BOOLEAN : (failed => errors < MaxErrors) /\ OnClose(failed)
  /\ UNCHANGED <<gateway, bounds>>

-----------------------------------------------------------------------------
(* The tab.                                                                *)

\* Timers and the interval take seconds: the gateway is done by then, and a ping answered.
Timer == TimerFires /\ Settled /\ UNCHANGED bounds

Timely == Settled /\ (missed = 0 \/ link # "up")
Beat == Tick /\ Timely /\ UNCHANGED bounds

\* Unless the network or the gateway is slow.
Early ==
  /\ \/ TimerFires /\ ~ Settled
     \/ Tick /\ ~ Timely
  /\ Spend
  /\ UNCHANGED clicks

User == (Login \/ OpenBoard \/ ReloadBoard \/ LeaveBoard) /\ Click

Next ==
  \/ \E c \in Connections : Handle(c) \/ Ping(c)
  \/ Restart
  \/ Opens \/ Refused \/ Cut \/ Lost
  \/ Timer \/ Beat \/ Early \/ User

Spec == Init /\ [][Next]_vars

\* Promises are settled and messages handled, a connection that nobody refuses opens, and the
\* timers and the interval of the tab run.
FairSpec ==
  /\ Spec
  /\ \A c \in Connections : WF_vars(Handle(c)) /\ WF_vars(Ping(c))
  /\ WF_vars(Opens) /\ WF_vars(Lost)
  /\ WF_vars(Timer) /\ WF_vars(Beat)

-----------------------------------------------------------------------------
(* Properties.                                                             *)

\* What the tab has asked for on the connection it has is delivered to it once the gateway is done:
\* however starts and stops of one key overtake each other, none of them takes away a
\* consumer that is still wanted.
AskedIsDelivered ==
  Connected /\ Settled => \A k \in asked : gateway[ws].consumers[k] > 0

\* A client gets an event once.  A second consumer, or one nobody wants any more, is left only
\* by a stop that came while a start of the same key was under way.
SurplusOnlyIfOvertaken ==
  \A c \in Connections : \A k \in Keys :
    /\ gateway[c].socket
    /\ gateway[c].consumers[k] > (IF k \in gateway[c].manager THEN 1 ELSE 0)
    => k \in gateway[c].overtaken

Served == Connected /\ gateway[ws].consumers[Notes] > 0

\* Once the faults are over the notifications come through for good, whatever was lost, refused
\* or restarted before, unless the tab has counted too many errors.
NotificationsComeBack == <>[](Served \/ errors = MaxErrors)

=============================================================================
