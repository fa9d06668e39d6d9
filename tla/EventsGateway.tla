----------------------------- MODULE EventsGateway -----------------------------
(***************************************************************************)
(* taiga-events: the Node.js process between browsers and RabbitMQ.        *)
(*                                                                         *)
(* Each WebSocket has at most one AMQP channel and one consumer per        *)
(* subscription.  The process runs one handler at a time, but a handler    *)
(* ends where it waits for a promise: the creation of the channel, or the  *)
(* answer to a command on it.  What comes in meanwhile finds channels and  *)
(* consumer tags that are not there yet.  A rejected promise nobody waits  *)
(* for ends the process, which docker starts again.                        *)
(*                                                                         *)
(* The client at the other end is EventsClient; LiveEvents composes both.  *)
(***************************************************************************)
EXTENDS Naturals, Sequences, SequencesExt

CONSTANTS
  Connections, \* ids of WebSockets; one that left no trace is used again
  Keys         \* routing keys

VARIABLE gateway  \* what the process and RabbitMQ keep for each connection

Commands ==
  {<<"auth">>, <<"ping">>, <<"close">>} \cup ({"subscribe", "unsubscribe"} \X Keys)
Tasks == {"start", "stop"} \X Keys

Records ==
  [inbox : Seq(Commands),    \* sent by the client and not handled yet
   socket : BOOLEAN,         \* the WebSocket is served
   auth : BOOLEAN,           \* Client.auth is set
   manager : SUBSET Keys,    \* SubscriptionManager.subscriptions
   channel : {"none", "creating", "open"},  \* in neither, in pendingChannels, in chs
   waiting : Seq(Tasks),     \* starts and stops that wait for the channel
   rpcs : Seq(Tasks),        \* commands on the channel without an answer
   tags : [Keys -> {"missing", "live", "cancelled"}],  \* subs: the tag of each key
   consumers : [Keys -> Nat],  \* consumers RabbitMQ delivers to
   overtaken : SUBSET Keys]  \* keys stopped while a start was under way (observed only)

Nothing ==
  [inbox |-> <<>>, socket |-> FALSE, auth |-> FALSE, manager |-> {}, channel |-> "none",
   waiting |-> <<>>, rpcs |-> <<>>, tags |-> [k \in Keys |-> "missing"],
   consumers |-> [k \in Keys |-> 0], overtaken |-> {}]

GatewayInit == gateway = [c \in Connections |-> Nothing]

\* process.exit(1), and docker's restart: every WebSocket and channel is gone.
Exit == gateway' = [c \in Connections |-> Nothing]

\* The gateway has nothing to do.
Settled == \A c \in Connections :
  gateway[c].inbox = <<>> /\ gateway[c].waiting = <<>> /\ gateway[c].rpcs = <<>>

-----------------------------------------------------------------------------
(* What runs once the channel is there.                                    *)

Of(kind, tasks) == {k \in Keys : Contains(tasks, <<kind, k>>)}

\* unsubscribe reads subs[client_id][routing_key], and subs[client_id] appears with the
\* first registered consumer.
Breaks(g, tasks) == Of("stop", tasks) # {} /\ \A k \in Keys : g.tags[k] = "missing"

\* A stop finds nothing to cancel where its tag is not known; it is the first of its tasks.
Sent(g, tasks) ==
  IF Head(tasks)[1] = "stop" /\ g.tags[Head(tasks)[2]] = "missing" THEN Tail(tasks) ELSE tasks

\* A tag that is cancelled stays in subs.
Ran(g, tasks) ==
  LET stopped == {k \in Of("stop", tasks) : g.tags[k] = "live"}
  IN [g EXCEPT
       !.rpcs = @ \o Sent(g, tasks),
       !.tags = [k \in Keys |-> IF k \in stopped THEN "cancelled" ELSE @[k]],
       !.consumers = [k \in Keys |-> IF k \in stopped THEN @[k] - 1 ELSE @[k]],
       !.overtaken = @ \cup (Of("stop", tasks) \cap Of("start", g.rpcs))]

\* channels.get: the channel is created for the first task and the others wait for it.
Submitted(g, tasks) ==
  IF g.channel = "open" THEN Ran(g, tasks)
  ELSE [g EXCEPT !.channel = "creating", !.waiting = @ \o tasks]

CreateChannel(c) ==
  LET g == gateway[c]
  IN /\ g.channel = "creating"
     /\ \/ Breaks(g, g.waiting) /\ Exit
        \/ /\ ~ Breaks(g, g.waiting)
           /\ gateway' = [gateway EXCEPT ![c] =
                            [Ran(g, g.waiting) EXCEPT !.channel = "open", !.waiting = <<>>]]

\* RabbitMQ answers in order.  The last answer of a start brings the consumer tag.
Answer(c) ==
  /\ gateway[c].rpcs # <<>>
  /\ LET task == Head(gateway[c].rpcs)
     IN gateway' = [gateway EXCEPT
          ![c].rpcs = Tail(@),
          ![c].tags[task[2]] = IF task[1] = "start" THEN "live" ELSE @,
          ![c].consumers[task[2]] = IF task[1] = "start" THEN @ + 1 ELSE @]

-----------------------------------------------------------------------------
(* Messages of the client.                                                 *)

Received(c, kind) == gateway[c].inbox # <<>> /\ Head(gateway[c].inbox)[1] = kind
Key(c) == Head(gateway[c].inbox)[2]

\* The record with its first message taken off.
Rest(c) == [gateway[c] EXCEPT !.inbox = Tail(@)]

Authenticate(c) ==
  /\ Received(c, "auth")
  /\ gateway' = [gateway EXCEPT ![c] = [Rest(c) EXCEPT !.auth = TRUE]]

\* What the answer does to the client is in EventsClient.
Pong(c) ==
  /\ Received(c, "ping")
  /\ gateway' = [gateway EXCEPT ![c] = Rest(c)]

Ignore(c) ==
  /\ \/ Received(c, "subscribe") /\ ~ gateway[c].auth
     \/ Received(c, "unsubscribe") /\ Key(c) \notin gateway[c].manager
  /\ gateway' = [gateway EXCEPT ![c] = Rest(c)]

AddTasks_NoStop(c, k) == <<<<"start", k>>>>

\* SubscriptionManager.add: a subscription to the same key is stopped first.
AddTasks(c, k) ==
  IF k \in gateway[c].manager THEN <<<<"stop", k>>, <<"start", k>>>> ELSE <<<<"start", k>>>>

\* A task that fails at once ends the process, too.
Submit(c, tasks, known) ==
  \/ gateway[c].channel = "open" /\ Breaks(gateway[c], tasks) /\ Exit
  \/ /\ ~ (gateway[c].channel = "open" /\ Breaks(gateway[c], tasks))
     /\ gateway' = [gateway EXCEPT ![c] = [Submitted(Rest(c), tasks) EXCEPT !.manager = known]]

AddSubscription(c) ==
  /\ Received(c, "subscribe")
  /\ gateway[c].auth
  /\ Submit(c, AddTasks(c, Key(c)), gateway[c].manager \cup {Key(c)})

RemoveSubscription(c) ==
  /\ Received(c, "unsubscribe")
  /\ Key(c) \in gateway[c].manager
  /\ Submit(c, <<<<"stop", Key(c)>>>>, gateway[c].manager \ {Key(c)})

\* Client.close: channels.removeClient closes a channel that exists, and what RabbitMQ has not
\* answered on it is rejected.  One that is being created is left to its creation.
Close(c) ==
  /\ Received(c, "close")
  /\ \/ gateway[c].rpcs # <<>> /\ Exit
     \/ /\ gateway[c].rpcs = <<>>
        /\ gateway' = [gateway EXCEPT ![c] =
             IF @.channel = "creating"
             THEN [Nothing EXCEPT !.channel = "creating", !.waiting = gateway[c].waiting]
             ELSE Nothing]

=============================================================================
