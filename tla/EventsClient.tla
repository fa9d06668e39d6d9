------------------------------ MODULE EventsClient ------------------------------
(***************************************************************************)
(* $tgEvents of the browser client: one WebSocket at a time, messages that *)
(* wait until it is open, heartbeats, and timers that open the next one.   *)
(*                                                                         *)
(* A tab stands for the whole client: one board that subscribes to Board   *)
(* while it is on screen, and the three notification channels, which are   *)
(* subscribed to the same way and stand here as Notes.                     *)
(***************************************************************************)
EXTENDS EventsGateway, FiniteSetsExt

CONSTANTS
  None,       \* no WebSocket
  Board,      \* routing key of the open board
  Notes,      \* routing key of the notifications
  MaxErrors,  \* eventsMaxConnectionErrors
  MaxMissed   \* eventsMaxMissedHeartbeats

ASSUME KeysAssumption == {Board, Notes} \subseteq Keys /\ Board # Notes
ASSUME ConnectionsAssumption == Connections \subseteq Nat /\ None \notin Connections
ASSUME LimitsAssumption == MaxErrors \in Nat \ {0} /\ MaxMissed \in Nat \ {0}

VARIABLES
  ws,         \* the current WebSocket
  state,      \* its readyState: "connecting", "open" or "closed"
  link,       \* the network under it: "up", "lost", or "silent" when nothing tells
  connected, error, errors, pending,
  heartbeat,  \* the interval is running
  missed,
  timers,     \* pending setTimeout(setupConnection)
  page,       \* "elsewhere", "board", or "unbound": on the board, subscribe has given up
  asked       \* keys the tab has subscribed to on this connection (observed only)

client == <<ws, state, link, connected, error, errors, pending, heartbeat, missed,
            timers, page, asked>>

ClientInit ==
  /\ ws = None /\ state = "closed" /\ link = "up"
  /\ connected = FALSE /\ error = FALSE /\ errors = 0
  /\ pending = <<>>
  /\ heartbeat = FALSE /\ missed = 0
  /\ timers = 1  \* the application sets the connection up when it starts
  /\ page = "elsewhere"
  /\ asked = {}

-----------------------------------------------------------------------------
(* Sending.                                                                *)

Connected == state = "open" /\ link = "up" /\ gateway[ws].socket

\* Messages on a connection that is cut go nowhere.
Transmit(messages) ==
  \/ Connected /\ gateway' = [gateway EXCEPT ![ws].inbox = @ \o messages]
  \/ ~ Connected /\ UNCHANGED gateway

\* sendMessage: connected stays set while setupConnection replaces an open connection, and
\* the messages are taken off the list before ws.send throws.
SendMessage(message) ==
  \/ ~ connected /\ pending' = Append(pending, message) /\ UNCHANGED gateway
  \/ connected /\ pending' = <<>> /\ Transmit(Append(pending, message))

Throws == connected /\ state = "connecting"

-----------------------------------------------------------------------------
(* Connecting.                                                             *)

\* Ids without a trace of an earlier connection.
Unused == {c \in Connections \ {ws} : gateway[c] = Nothing}

\* stopExistingConnection takes the listeners off, so nothing clears connected.
SetupConnection ==
  /\ Unused # {}
  /\ ws' = Min(Unused)
  /\ state' = "connecting"
  /\ link' = "up"
  /\ error' = FALSE
  /\ heartbeat' = FALSE
  /\ asked' = {}
  /\ Transmit(<<<<"close">>>>)
  /\ UNCHANGED <<connected, errors, pending, missed, page>>

OpeningMessages_AuthLast == Append(pending, <<"subscribe", Notes>>) \o <<<<"auth">>>>

\* onOpen: what was pending goes first, then the authentication, then the notifications.
OpeningMessages == Append(pending, <<"auth">>) \o <<<<"subscribe", Notes>>>>

OnOpen ==
  /\ state = "connecting"
  /\ state' = "open"
  /\ connected' = TRUE
  /\ gateway' = [gateway EXCEPT ![ws].socket = TRUE, ![ws].inbox = OpeningMessages]
  /\ pending' = <<>>
  /\ heartbeat' = TRUE
  /\ missed' = IF heartbeat THEN missed ELSE 0
  /\ asked' = {Notes}
  /\ UNCHANGED <<ws, link, error, errors, timers, page>>

Reconnect_OnlyOnce == errors = 0 /\ ~ error

\* onError and onClose decide between them on one timer.
Reconnect == IF error THEN errors < MaxErrors ELSE TRUE

\* onError, where the browser fires it, and onClose right after it.
OnClose(failed) ==
  /\ state' = "closed"
  /\ connected' = FALSE
  /\ heartbeat' = FALSE
  /\ error' = (error \/ failed)
  /\ errors' = IF failed THEN errors + 1 ELSE errors
  /\ timers' = IF Reconnect' THEN timers + 1 ELSE timers
  /\ asked' = {}
  /\ UNCHANGED <<ws, link, pending, missed, page>>

TimerFires ==
  /\ timers > 0
  /\ timers' = timers - 1
  /\ SetupConnection

\* auth.coffee sets the connection up again after a login.
Login ==
  /\ SetupConnection
  /\ UNCHANGED timers

-----------------------------------------------------------------------------
(* Heartbeats.                                                             *)

TickFails == missed >= MaxMissed

\* The interval sends a ping, or gives the connection up.
Tick ==
  /\ heartbeat
  /\ \/ TickFails /\ SetupConnection /\ UNCHANGED timers
     \/ /\ ~ TickFails
        /\ missed' = missed + 1
        /\ SendMessage(<<"ping">>)
        /\ UNCHANGED <<ws, state, link, connected, error, errors, heartbeat, timers, page, asked>>

ReceivePong(c) ==
  /\ missed' = IF c = ws /\ state = "open" /\ link = "up" THEN 0 ELSE missed
  /\ UNCHANGED <<ws, state, link, connected, error, errors, pending, heartbeat, timers, page, asked>>

-----------------------------------------------------------------------------
(* The board subscribes when it is opened and unsubscribes when its scope  *)
(* is destroyed.                                                           *)

OpenBoard ==
  /\ page = "elsewhere"
  /\ \/ error /\ page' = "unbound" /\ UNCHANGED <<pending, asked, gateway>>
     \/ /\ ~ error
        /\ SendMessage(<<"subscribe", Board>>)
        /\ page' = IF Throws THEN "unbound" ELSE "board"
        /\ asked' = IF state = "open" THEN asked \cup {Board} ELSE asked
  /\ UNCHANGED <<ws, state, link, connected, error, errors, heartbeat, missed, timers>>

\* loadInitialData runs again when another client has changed a status or a swimlane.  Its second
\* $destroy listener sends a second unsubscribe, which the gateway ignores.
ReloadBoard ==
  /\ page = "board" /\ ~ error
  /\ SendMessage(<<"subscribe", Board>>)
  /\ asked' = IF state = "open" THEN asked \cup {Board} ELSE asked
  /\ UNCHANGED <<ws, state, link, connected, error, errors, heartbeat, missed, timers, page>>

LeaveBoard ==
  /\ page # "elsewhere"
  /\ page' = "elsewhere"
  /\ \/ (page = "unbound" \/ error) /\ UNCHANGED <<pending, asked, gateway>>
     \/ /\ page = "board" /\ ~ error
        /\ SendMessage(<<"unsubscribe", Board>>)
        /\ asked' = asked \ {Board}
  /\ UNCHANGED <<ws, state, link, connected, error, errors, heartbeat, missed, timers>>

=============================================================================
