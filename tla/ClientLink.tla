----------------------------- MODULE ClientLink -----------------------------
(***************************************************************************)
(* How one player's browser stays connected to his room: the sockets that  *)
(* gameClient.js opens and opens again (wwwroot/js/gameClient.js), the     *)
(* registration of sockets at a server (ConnectionManager.cs,              *)
(* GameWebSocketHandler.cs), the presence of the player and the buffer of  *)
(* events that a session keeps for him (GameSession.cs, CircularBuffer.cs).*)
(* An event stands for the end of a round: the client asks for the state   *)
(* when it hears of one.  The other player, the commands and the timers    *)
(* are what makes rounds end at any time.                                  *)
(***************************************************************************)
EXTENDS Filter, SequencesExt, FiniteSetsExt

CONSTANTS
  Servers,
  Capacity,      \* of the circular buffer (200 in the code)
  PromptClose,   \* is the end of a connection noticed before the next one?
  MaxSockets,    \* bound: sockets the browser opens
  MaxEvents      \* bound: rounds that end

Sockets == 1..MaxSockets

ASSUME LinkBounds ==
  /\ Capacity \in Nat \ {0}
  /\ PromptClose \in BOOLEAN
  /\ MaxSockets \in Nat \ {0}
  /\ MaxEvents \in Nat

VARIABLES
  \* the browser
  ws,                   \* this.ws: its newest socket, 0 before the first
  readyState,           \* of every socket
  reconnectTimeout,     \* is the timer of a reconnection running?
  isClosedIntentionally,
  lastSeenSequence,
  seen,                 \* the events it has handled
  view,                 \* the events its last state knows of
  refused,              \* was the last answer one without a state?
  asked,                \* lastSeenSequence when the newest socket opened
  synced,               \* has the newest socket had the answer to that?
  \* the network
  at,                   \* the server a socket was accepted by
  up, down,             \* what is on its way from and to the browser
  \* the servers
  handler,              \* where HandleConnectionAsync is, by socket
  connections,          \* ConnectionManager._connections of the player
  sessions,             \* the servers that have a session of the room
  isConnected,          \* PlayerSessionState.IsConnected
  grace,                \* tasks in their 15 seconds of grace
  eventSequence,        \* _eventSequence
  eventBuffer,          \* _eventBuffer
  sending,              \* an event that is logged and not yet sent
  logging,              \* remote events that are sent and not yet logged
  inbox,                \* published events not yet heard
  \* the room
  events,               \* events so far
  over

browser == <<ws, readyState, reconnectTimeout, isClosedIntentionally,
             lastSeenSequence, seen, view, refused, asked, synced>>
presence == <<connections, sessions, isConnected, grace>>
eventLog == <<eventSequence, eventBuffer, sending, logging, inbox>>
room == <<events, over>>
vars == <<browser, at, up, down, handler, presence, eventLog, room>>

Nothing == [seq |-> 0, event |-> 0]
Nowhere == "nowhere"
NoState == -1      \* the view of an answer without payload
Live == {"connecting", "open"}
Serving == {"registered", "receiving", "syncing", "answering"}

Init ==
  /\ ws = 0
  /\ readyState = [s \in Sockets |-> "none"]
  /\ reconnectTimeout = FALSE
  /\ isClosedIntentionally = FALSE
  /\ lastSeenSequence = 0
  /\ seen = {}
  /\ view = 0
  /\ refused = FALSE
  /\ asked = 0
  /\ synced = FALSE
  /\ at = [s \in Sockets |-> Nowhere]
  /\ up = [s \in Sockets |-> <<>>]
  /\ down = [s \in Sockets |-> <<>>]
  /\ handler = [s \in Sockets |-> "none"]
  /\ connections = [v \in Servers |-> 0]
  /\ \E home \in Servers : sessions = {home}
  /\ isConnected = [v \in Servers |-> FALSE]
  /\ grace = [v \in Servers |-> 0]
  /\ eventSequence = [v \in Servers |-> 0]
  /\ eventBuffer = [v \in Servers |-> <<>>]
  /\ sending = [v \in Servers |-> Nothing]
  /\ logging = [v \in Servers |-> {}]
  /\ inbox = [v \in Servers |-> {}]
  /\ events = 0
  /\ over = FALSE

-----------------------------------------------------------------------------
(* The browser. *)

(* connect *)
Connect ==
  /\ ws < MaxSockets
  /\ ws' = ws + 1
  /\ readyState' = [readyState EXCEPT ![ws + 1] = "connecting"]
  /\ reconnectTimeout' = FALSE
  /\ isClosedIntentionally' = FALSE
  /\ synced' = FALSE
  /\ UNCHANGED <<lastSeenSequence, seen, view, refused, asked>>
  /\ UNCHANGED <<at, up, down, handler, presence, eventLog, room>>

(* startMatchmaking, once findMatch has its match *)
StartGame == ws = 0 /\ Connect

Reconnect == reconnectTimeout /\ Connect

(* send: dropped unless the socket is open. *)
Send(s, message) ==
  IF readyState[s] = "open" THEN [up EXCEPT ![s] = Append(@, message)] ELSE up

(* onopen *)
OnOpen(s) ==
  /\ readyState[s] = "connecting"
  /\ handler[s] # "none"
  /\ readyState' = [readyState EXCEPT ![s] = "open"]
  /\ asked' = lastSeenSequence
  /\ up' = [up EXCEPT ![s] = Append(@,
       IF lastSeenSequence > 0 THEN [type |-> "reconnect_sync", after |-> lastSeenSequence]
       ELSE [type |-> "get_state", after |-> 0])]
  /\ UNCHANGED <<ws, reconnectTimeout, isClosedIntentionally, lastSeenSequence,
                 seen, view, refused, synced>>
  /\ UNCHANGED <<at, down, handler, presence, eventLog, room>>

AskForState(s) == Send(s, [type |-> "get_state", after |-> 0])

(* onmessage, handleMessage, handleGameEvent.  handleStateUpdate throws on  *)
(* an answer without a state: it is not shown, and not asked for again. *)
OnMessage(s) ==
  /\ readyState[s] = "open"
  /\ down[s] # <<>>
  /\ down' = [down EXCEPT ![s] = Tail(@)]
  /\ LET m == Head(down[s])
     IN  IF m.type = "game_event"
         THEN /\ lastSeenSequence' = Max({lastSeenSequence, m.seq})
              /\ seen' = seen \cup {m.event}
              /\ up' = AskForState(s)
              /\ UNCHANGED <<view, refused, synced>>
         ELSE /\ refused' = (m.view = NoState)
              /\ view' = IF m.view = NoState THEN view ELSE m.view
              /\ synced' = (synced \/ m.answers)
              /\ UNCHANGED <<lastSeenSequence, seen, up>>
  /\ UNCHANGED <<ws, readyState, reconnectTimeout, isClosedIntentionally, asked>>
  /\ UNCHANGED <<at, handler, presence, eventLog, room>>

(* Fault: the reconnection is started by onerror, the socket still there.  *)
OnErrorReconnect(s) ==
  /\ readyState[s] \in Live
  /\ reconnectTimeout' = ~ isClosedIntentionally
  /\ UNCHANGED <<ws, readyState, isClosedIntentionally, lastSeenSequence, seen,
                 view, refused, asked, synced>>
  /\ UNCHANGED <<at, up, down, handler, presence, eventLog, room>>

(* onclose: the connection is lost, or closed by the server, and what is   *)
(* on its way to the browser is lost with it. *)
OnClose(s) ==
  /\ readyState[s] \in Live
  /\ readyState' = [readyState EXCEPT ![s] = "closed"]
  /\ reconnectTimeout' = ~ isClosedIntentionally
  /\ down' = [down EXCEPT ![s] = <<>>]
  /\ UNCHANGED <<ws, isClosedIntentionally, lastSeenSequence, seen, view, refused,
                 asked, synced>>
  /\ UNCHANGED <<at, up, handler, presence, eventLog, room>>

(* disconnect.  A closing socket hands out no message any more, and its    *)
(* onclose starts no timer. *)
Disconnect ==
  /\ isClosedIntentionally' = TRUE
  /\ reconnectTimeout' = FALSE
  /\ readyState' = [s \in Sockets |->
       IF s = ws /\ readyState[s] \in Live THEN "closed" ELSE readyState[s]]
  /\ down' = [s \in Sockets |-> IF s = ws THEN <<>> ELSE down[s]]
  /\ UNCHANGED <<ws, lastSeenSequence, seen, view, refused, asked, synced>>
  /\ UNCHANGED <<at, up, handler, presence, eventLog, room>>

-----------------------------------------------------------------------------
(* A server. *)

(* AcceptWebSocketAsync, and AddConnection right after it. *)
Accept(s, v) ==
  /\ readyState[s] = "connecting"
  /\ handler[s] = "none"
  /\ PromptClose => \A t \in Sockets :
       at[t] = v => handler[t] \notin Serving \cup {"closing"}
  /\ at' = [at EXCEPT ![s] = v]
  /\ handler' = [handler EXCEPT ![s] = "registered"]
  /\ connections' = [connections EXCEPT ![v] = s]
  /\ UNCHANGED <<browser, up, down, sessions, isConnected, grace, eventLog, room>>

(* GetOrCreateSessionAsync and OnPlayerConnectedAsync.  A server that had  *)
(* no session makes one and hears events from now on. *)
Attach(s) ==
  /\ handler[s] = "registered"
  /\ handler' = [handler EXCEPT ![s] = "receiving"]
  /\ sessions' = sessions \cup {at[s]}
  /\ isConnected' = [isConnected EXCEPT ![at[s]] = TRUE]
  /\ UNCHANGED <<browser, at, up, down, connections, grace, eventLog, room>>

(* Or the room is gone, and the registration is left behind. *)
SessionNotFound(s) ==
  /\ handler[s] = "registered"
  /\ over
  /\ handler' = [handler EXCEPT ![s] = "done"]
  /\ UNCHANGED <<browser, at, up, down, presence, eventLog, room>>

(* OrderBy: by the numbers, equal ones as they were. *)
Insert(q, e) ==
  Filtered(q, LAMBDA x : x.seq <= e.seq) \o <<e>>
    \o Filtered(q, LAMBDA x : x.seq > e.seq)
InOrder(q) == FoldLeft(Insert, <<>>, q)

(* Fault: an event that follows the one seen last is skipped. *)
LaterThanNext(v, after) ==
  InOrder(Filtered(eventBuffer[v], LAMBDA e : e.seq > after + 1))

(* GetEventsAfter *)
GetEventsAfter(v, after) ==
  InOrder(Filtered(eventBuffer[v], LAMBDA e : e.seq > after))

GameEvent(e) == [type |-> "game_event", seq |-> e.seq, event |-> e.event,
                 view |-> 0, answers |-> FALSE]
StateUpdate(n, answers) == [type |-> "state_update", seq |-> 0, event |-> 0,
                            view |-> n, answers |-> answers]

(* What the server sends reaches a browser that has not closed the socket. *)
Sent(s, messages) ==
  IF readyState[s] \in Live THEN [down EXCEPT ![s] = @ \o messages] ELSE down

(* ReceiveLoopAsync, ProcessMessageAsync: a message is taken, the missed   *)
(* events are sent. *)
Process(s) ==
  /\ handler[s] = "receiving"
  /\ up[s] # <<>>
  /\ up' = [up EXCEPT ![s] = Tail(@)]
  /\ IF Head(up[s]).type = "reconnect_sync"
     THEN /\ handler' = [handler EXCEPT ![s] = "syncing"]
          /\ LET missed == GetEventsAfter(at[s], Head(up[s]).after)
             IN  down' = Sent(s, [i \in DOMAIN missed |-> GameEvent(missed[i])])
     ELSE /\ handler' = [handler EXCEPT ![s] = "answering"]
          /\ UNCHANGED down
  /\ UNCHANGED <<browser, at, presence, eventLog, room>>

(* The lock of the room is held while its events are sent. *)
RoomIsFree == \A v \in Servers : sending[v] = Nothing

(* HandleGetStateAsync, the end of HandleReconnectSyncAsync.  The question  *)
(* is refused when calls have kept the lock from it for 500 ms, those of   *)
(* the other player included: the answer has no state then. *)
SendState(s) ==
  /\ handler[s] \in {"syncing", "answering"}
  /\ \E n \in {NoState} \cup IF RoomIsFree THEN {events} ELSE {} :
       down' = Sent(s, <<StateUpdate(n, handler[s] = "syncing")>>)
  /\ handler' = [handler EXCEPT ![s] = "receiving"]
  /\ UNCHANGED <<browser, at, up, presence, eventLog, room>>

(* The loop ends when the server notices the end of the connection: the    *)
(* finally block with OnPlayerDisconnectedAsync and RemoveConnection, which *)
(* looks the player up and removes whatever socket he has by now. *)
Leave(s) ==
  /\ handler[s] \in {"receiving", "closing"}
  /\ readyState[s] = "closed"
  /\ handler' = [handler EXCEPT ![s] = "done"]
  /\ isConnected' = [isConnected EXCEPT ![at[s]] = FALSE]
  /\ grace' = [grace EXCEPT ![at[s]] = @ + 1]
  /\ connections' = [connections EXCEPT ![at[s]] = 0]
  /\ up' = [up EXCEPT ![s] = <<>>]
  /\ UNCHANGED <<browser, at, down, sessions, eventLog, room>>

(* CleanupStaleConnections, for the sockets that are not open. *)
CleanupStaleConnections(v) ==
  /\ connections[v] # 0
  /\ handler[connections[v]] \notin Serving
  /\ connections' = [connections EXCEPT ![v] = 0]
  /\ UNCHANGED <<browser, at, up, down, handler, sessions, isConnected, grace,
                 eventLog, room>>

(* CleanupRoomAsync, after the game.  The client takes the end of its      *)
(* socket for a lost connection. *)
CleanupRoom(v) ==
  /\ over
  /\ connections[v] # 0
  /\ handler[connections[v]] = "receiving"
  /\ handler' = [handler EXCEPT ![connections[v]] = "closing"]
  /\ connections' = [connections EXCEPT ![v] = 0]
  /\ UNCHANGED <<browser, at, up, down, sessions, isConnected, grace, eventLog, room>>

-----------------------------------------------------------------------------
(* The events. *)

(* CircularBuffer.Add: the oldest item makes room for the newest. *)
Add(buffer, e) ==
  Append(IF Len(buffer) = Capacity THEN Tail(buffer) ELSE buffer, e)

(* PublishAndBroadcastEventsAsync numbers and logs an event. *)
LogEvent(v) ==
  LET e == [seq |-> eventSequence[v] + 1, event |-> events + 1]
  IN  /\ v \in sessions
      /\ events < MaxEvents
      /\ RoomIsFree
      /\ events' = events + 1
      /\ eventSequence' = [eventSequence EXCEPT ![v] = @ + 1]
      /\ eventBuffer' = [eventBuffer EXCEPT ![v] = Add(@, e)]
      /\ sending' = [sending EXCEPT ![v] = e]
      /\ UNCHANGED <<browser, at, up, down, handler, connections, sessions,
                     isConnected, logging, inbox>>

(* A round ends at server v. *)
EndRound(v) ==
  /\ ~ over
  /\ LogEvent(v)
  /\ UNCHANGED <<grace, over>>

(* The end of the 15 seconds of OnPlayerDisconnectedAsync. *)
Grace(v) ==
  /\ grace[v] > 0
  /\ grace' = [grace EXCEPT ![v] = @ - 1]
  /\ IF isConnected[v] \/ over
     THEN UNCHANGED <<browser, at, up, down, handler, connections, sessions,
                      isConnected, eventLog, room>>
     ELSE LogEvent(v) /\ over' = TRUE

(* ConnectionManager.BroadcastToRoomAsync, to this player's socket. *)
ToPlayer(v, e) ==
  LET s == connections[v]
  IN  IF s # 0 /\ handler[s] \in Serving THEN Sent(s, <<GameEvent(e)>>) ELSE down

(* BroadcastSingleEventAsync: to the own client, then to other servers. *)
Broadcast(v) ==
  /\ sending[v] # Nothing
  /\ down' = ToPlayer(v, sending[v])
  /\ inbox' = [u \in Servers |->
       IF u # v /\ u \in sessions THEN inbox[u] \cup {sending[v]} ELSE inbox[u]]
  /\ sending' = [sending EXCEPT ![v] = Nothing]
  /\ UNCHANGED <<browser, at, up, handler, presence, eventSequence, eventBuffer,
                 logging, room>>

(* HandleRemoteEventAsync sends an event first ... *)
Hear(v, e) ==
  /\ e \in inbox[v]
  /\ inbox' = [inbox EXCEPT ![v] = @ \ {e}]
  /\ down' = ToPlayer(v, e)
  /\ logging' = [logging EXCEPT ![v] = @ \cup {e}]
  /\ UNCHANGED <<browser, at, up, handler, presence, eventSequence, eventBuffer,
                 sending, room>>

(* ... and logs it then, with the number its sender gave it. *)
LogRemote(v, e) ==
  /\ e \in logging[v]
  /\ logging' = [logging EXCEPT ![v] = @ \ {e}]
  /\ eventBuffer' = [eventBuffer EXCEPT ![v] = Add(@, e)]
  /\ UNCHANGED <<browser, at, up, down, handler, presence, eventSequence,
                 sending, inbox, room>>

-----------------------------------------------------------------------------
Next ==
  \/ StartGame
  \/ Reconnect
  \/ Disconnect
  \/ \E s \in Sockets :
       OnOpen(s) \/ OnMessage(s) \/ OnClose(s) \/ Attach(s)
         \/ SessionNotFound(s) \/ Process(s) \/ SendState(s) \/ Leave(s)
  \/ \E v \in Servers :
       \/ \E s \in Sockets : Accept(s, v)
       \/ CleanupStaleConnections(v) \/ CleanupRoom(v)
       \/ EndRound(v) \/ Grace(v) \/ Broadcast(v)
       \/ \E e \in inbox[v] : Hear(v, e)
       \/ \E e \in logging[v] : LogRemote(v, e)

Spec == Init /\ [][Next]_vars

(* What has begun goes on: timers fire, connections are accepted, messages *)
(* arrive and are answered, the end of a connection is noticed.  Nothing   *)
(* is assumed to begin, to break or to be closed. *)
Fairness ==
  /\ WF_vars(Reconnect)
  /\ \A s \in Sockets :
       /\ WF_vars(OnOpen(s)) /\ WF_vars(OnMessage(s)) /\ WF_vars(Attach(s))
       /\ WF_vars(\E v \in Servers : Accept(s, v))
       /\ WF_vars(Process(s)) /\ WF_vars(SendState(s)) /\ WF_vars(Leave(s))
       /\ WF_vars(OnClose(s) /\ handler[s] \in {"closing", "done"})
  /\ \A v \in Servers :
       /\ WF_vars(Broadcast(v))
       /\ WF_vars(\E e \in inbox[v] : Hear(v, e))
       /\ WF_vars(\E e \in logging[v] : LogRemote(v, e))

FairSpec == Spec /\ Fairness

-----------------------------------------------------------------------------
(* The browser has one socket or one timer for the next one, never two of  *)
(* them: connections that break while they are being replaced do not       *)
(* multiply, and one that was closed on purpose is not opened again. *)
OneLink ==
  /\ \A s, t \in Sockets :
       readyState[s] \in Live /\ readyState[t] \in Live => s = t
  /\ reconnectTimeout \/ isClosedIntentionally =>
       \A s \in Sockets : readyState[s] \notin Live
  /\ isClosedIntentionally => ~ reconnectTimeout

(* Once a socket has had the answer to its reconnect_sync, with a state or *)
(* without, the browser has no gap after the number it asked with, as long *)
(* as one server numbers all events and notices the end of a connection    *)
(* before the next one comes (PromptClose): what was logged before the     *)
(* answer came with it, what was logged later came later; only what was    *)
(* overwritten is missing. *)
NoGapSinceAsked ==
  LET v == at[ws]
  IN  ws > 0 /\ synced /\ eventSequence[v] = events =>
        \A e \in asked + 1 .. view :
          e \in seen \/ e + Capacity <= events

(* A browser that has a connection, or can open another one, learns the    *)
(* state of the room, whatever it has missed.  It stays behind for good    *)
(* only if the server refused the last question it asked. *)
Behind ==
  /\ view # events
  /\ ws # 0 /\ ~ isClosedIntentionally /\ ~ over
  /\ ~ (ws = MaxSockets /\ readyState[ws] = "closed")


(* redis.md: whichever server the player reconnects to, its own buffer     *)
(* recovers the events without loss. *)
NothingMissed ==
  ws > 0 /\ synced => \A e \in 1..view : e \in seen \/ e + Capacity <= events
=============================================================================
