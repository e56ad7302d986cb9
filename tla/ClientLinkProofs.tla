-------------------------- MODULE ClientLinkProofs --------------------------
(***************************************************************************)
(* Proofs about ClientLink for any number of servers, sockets and events   *)
(* and any capacity of the buffer.                                         *)
(***************************************************************************)
EXTENDS ClientLink, OperatorLemmas

(* The browser holds on to its newest socket only. *)
BrowserTypes ==
  /\ ws \in 0..MaxSockets
  /\ readyState \in [Sockets -> {"none", "connecting", "open", "closed"}]
  /\ reconnectTimeout \in BOOLEAN
  /\ isClosedIntentionally \in BOOLEAN

OnlyNewestIsLive == \A s \in Sockets : readyState[s] \in Live => s = ws

LinkInv == BrowserTypes /\ OnlyNewestIsLive /\ OneLink

-----------------------------------------------------------------------------
(* A new socket is opened when there is none that lives. *)
LEMMA ConnectKeepsLink ==
  ASSUME LinkInv, Connect, \A s \in Sockets : readyState[s] \notin Live
  PROVE  LinkInv'
<1>1. ws + 1 \in Sockets
  BY LinkBounds DEF LinkInv, BrowserTypes, Connect, Sockets
<1>2. BrowserTypes'
  <2>1. ws' \in 0..MaxSockets
    BY LinkBounds DEF LinkInv, BrowserTypes, Connect
  <2>. QED
    BY <1>1, <2>1 DEF LinkInv, BrowserTypes, Connect
<1>3. \A s \in Sockets : readyState'[s] \in Live => s = ws'
  BY <1>1 DEF LinkInv, BrowserTypes, Connect
<1>4. ~ reconnectTimeout' /\ ~ isClosedIntentionally'
  BY DEF Connect
<1>. QED
  BY <1>2, <1>3, <1>4 DEF LinkInv, OnlyNewestIsLive, OneLink

(* No step of the browser gives it two sockets, or a timer and a socket. *)
LEMMA BrowserKeepsLink ==
  ASSUME LinkInv,
         \/ StartGame \/ Reconnect \/ Disconnect
         \/ \E s \in Sockets : OnOpen(s) \/ OnMessage(s) \/ OnClose(s)
  PROVE  LinkInv'
<1>. USE DEF LinkInv
<1>1. CASE StartGame
  <2>1. \A s \in Sockets : readyState[s] \notin Live
    BY <1>1 DEF StartGame, OnlyNewestIsLive, Sockets
  <2>. QED  BY <1>1, <2>1, ConnectKeepsLink DEF StartGame
<1>2. CASE Reconnect
  BY <1>2, ConnectKeepsLink DEF Reconnect, OneLink
<1>3. CASE Disconnect
  <2>1. BrowserTypes'
    BY <1>3 DEF Disconnect, BrowserTypes
  <2>2. \A s \in Sockets : readyState'[s] \notin Live
    BY <1>3 DEF Disconnect, BrowserTypes, OnlyNewestIsLive, Live
  <2>. QED
    BY <1>3, <2>1, <2>2 DEF Disconnect, OnlyNewestIsLive, OneLink
<1>4. ASSUME NEW s \in Sockets, OnOpen(s) PROVE LinkInv'
  <2>1. BrowserTypes'
    BY <1>4 DEF OnOpen, BrowserTypes
  <2>2. \A t \in Sockets : readyState'[t] \in Live => readyState[t] \in Live
    BY <1>4 DEF OnOpen, BrowserTypes, Live
  <2>3. UNCHANGED <<ws, reconnectTimeout, isClosedIntentionally>>
    BY <1>4 DEF OnOpen
  <2>. QED
    BY <2>1, <2>2, <2>3 DEF OnlyNewestIsLive, OneLink
<1>5. ASSUME NEW s \in Sockets, OnMessage(s) PROVE LinkInv'
  <2>. UNCHANGED <<ws, readyState, reconnectTimeout, isClosedIntentionally>>
    BY <1>5 DEF OnMessage
  <2>. QED
    BY DEF BrowserTypes, OnlyNewestIsLive, OneLink
<1>6. ASSUME NEW s \in Sockets, OnClose(s) PROVE LinkInv'
  <2>1. BrowserTypes'
    BY <1>6 DEF OnClose, BrowserTypes
  <2>2. s = ws /\ ~ isClosedIntentionally
    BY <1>6 DEF OnClose, OnlyNewestIsLive, OneLink
  <2>3. \A t \in Sockets : readyState'[t] \notin Live
    BY <1>6, <2>2 DEF OnClose, BrowserTypes, OnlyNewestIsLive, Live
  <2>. QED
    BY <1>6, <2>1, <2>2, <2>3 DEF OnClose, OnlyNewestIsLive, OneLink
<1>. QED
  BY <1>1, <1>2, <1>3, <1>4, <1>5, <1>6

(* Nor does a step of a server, which leaves the browser alone. *)
LEMMA ServersLeaveBrowser ==
  ASSUME \/ \E s \in Sockets :
              \/ Attach(s) \/ SessionNotFound(s)
              \/ Process(s) \/ SendState(s) \/ Leave(s)
         \/ \E v \in Servers :
              \/ \E s \in Sockets : Accept(s, v)
              \/ CleanupStaleConnections(v) \/ CleanupRoom(v)
              \/ EndRound(v) \/ Grace(v) \/ Broadcast(v)
              \/ \E e \in inbox[v] : Hear(v, e)
              \/ \E e \in logging[v] : LogRemote(v, e)
  PROVE  UNCHANGED browser
BY Zenon DEF Attach, SessionNotFound, Process, SendState, Leave, Accept,
   CleanupStaleConnections, CleanupRoom, EndRound, Grace, LogEvent, Broadcast,
   Hear, LogRemote

(* It is an invariant. *)
LEMMA LinkHolds == Spec => []LinkInv
<1>1. ASSUME Init PROVE LinkInv
  <2>1. BrowserTypes
    <3>1. ws \in 0..MaxSockets
      BY <1>1, LinkBounds DEF Init
    <3>2. readyState \in [Sockets -> {"none", "connecting", "open", "closed"}]
      BY <1>1 DEF Init
    <3>. QED
      BY <1>1, <3>1, <3>2 DEF Init, BrowserTypes
  <2>2. \A s \in Sockets : readyState[s] \notin Live
    BY <1>1 DEF Init, Live
  <2>. QED
    BY <1>1, <2>1, <2>2 DEF Init, LinkInv, OnlyNewestIsLive, OneLink
<1>2. ASSUME LinkInv, [Next]_vars PROVE LinkInv'
  <2>1. CASE UNCHANGED browser
    BY <1>2, <2>1 DEF LinkInv, BrowserTypes, OnlyNewestIsLive, OneLink, browser
  <2>2. CASE UNCHANGED vars
    BY <2>1, <2>2 DEF vars
  <2>3. CASE Next
    BY <1>2, <2>1, <2>3, BrowserKeepsLink, ServersLeaveBrowser DEF Next
  <2>. QED
    BY <1>2, <2>2, <2>3
<1>. QED
  BY <1>1, <1>2, PTL DEF Spec

(* The connections of a browser do not multiply, on whichever servers, and *)
(* however often, they break (OneLink, gameClient.js:67-118). *)
THEOREM ClientHasOneLink == Spec => []OneLink
<1>1. LinkInv => OneLink
  BY DEF LinkInv
<1>. QED
  BY <1>1, LinkHolds, PTL

-----------------------------------------------------------------------------
(* The handlers of a server that hold a socket whose end is not noticed.   *)
Held == Serving \cup {"closing"}

ServerTypes ==
  /\ handler \in [Sockets -> Held \cup {"none", "done"}]
  /\ connections \in [Servers -> 0..MaxSockets]
  /\ isConnected \in [Servers -> BOOLEAN]
  /\ at \in [Sockets -> Servers \cup {Nowhere}]
  /\ \A s \in Sockets : handler[s] # "none" => at[s] \in Servers

OneHeldAtAServer ==
  \A s, t \in Sockets :
    handler[s] \in Held /\ handler[t] \in Held /\ at[s] = at[t] => s = t

ServedIsRegistered ==
  \A s \in Sockets : handler[s] \in Serving => connections[at[s]] = s

ServedIsConnected ==
  \A s \in Sockets :
    handler[s] \in Serving \ {"registered"} => isConnected[at[s]]

HeardInv ==
  ServerTypes /\ OneHeldAtAServer /\ ServedIsRegistered /\ ServedIsConnected

(* A socket is accepted where no other one is held. *)
LEMMA AcceptKeepsHeard ==
  ASSUME PromptClose, HeardInv,
         NEW s \in Sockets, NEW v \in Servers, Accept(s, v)
  PROVE  HeardInv'
<1>. USE DEF HeardInv, Held, Serving
<1>1. \A t \in Sockets :
        /\ t # s => handler'[t] = handler[t] /\ at'[t] = at[t]
        /\ t = s => handler'[t] = "registered" /\ at'[t] = v
  BY DEF ServerTypes, Accept
<1>2. \A t \in Sockets : t # s /\ at[t] = v => handler[t] \notin Held
  BY DEF Accept
<1>3. /\ connections'[v] = s /\ isConnected' = isConnected
      /\ \A u \in Servers \ {v} : connections'[u] = connections[u]
  BY DEF ServerTypes, Accept
<1>4. ServerTypes'
  <2>1. connections' \in [Servers -> 0..MaxSockets]
    BY DEF ServerTypes, Accept, Sockets
  <2>2. handler' \in [Sockets -> Held \cup {"none", "done"}]
    BY DEF ServerTypes, Accept
  <2>3. at' \in [Sockets -> Servers \cup {Nowhere}]
    BY DEF ServerTypes, Accept
  <2>. QED
    BY <1>1, <1>3, <2>1, <2>2, <2>3 DEF ServerTypes
<1>5. OneHeldAtAServer'
  BY <1>1, <1>2 DEF OneHeldAtAServer
<1>6. ServedIsRegistered'
  <2>. SUFFICES ASSUME NEW t \in Sockets, handler'[t] \in Serving
                PROVE  connections'[at'[t]] = t
    BY DEF ServedIsRegistered
  <2>1. CASE t = s
    BY <1>1, <1>3, <2>1
  <2>2. CASE t # s
    BY <1>1, <1>2, <1>3, <2>2 DEF ServedIsRegistered, ServerTypes
  <2>. QED
    BY <2>1, <2>2
<1>7. ServedIsConnected'
  BY <1>1, <1>3 DEF ServedIsConnected
<1>. QED
  BY <1>4, <1>5, <1>6, <1>7

(* A handler that goes on or ends, of which the others at its server know  *)
(* nothing, because there are none. *)
LEMMA HandlerKeepsHeard ==
  ASSUME HeardInv, NEW s \in Sockets,
         \/ Attach(s) \/ SessionNotFound(s) \/ Process(s) \/ SendState(s)
         \/ Leave(s)
  PROVE  HeardInv'
<1>. USE DEF HeardInv, Held, Serving
<1>1. at' = at /\ at[s] \in Servers
  BY DEF ServerTypes, Attach, SessionNotFound, Process, SendState, Leave
<1>2. /\ handler[s] \in Held
      /\ handler' \in [Sockets -> Held \cup {"none", "done"}]
      /\ \A t \in Sockets \ {s} : handler'[t] = handler[t]
  BY DEF ServerTypes, Attach, SessionNotFound, Process, SendState, Leave
<1>3. OneHeldAtAServer'
  BY <1>1, <1>2 DEF OneHeldAtAServer
<1>4. CASE Leave(s)
  <2>1. /\ handler'[s] = "done"
        /\ connections' \in [Servers -> 0..MaxSockets]
        /\ isConnected' \in [Servers -> BOOLEAN]
        /\ \A u \in Servers \ {at[s]} : /\ connections'[u] = connections[u]
                                        /\ isConnected'[u] = isConnected[u]
    BY <1>1, <1>4, LinkBounds DEF ServerTypes, Leave
  <2>2. \A t \in Sockets :
          handler'[t] \in Held => t # s /\ at[t] # at[s] /\ handler'[t] = handler[t]
    BY <1>2, <2>1 DEF OneHeldAtAServer
  <2>3. \A t \in Sockets : handler'[t] \in Held => at[t] \in Servers
    BY <2>2 DEF ServerTypes
  <2>4. ServerTypes'
    BY <1>1, <1>2, <2>1 DEF ServerTypes
  <2>5. ServedIsRegistered' /\ ServedIsConnected'
    BY <1>1, <2>1, <2>2, <2>3 DEF ServedIsRegistered, ServedIsConnected
  <2>. QED
    BY <1>3, <2>4, <2>5
<1>5. CASE Attach(s)
  <2>1. /\ handler[s] = "registered" /\ handler'[s] = "receiving"
        /\ connections' = connections
        /\ isConnected' \in [Servers -> BOOLEAN] /\ isConnected'[at[s]]
        /\ \A u \in Servers : isConnected[u] => isConnected'[u]
    BY <1>1, <1>5 DEF ServerTypes, Attach, presence
  <2>2. ServerTypes'
    BY <1>1, <1>2, <2>1 DEF ServerTypes
  <2>3. ServedIsRegistered'
    BY <1>1, <1>2, <2>1 DEF ServedIsRegistered
  <2>4. ServedIsConnected'
    BY <1>1, <1>2, <2>1 DEF ServedIsConnected, ServerTypes
  <2>. QED
    BY <1>3, <2>2, <2>3, <2>4
<1>6. CASE SessionNotFound(s) \/ Process(s) \/ SendState(s)
  <2>1. UNCHANGED <<connections, isConnected>>
    BY <1>6 DEF SessionNotFound, Process, SendState, presence
  <2>2. handler'[s] \in Serving \ {"registered"}
          => handler[s] \in Serving \ {"registered"}
    BY <1>6 DEF ServerTypes, SessionNotFound, Process, SendState
  <2>3. handler'[s] \in Serving => handler[s] \in Serving
    BY <1>6 DEF ServerTypes, SessionNotFound, Process, SendState
  <2>4. ServerTypes'
    BY <1>1, <1>2, <2>1 DEF ServerTypes
  <2>5. ServedIsRegistered' /\ ServedIsConnected'
    BY <1>1, <1>2, <2>1, <2>2, <2>3 DEF ServedIsRegistered, ServedIsConnected
  <2>. QED
    BY <1>3, <2>4, <2>5
<1>. QED
  BY <1>4, <1>5, <1>6

(* Only the registration of a socket that is not served is cleaned up, and *)
(* after the game that of a socket that is closed. *)
LEMMA CleanupKeepsHeard ==
  ASSUME HeardInv, NEW v \in Servers,
         CleanupStaleConnections(v) \/ CleanupRoom(v)
  PROVE  HeardInv'
<1>. USE DEF HeardInv, Held, Serving
<1>1. /\ at' = at /\ isConnected' = isConnected
      /\ connections' \in [Servers -> 0..MaxSockets]
      /\ \A u \in Servers \ {v} : connections'[u] = connections[u]
  BY LinkBounds DEF ServerTypes, CleanupStaleConnections, CleanupRoom
<1>2. connections[v] \in Sockets
  BY DEF ServerTypes, CleanupStaleConnections, CleanupRoom, Sockets
<1>3. CASE CleanupStaleConnections(v)
  <2>1. handler' = handler /\ handler[connections[v]] \notin Serving
    BY <1>3 DEF CleanupStaleConnections
  <2>2. \A s \in Sockets : handler[s] \in Serving => at[s] # v
    BY <2>1 DEF ServedIsRegistered
  <2>3. \A s \in Sockets :
          handler[s] \in Serving => connections'[at[s]] = connections[at[s]]
    BY <1>1, <2>2 DEF ServerTypes
  <2>4. ServerTypes'
    BY <1>1, <2>1 DEF ServerTypes
  <2>5. OneHeldAtAServer' /\ ServedIsConnected'
    BY <1>1, <2>1 DEF OneHeldAtAServer, ServedIsConnected
  <2>6. ServedIsRegistered'
    BY <1>1, <2>1, <2>3 DEF ServedIsRegistered
  <2>. QED
    BY <2>4, <2>5, <2>6
<1>4. CASE CleanupRoom(v)
  <2>. DEFINE c == connections[v]
  <2>1. /\ handler[c] = "receiving" /\ handler'[c] = "closing"
        /\ handler' \in [Sockets -> Held \cup {"none", "done"}]
        /\ \A s \in Sockets \ {c} : handler'[s] = handler[s]
    BY <1>2, <1>4 DEF ServerTypes, CleanupRoom
  <2>2. \A s \in Sockets : handler'[s] \in Serving => at[s] # v /\ s # c
    BY <1>2, <2>1 DEF ServedIsRegistered
  <2>3. \A s \in Sockets :
          handler'[s] \in Serving => connections'[at[s]] = connections[at[s]]
    BY <1>1, <2>1, <2>2 DEF ServerTypes
  <2>4. ServerTypes'
    BY <1>1, <1>2, <2>1 DEF ServerTypes
  <2>5. OneHeldAtAServer' /\ ServedIsConnected'
    BY <1>1, <1>2, <2>1 DEF OneHeldAtAServer, ServedIsConnected
  <2>6. ServedIsRegistered'
    BY <1>1, <2>1, <2>2, <2>3 DEF ServedIsRegistered
  <2>. QED
    BY <2>4, <2>5, <2>6
<1>. QED
  BY <1>3, <1>4

(* All other steps leave the registrations as they are. *)
LEMMA OthersLeavePresence ==
  ASSUME \/ StartGame \/ Reconnect \/ Disconnect
         \/ \E s \in Sockets : OnOpen(s) \/ OnMessage(s) \/ OnClose(s)
         \/ \E v \in Servers :
              \/ EndRound(v) \/ Grace(v) \/ Broadcast(v)
              \/ \E e \in inbox[v] : Hear(v, e)
              \/ \E e \in logging[v] : LogRemote(v, e)
  PROVE  UNCHANGED <<at, handler, connections, isConnected>>
BY Zenon DEF StartGame, Reconnect, Connect, Disconnect, OnOpen, OnMessage,
   OnClose, EndRound, Grace, LogEvent, Broadcast, Hear, LogRemote, presence

(* It is an invariant, when the end of a connection is noticed in time. *)
LEMMA HeardHolds ==
  ASSUME PromptClose
  PROVE  Spec => []HeardInv
<1>1. ASSUME Init PROVE HeardInv
  <2>1. ServerTypes
    BY <1>1, LinkBounds DEF Init, ServerTypes, Held, Serving
  <2>. QED
    BY <1>1, <2>1 DEF Init, HeardInv, OneHeldAtAServer, ServedIsRegistered,
       ServedIsConnected, Held, Serving
<1>2. ASSUME HeardInv, [Next]_vars PROVE HeardInv'
  <2>1. CASE UNCHANGED <<at, handler, connections, isConnected>>
    BY <1>2, <2>1 DEF HeardInv, ServerTypes, OneHeldAtAServer,
       ServedIsRegistered, ServedIsConnected
  <2>2. CASE UNCHANGED vars
    BY <2>1, <2>2 DEF vars, presence
  <2>3. CASE Next
    BY <1>2, <2>1, <2>3, AcceptKeepsHeard, HandlerKeepsHeard,
       CleanupKeepsHeard, OthersLeavePresence DEF Next
  <2>. QED
    BY <1>2, <2>2, <2>3
<1>. QED
  BY <1>1, <1>2, PTL DEF Spec

-----------------------------------------------------------------------------
(* What is said on the sockets, and logged. *)
Events == [seq : Nat, event : Nat]
Requests == [type : {"reconnect_sync", "get_state"}, after : Nat]
Replies == [type : {"game_event", "state_update"}, seq : Nat, event : Nat,
            view : Nat \cup {NoState}, answers : BOOLEAN]

TalkTypes ==
  /\ up \in [Sockets -> Seq(Requests)]
  /\ down \in [Sockets -> Seq(Replies)]
  /\ seen \in SUBSET Nat
  /\ view \in Nat
  /\ asked \in Nat
  /\ lastSeenSequence \in Nat
  /\ synced \in BOOLEAN

LogTypes ==
  /\ events \in Nat
  /\ eventSequence \in [Servers -> Nat]
  /\ eventBuffer \in [Servers -> Seq(Events)]
  /\ sending \in [Servers -> Events]
  /\ logging \in [Servers -> SUBSET Events]
  /\ inbox \in [Servers -> SUBSET Events]

(* The last n events, numbered as they came, or as many of them as fit. *)
IsLog(b, n) ==
  /\ Len(b) <= n
  /\ Len(b) = Capacity \/ (Len(b) = n /\ n < Capacity)
  /\ \A k \in 1..Len(b) :
       b[k] = [seq |-> n - Len(b) + k, event |-> n - Len(b) + k]

(* As long as one server numbers all events it has nothing to hear of      *)
(* others, and its log is complete. *)
NumberingInv ==
  \A v \in Servers :
    /\ eventSequence[v] <= events
    /\ sending[v] # Nothing => sending[v].event = events
    /\ eventSequence[v] = events =>
         /\ inbox[v] = {} /\ logging[v] = {}
         /\ \A u \in Servers \ {v} : sending[u] = Nothing
         /\ IsLog(eventBuffer[v], events)

(* What may be on its way to a socket that is not open yet. *)
NewsOnly(d) == \A m \in Range(d) : m.type = "game_event" /\ ~ m.answers

(* A socket asks nothing before it is open, and no answer is on its way.   *)
FreshSocket(s) ==
  /\ s > ws => readyState[s] = "none"
  /\ handler[s] = "none" => down[s] = <<>>
  /\ readyState[s] = "none" => handler[s] = "none"
  /\ readyState[s] = "open" => handler[s] # "none"
  /\ readyState[s] \in {"none", "connecting"} =>
       /\ up[s] = <<>>
       /\ handler[s] \notin {"syncing", "answering"}
       /\ NewsOnly(down[s])

(* The newest one asks for what came after the number it opened with. *)
AskedInv ==
  /\ synced => /\ ws \in Sockets
               /\ handler[ws] # "none"
               /\ readyState[ws] \in {"open", "closed"}
  /\ ws \in Sockets =>
       \A m \in Range(up[ws]) : m.type = "reconnect_sync" => m.after = asked

FreshInv == (\A s \in Sockets : FreshSocket(s)) /\ AskedInv

(* The events that the first k messages of d tell of, and whether one of   *)
(* them is the answer. *)
ToldBy(d, k) == {d[j].event : j \in {i \in 1..k : d[i].type = "game_event"}}
Answers(d, k) == \E j \in 1..k : d[j].answers

(* The states that are shown, or told of by the first k messages. *)
ShownBy(d, k, shown) == {shown} \cup {d[j].view : j \in 1..k}

(* From the answer on, even one without a state, the states that are shown *)
(* come after the events they know of. *)
Orderly(d, known, answered, after, shown) ==
  \A k \in 1..Len(d) :
    d[k].type = "state_update" /\ (answered \/ Answers(d, k)) =>
      \A n \in ShownBy(d, k, shown) :
        after + 1 .. n \subseteq known \cup ToldBy(d, k - 1)

(* The events that are seen, or too old. *)
Known == {e \in Nat : e \in seen \/ e + Capacity <= events}

QueueInv == Orderly(down[ws], Known, synced, asked, view)

(* While the socket is served, all events are told, or are being sent.     *)
StreamInv ==
  LET d == down[ws]
  IN  /\ readyState[ws] \in Live
      /\ handler[ws] \in Serving
      /\ synced \/ Answers(d, Len(d)) \/ handler[ws] = "syncing"
      => asked + 1 .. events \subseteq
           Known \cup ToldBy(d, Len(d)) \cup {sending[at[ws]].event}

ViewInv == synced => asked + 1 .. view \subseteq Known

StoryInv ==
  ws \in Sockets /\ at[ws] \in Servers /\ eventSequence[at[ws]] = events =>
    QueueInv /\ StreamInv /\ ViewInv

GapInv == TalkTypes /\ LogTypes /\ NumberingInv /\ FreshInv /\ StoryInv

(* A state is read when no event is being sent, so no state that is shown, *)
(* or on its way, knows of one that is. *)
Settled == IF RoomIsFree THEN events ELSE events - 1

ViewsWithin(d, n) == \A m \in Range(d) : m.view <= n

SettledInv ==
  view <= Settled /\ \A s \in Sockets : ViewsWithin(down[s], Settled)

-----------------------------------------------------------------------------
(* The events of a log that pass a test. *)
LEMMA FilteredEvents ==
  ASSUME NEW q \in Seq(Events), NEW K \in SUBSET (1..Len(q))
  PROVE  /\ Picked(q, K) \in Seq(Events)
         /\ Range(Picked(q, K)) = {q[k] : k \in K}
<1>1. /\ Picked(q, K) \in Seq(Events)
      /\ \A j \in 1..Len(Picked(q, K)) : \E k \in K : Picked(q, K)[j] = q[k]
      /\ \A k \in K : \E j \in 1..Len(Picked(q, K)) : Picked(q, K)[j] = q[k]
  BY PickedElements
<1>2. PICK p \in Seq(Events) : p = Picked(q, K)
  BY <1>1
<1>3. Range(p) = {p[j] : j \in 1..Len(p)}
  BY RangeEquality
<1>4. /\ \A j \in 1..Len(p) : \E k \in K : p[j] = q[k]
      /\ \A k \in K : \E j \in 1..Len(p) : p[j] = q[k]
  BY <1>1, <1>2
<1>5. ASSUME NEW e PROVE e \in Range(p) <=> e \in {q[k] : k \in K}
  <2>1. e \in Range(p) <=> \E j \in 1..Len(p) : p[j] = e
    BY <1>3, Zenon
  <2>2. e \in {q[k] : k \in K} <=> \E k \in K : q[k] = e
    BY Zenon
  <2>. QED  BY <1>4, <2>1, <2>2, Zenon
<1>. QED  BY <1>1, <1>2, <1>5

(* To insert an event adds it. *)
LEMMA InsertFacts ==
  ASSUME NEW q \in Seq(Events), NEW e \in Events
  PROVE  Insert(q, e) \in Seq(Events) /\ Range(Insert(q, e)) = Range(q) \cup {e}
<1> DEFINE low == {i \in 1..Len(q) : q[i].seq <= e.seq}
           high == {i \in 1..Len(q) : q[i].seq > e.seq}
           before == Picked(q, low)
           after == Picked(q, high)
<1>1. /\ before \in Seq(Events) /\ Range(before) = {q[k] : k \in low}
      /\ after \in Seq(Events) /\ Range(after) = {q[k] : k \in high}
  BY FilteredEvents
<1>2. Insert(q, e) = before \o <<e>> \o after
  BY DEF Insert, Filtered
<1>3. low \cup high = 1..Len(q)
  <2>1. \A i \in 1..Len(q) : q[i] \in Events
    BY ElementOfSeq, LenProperties
  <2>. QED  BY <2>1 DEF Events
<1>4. Range(q) = {q[k] : k \in 1..Len(q)}
  BY RangeEquality
<1> HIDE DEF before, after, low, high
<1> DEFINE one == <<e>>
<1>5. one \in Seq(Events) /\ Range(one) = {e}
  <2>1. DOMAIN <<e>> = {1} /\ <<e>>[1] = e /\ <<e>> \in Seq(Events)
    OBVIOUS
  <2>. QED  BY <2>1 DEF Range
<1> HIDE DEF one
<1> DEFINE upto == before \o one
<1>6. upto \in Seq(Events) /\ Range(upto) = Range(before) \cup {e}
  <2>1. upto \in Seq(Events)
    BY <1>1, <1>5, ConcatProperties
  <2>2. Range(upto) = Range(before) \cup Range(one)
    BY <1>1, <1>5, RangeConcatenation
  <2>. QED  BY <1>5, <2>1, <2>2
<1> HIDE DEF upto
<1>7. upto \o after \in Seq(Events)
      /\ Range(upto \o after) = Range(upto) \cup Range(after)
  <2>1. upto \o after \in Seq(Events)
    BY <1>1, <1>6, ConcatProperties
  <2>2. Range(upto \o after) = Range(upto) \cup Range(after)
    BY SMTT(60), <1>1, <1>6, RangeConcatenation
  <2>. QED  BY <2>1, <2>2
<1>8. {q[k] : k \in low} \cup {q[k] : k \in high} = {q[k] : k \in 1..Len(q)}
  BY <1>3
<1>9. Insert(q, e) = upto \o after
  BY <1>2 DEF upto, one
<1>. QED  BY <1>1, <1>4, <1>6, <1>7, <1>8, <1>9

(* Putting events in order neither loses nor adds one. *)
LEMMA InOrderFacts ==
  ASSUME NEW q \in Seq(Events)
  PROVE  InOrder(q) \in Seq(Events) /\ Range(InOrder(q)) = Range(q)
<1> DEFINE Op(v, e) == Insert(v, e)
           Body(f) == [K \in SUBSET (DOMAIN q) |->
                         IF K = {} THEN <<>> ELSE Op(f[K \ {Max(K)}], q[Max(K)])]
           h == CHOOSE f : f = Body(f)
<1>0. PICK n \in Nat : n = Len(q)
  BY LenProperties
<1>1. DOMAIN q = 1..n /\ \A i \in 1..n : q[i] \in Events
  BY <1>0, LenProperties, ElementOfSeq
<1>2. PICK none \in Seq(Events) : none = <<>> /\ Range(none) = {}
  <2>1. <<>> \in Seq(Events) /\ Range(<<>>) = {}
    BY EmptySeq DEF Range
  <2>. QED  BY <2>1
<1>3. InOrder(q) = h[DOMAIN q]
  BY Zenon DEF InOrder, FoldLeft, MapThenFoldSet
<1> HIDE DEF Op
<1>4. ASSUME NEW v \in Seq(Events), NEW e \in Events
      PROVE  Op(v, e) \in Seq(Events) /\ Range(Op(v, e)) = Range(v) \cup {e}
  BY InsertFacts DEF Op
<1>5. h = Body(h)
  <2> DEFINE Step == [i \in 1..n |-> [v \in Seq(Events) |-> Op(v, q[i])]]
  <2>1. Step \in [1..n -> [Seq(Events) -> Seq(Events)]]
    BY <1>1, <1>4
  <2>2. PICK g \in [SUBSET (1..n) -> Seq(Events)] : IsFold(none, n, Step, g)
    <3> HIDE DEF Step, Body, h
    <3>. QED  BY <2>1, FoldExists
  <2>3. \A K \in SUBSET (1..n) :
          g[K] = IF K = {} THEN none ELSE Op(g[K \ {Max(K)}], q[Max(K)])
    <3>1. ASSUME NEW K \in SUBSET (1..n), K # {}
          PROVE  Step[Max(K)][g[K \ {Max(K)}]] = Op(g[K \ {Max(K)}], q[Max(K)])
      <4>1. Max(K) \in 1..n
        BY <3>1, MaxOfFinite
      <4>2. g[K \ {Max(K)}] \in Seq(Events)
        OBVIOUS
      <4>. QED  BY <4>1, <4>2
    <3> HIDE DEF Step
    <3>. QED  BY <2>2, <3>1 DEF IsFold
  <2>4. g = Body(g)
    BY <1>1, <1>2, <2>3
  <2> HIDE DEF Body
  <2>. QED  BY <2>4, Zenon
<1> HIDE DEF h
<1>6. ASSUME NEW i \in 1..n PROVE h[1..i] = Op(h[1..(i - 1)], q[i])
  <2>1. 1..i \in SUBSET (1..n) /\ i \in Nat /\ i > 0
    OBVIOUS
  <2>2. Max(1..i) = i /\ (1..i) \ {Max(1..i)} = 1..(i - 1) /\ 1..i # {}
    BY <2>1, IntervalMax
  <2>. QED  BY <1>1, <1>5, <2>1, <2>2
<1>7. h[1..0] = none
  <2>1. 1..0 = {} /\ {} \in SUBSET (1..n)
    OBVIOUS
  <2>. QED  BY <1>1, <1>2, <1>5, <2>1
<1> DEFINE Good(i) == /\ h[1..i] \in Seq(Events)
                      /\ Range(h[1..i]) = {q[k] : k \in 1..i}
           I == {i \in Nat : i <= n => Good(i)}
<1>8. 0 \in I
  <2>1. {q[k] : k \in 1..0} = {}
    OBVIOUS
  <2>2. Good(0)
    BY <1>2, <1>7, <2>1
  <2>. QED  BY <2>2
<1>9. ASSUME NEW i \in Nat, i \in I PROVE i + 1 \in I
  <2> SUFFICES ASSUME i + 1 <= n PROVE Good(i + 1)
    OBVIOUS
  <2>1. i + 1 \in 1..n /\ (i + 1) - 1 = i /\ Good(i)
    BY <1>9
  <2>2. h[1..(i + 1)] = Op(h[1..i], q[i + 1]) /\ q[i + 1] \in Events
    BY <1>1, <1>6, <2>1
  <2>3. {q[k] : k \in 1..(i + 1)} = {q[k] : k \in 1..i} \cup {q[i + 1]}
    <3>1. 1..(i + 1) = (1..i) \cup {i + 1}
      OBVIOUS
    <3>. QED  BY <3>1
  <2>. QED  BY ZenonT(60), <1>4, <2>1, <2>2, <2>3
<1>10. n \in I
  <2> HIDE DEF I
  <2>. QED  BY <1>8, <1>9, NatSetInduction
<1>11. Good(n)
  BY <1>10
<1>12. Range(q) = {q[k] : k \in 1..n}
  BY <1>0, RangeEquality
<1>. QED  BY <1>1, <1>3, <1>11, <1>12

(* What GetEventsAfter finds in the log of the server that numbers all     *)
(* events. *)
Missed(b, after) == InOrder(Filtered(b, LAMBDA e : e.seq > after))

(* It has everything after the number but what was overwritten. *)
LEMMA MissedFacts ==
  ASSUME NEW b \in Seq(Events), NEW after \in Nat
  PROVE  /\ Missed(b, after) \in Seq(Events)
         /\ \A n \in Nat : IsLog(b, n) =>
              \A e \in after + 1 .. n :
                \/ e + Capacity <= n
                \/ \E i \in 1..Len(Missed(b, after)) : Missed(b, after)[i].event = e
<1> DEFINE K == {i \in 1..Len(b) : b[i].seq > after}
           missed == InOrder(Picked(b, K))
<1>1. missed \in Seq(Events) /\ Range(missed) = {b[k] : k \in K}
  <2>1. Picked(b, K) \in Seq(Events) /\ Range(Picked(b, K)) = {b[k] : k \in K}
    BY FilteredEvents
  <2>. QED  BY <2>1, InOrderFacts
<1>2. ASSUME NEW n \in Nat, IsLog(b, n),
             NEW e \in after + 1 .. n, ~ (e + Capacity <= n)
      PROVE  \E i \in 1..Len(missed) : missed[i].event = e
  <2>1. Len(b) \in Nat /\ Capacity \in Nat \ {0}
    BY LenProperties, LinkBounds
  <2>2. PICK k \in 1..Len(b) : n - Len(b) + k = e
    <3>1. e - (n - Len(b)) \in 1..Len(b)
      BY <1>2, <2>1 DEF IsLog
    <3>. QED  BY <2>1, <3>1
  <2>3. b[k] = [seq |-> e, event |-> e]
    BY <1>2, <2>2 DEF IsLog
  <2>4. b[k].seq = e /\ b[k].event = e
    BY <2>3
  <2>5. b[k] \in Range(missed)
    BY <1>1, <1>2, <2>4
  <2>6. Range(missed) = {missed[i] : i \in 1..Len(missed)}
    BY <1>1, RangeEquality
  <2> HIDE DEF missed
  <2>. QED  BY <2>4, <2>5, <2>6
<1>3. Missed(b, after) = missed
  BY DEF Missed, Filtered
<1>. QED  BY <1>1, <1>2, <1>3

(* One more event keeps a log complete. *)
LEMMA AddFacts ==
  ASSUME NEW b \in Seq(Events), NEW e \in Events
  PROVE  /\ Add(b, e) \in Seq(Events)
         /\ \A n \in Nat : IsLog(b, n) /\ e = [seq |-> n + 1, event |-> n + 1]
                             => IsLog(Add(b, e), n + 1)
<1>1. Len(b) \in Nat /\ Capacity \in Nat \ {0}
  BY LenProperties, LinkBounds
<1>2. CASE Len(b) = Capacity
  <2>1. b # <<>>
    BY <1>1, <1>2, EmptySeq
  <2>2. /\ Tail(b) \in Seq(Events) /\ Len(Tail(b)) = Len(b) - 1
        /\ \A i \in 1..Len(Tail(b)) : Tail(b)[i] = b[i + 1]
    BY <2>1, HeadTailProperties
  <2>3. PICK t \in Seq(Events) : t = Tail(b)
    BY <2>2
  <2>4. /\ Append(t, e) \in Seq(Events) /\ Len(Append(t, e)) = Len(t) + 1
        /\ \A i \in 1..Len(t) : Append(t, e)[i] = t[i]
        /\ Append(t, e)[Len(t) + 1] = e
    BY AppendProperties
  <2>5. Add(b, e) = Append(t, e)
    BY <1>2, <2>3 DEF Add
  <2>6. ASSUME NEW n \in Nat, IsLog(b, n), e = [seq |-> n + 1, event |-> n + 1]
        PROVE  IsLog(Append(t, e), n + 1)
    <3>1. Len(Append(t, e)) = Len(b) /\ Len(b) <= n + 1 /\ Len(t) + 1 = Len(b)
      <4>1. Len(b) <= n
        BY <2>6 DEF IsLog
      <4>2. Len(t) = Len(b) - 1
        BY <2>2, <2>3
      <4>. QED  BY <1>1, <2>4, <4>1, <4>2
    <3>2. ASSUME NEW k \in 1..Len(b)
          PROVE  Append(t, e)[k] = [seq |-> n + 1 - Len(b) + k,
                                    event |-> n + 1 - Len(b) + k]
      <4>1. CASE k = Len(b)
        <5>1. n + 1 - Len(b) + k = n + 1
          BY <1>1, <4>1
        <5>. QED  BY <2>4, <2>6, <3>1, <4>1, <5>1
      <4>2. CASE k # Len(b)
        <5>1. k \in 1..Len(t) /\ k + 1 \in 1..Len(b)
              /\ n - Len(b) + (k + 1) = n + 1 - Len(b) + k
          BY <1>1, <3>1, <4>2
        <5>2. Append(t, e)[k] = b[k + 1]
          BY <2>2, <2>3, <2>4, <5>1
        <5>3. b[k + 1] = [seq |-> n - Len(b) + (k + 1), event |-> n - Len(b) + (k + 1)]
          BY <2>6, <5>1 DEF IsLog
        <5>. QED  BY <5>1, <5>2, <5>3
      <4>. QED  BY <4>1, <4>2
    <3>3. Len(Append(t, e)) = Capacity
      BY <1>2, <3>1
    <3>. QED  BY <1>1, <3>1, <3>2, <3>3 DEF IsLog
  <2>. QED  BY <2>4, <2>5, <2>6
<1>3. CASE Len(b) # Capacity
  <2>1. /\ Append(b, e) \in Seq(Events) /\ Len(Append(b, e)) = Len(b) + 1
        /\ \A i \in 1..Len(b) : Append(b, e)[i] = b[i]
        /\ Append(b, e)[Len(b) + 1] = e
    BY AppendProperties
  <2>2. Add(b, e) = Append(b, e)
    BY <1>3 DEF Add
  <2>3. ASSUME NEW n \in Nat, IsLog(b, n), e = [seq |-> n + 1, event |-> n + 1]
        PROVE  IsLog(Append(b, e), n + 1)
    <3>1. Len(b) = n /\ n < Capacity
      BY <1>3, <2>3 DEF IsLog
    <3>2. ASSUME NEW k \in 1..(n + 1)
          PROVE  Append(b, e)[k] = [seq |-> k, event |-> k]
      <4>1. CASE k = n + 1
        BY <2>1, <2>3, <3>1, <4>1
      <4>2. CASE k # n + 1
        <5>1. k \in 1..n /\ n - n + k = k
          BY <4>2
        <5>2. b[k] = [seq |-> n - n + k, event |-> n - n + k]
          BY <2>3, <3>1, <5>1 DEF IsLog
        <5>. QED  BY <2>1, <3>1, <5>1, <5>2
      <4>. QED  BY <4>1, <4>2
    <3>3. \A k \in 1..(n + 1) : (n + 1) - (n + 1) + k = k
      OBVIOUS
    <3>4. n + 1 = Capacity \/ n + 1 < Capacity
      BY <1>1, <3>1
    <3>5. Len(Append(b, e)) = n + 1
      BY <2>1, <3>1
    <3>. QED  BY <3>2, <3>3, <3>4, <3>5 DEF IsLog
  <2>. QED  BY <2>1, <2>2, <2>3
<1>. QED  BY <1>2, <1>3

-----------------------------------------------------------------------------
(* The messages on their way: what another one, or the delivery of the     *)
(* first one, changes.                                                     *)
LEMMA NothingSaid ==
  ASSUME NEW known, NEW answered, NEW after, NEW shown
  PROVE  /\ Orderly(<<>>, known, answered, after, shown)
         /\ ToldBy(<<>>, Len(<<>>)) = {} /\ ~ Answers(<<>>, Len(<<>>))
         /\ NewsOnly(<<>>)
<1>1. Len(<<>>) = 0 /\ Range(<<>>) = {} /\ 1..0 = {}
  BY DEF Range
<1>. QED  BY <1>1 DEF Orderly, ToldBy, Answers, NewsOnly

(* What is known or has been answered by now does not undo the order. *)
LEMMA MoreIsKnown ==
  ASSUME NEW d, NEW known, NEW more, known \subseteq more, NEW answered, NEW after,
         NEW shown, Orderly(d, known, answered, after, shown)
  PROVE  Orderly(d, more, answered, after, shown)
BY DEF Orderly

(* Before the answer is on its way the order promises nothing. *)
LEMMA NewsIsOrderly ==
  ASSUME NEW d \in Seq(Replies), NewsOnly(d), NEW known, NEW after, NEW shown
  PROVE  Orderly(d, known, FALSE, after, shown) /\ ~ Answers(d, Len(d))
<1>1. \A k \in 1..Len(d) : d[k] \in Range(d)
  BY RangeEquality
<1>2. \A k \in 1..Len(d) : d[k].type # "state_update" /\ ~ d[k].answers
  BY <1>1 DEF NewsOnly
<1>. QED  BY <1>2 DEF Orderly, Answers

(* The places of a concatenation. *)
LEMMA SaidBefore ==
  ASSUME NEW d \in Seq(Replies), NEW r \in Seq(Replies)
  PROVE  /\ d \o r \in Seq(Replies) /\ Len(d \o r) = Len(d) + Len(r)
         /\ \A k \in 0..Len(d) : /\ ToldBy(d \o r, k) = ToldBy(d, k)
                                 /\ Answers(d \o r, k) <=> Answers(d, k)
         /\ \A k \in 1..Len(d) : (d \o r)[k] = d[k]
         /\ \A k \in 1..Len(r) : (d \o r)[Len(d) + k] = r[k]
         /\ ToldBy(d \o r, Len(d) + Len(r)) = ToldBy(d, Len(d)) \cup ToldBy(r, Len(r))
         /\ Answers(d \o r, Len(d) + Len(r))
              <=> Answers(d, Len(d)) \/ Answers(r, Len(r))
<1>1. PICK n \in Nat : n = Len(d)
  BY LenProperties
<1>2. PICK m \in Nat : m = Len(r)
  BY LenProperties
<1>3. PICK c \in Seq(Replies) :
        /\ c = d \o r /\ Len(c) = n + m
        /\ \A k \in 1..n : c[k] = d[k]
        /\ \A k \in 1..m : c[n + k] = r[k]
  <2>1. /\ d \o r \in Seq(Replies) /\ Len(d \o r) = Len(d) + Len(r)
        /\ \A i \in 1..(Len(d) + Len(r)) :
             (d \o r)[i] = IF i <= Len(d) THEN d[i] ELSE r[i - Len(d)]
    BY ConcatProperties
  <2>2. \A k \in 1..n : (d \o r)[k] = d[k]
    BY <1>1, <1>2, <2>1
  <2>3. ASSUME NEW k \in 1..m PROVE (d \o r)[n + k] = r[k]
    <3>1. n + k \in 1..(n + m) /\ ~ (n + k <= n) /\ (n + k) - n = k
      OBVIOUS
    <3>. QED  BY <1>1, <1>2, <2>1, <3>1
  <2>. QED  BY <1>1, <1>2, <2>1, <2>2, <2>3
<1>4. ASSUME NEW k \in 0..n
      PROVE  ToldBy(c, k) = ToldBy(d, k) /\ (Answers(c, k) <=> Answers(d, k))
  <2>1. \A j \in 1..k : c[j] = d[j]
    BY <1>3
  <2>. QED  BY <2>1 DEF ToldBy, Answers
<1>5. ToldBy(c, n + m) = ToldBy(d, n) \cup ToldBy(r, m)
  <2>1. ASSUME NEW j \in 1..(n + m), c[j].type = "game_event"
        PROVE  c[j].event \in ToldBy(d, n) \cup ToldBy(r, m)
    <3>1. CASE j <= n
      <4>1. j \in 1..n /\ c[j] = d[j]
        BY <1>3, <3>1
      <4>. QED  BY <2>1, <4>1 DEF ToldBy
    <3>2. CASE j > n
      <4>1. j - n \in 1..m /\ n + (j - n) = j
        BY <3>2
      <4>2. c[j] = r[j - n]
        BY <1>3, <4>1
      <4>. QED  BY <2>1, <4>1, <4>2 DEF ToldBy
    <3>. QED  BY <3>1, <3>2
  <2>2. ASSUME NEW j \in 1..n, d[j].type = "game_event"
        PROVE  d[j].event \in ToldBy(c, n + m)
    <3>1. j \in 1..(n + m) /\ c[j] = d[j]
      BY <1>3
    <3>. QED  BY <2>2, <3>1 DEF ToldBy
  <2>3. ASSUME NEW j \in 1..m, r[j].type = "game_event"
        PROVE  r[j].event \in ToldBy(c, n + m)
    <3>1. n + j \in 1..(n + m) /\ c[n + j] = r[j]
      BY <1>3
    <3>. QED  BY <2>3, <3>1 DEF ToldBy
  <2>4. ToldBy(c, n + m) \subseteq ToldBy(d, n) \cup ToldBy(r, m)
    <3>1. \A e \in ToldBy(c, n + m) :
            \E j \in 1..(n + m) : c[j].type = "game_event" /\ e = c[j].event
      BY DEF ToldBy
    <3>. QED  BY <2>1, <3>1
  <2>5. ToldBy(d, n) \subseteq ToldBy(c, n + m)
    <3>1. \A e \in ToldBy(d, n) :
            \E j \in 1..n : d[j].type = "game_event" /\ e = d[j].event
      BY DEF ToldBy
    <3>. QED  BY <2>2, <3>1
  <2>6. ToldBy(r, m) \subseteq ToldBy(c, n + m)
    <3>1. \A e \in ToldBy(r, m) :
            \E j \in 1..m : r[j].type = "game_event" /\ e = r[j].event
      BY DEF ToldBy
    <3>. QED  BY <2>3, <3>1
  <2>. QED  BY <2>4, <2>5, <2>6
<1>6. Answers(c, n + m) <=> Answers(d, n) \/ Answers(r, m)
  <2>1. ASSUME NEW j \in 1..(n + m), c[j].answers PROVE Answers(d, n) \/ Answers(r, m)
    <3>1. CASE j <= n
      <4>1. j \in 1..n /\ c[j] = d[j]
        BY <1>3, <3>1
      <4>. QED  BY <2>1, <4>1 DEF Answers
    <3>2. CASE j > n
      <4>1. j - n \in 1..m /\ n + (j - n) = j
        BY <3>2
      <4>2. c[j] = r[j - n]
        BY <1>3, <4>1
      <4>. QED  BY <2>1, <4>1, <4>2 DEF Answers
    <3>. QED  BY <3>1, <3>2
  <2>2. ASSUME NEW j \in 1..n, d[j].answers PROVE Answers(c, n + m)
    <3>1. j \in 1..(n + m) /\ c[j] = d[j]
      BY <1>3
    <3>. QED  BY <2>2, <3>1 DEF Answers
  <2>3. ASSUME NEW j \in 1..m, r[j].answers PROVE Answers(c, n + m)
    <3>1. n + j \in 1..(n + m) /\ c[n + j] = r[j]
      BY <1>3
    <3>. QED  BY <2>3, <3>1 DEF Answers
  <2>4. Answers(c, n + m) => \E j \in 1..(n + m) : c[j].answers
    BY DEF Answers
  <2>5. Answers(d, n) => \E j \in 1..n : d[j].answers
    BY DEF Answers
  <2>6. Answers(r, m) => \E j \in 1..m : r[j].answers
    BY DEF Answers
  <2>. QED  BY <2>1, <2>2, <2>3, <2>4, <2>5, <2>6
<1>. QED  BY <1>1, <1>2, <1>3, <1>4, <1>5, <1>6

(* Events may be sent at any time. *)
LEMMA NewsAfter ==
  ASSUME NEW d \in Seq(Replies), NEW r \in Seq(Replies),
         \A i \in 1..Len(r) : r[i].type = "game_event" /\ ~ r[i].answers,
         NEW known, NEW answered, NEW after, NEW shown
  PROVE  /\ d \o r \in Seq(Replies)
         /\ Orderly(d, known, answered, after, shown)
              => Orderly(d \o r, known, answered, after, shown)
         /\ ToldBy(d \o r, Len(d \o r)) =
              ToldBy(d, Len(d)) \cup {r[i].event : i \in 1..Len(r)}
         /\ Answers(d \o r, Len(d \o r)) <=> Answers(d, Len(d))
         /\ NewsOnly(d) => NewsOnly(d \o r)
<1>1. PICK n \in Nat : n = Len(d)
  BY LenProperties
<1>2. PICK m \in Nat : m = Len(r)
  BY LenProperties
<1>3. PICK c \in Seq(Replies) :
        /\ c = d \o r /\ Len(c) = n + m
        /\ \A k \in 0..n : ToldBy(c, k) = ToldBy(d, k) /\ (Answers(c, k) <=> Answers(d, k))
        /\ \A k \in 1..n : c[k] = d[k]
        /\ \A k \in 1..m : c[n + k] = r[k]
        /\ ToldBy(c, n + m) = ToldBy(d, n) \cup ToldBy(r, m)
        /\ Answers(c, n + m) <=> Answers(d, n) \/ Answers(r, m)
  BY ZenonT(60), <1>1, <1>2, SaidBefore
<1>4. ToldBy(r, m) = {r[i].event : i \in 1..m} /\ ~ Answers(r, m)
  BY <1>2 DEF ToldBy, Answers
<1>5. ASSUME NEW k \in 1..(n + m), k > n
      PROVE  c[k].type = "game_event" /\ ~ c[k].answers
  <2>1. k - n \in 1..m /\ n + (k - n) = k
    BY <1>5
  <2>. QED  BY <1>2, <1>3, <2>1
<1>6. ASSUME Orderly(d, known, answered, after, shown)
      PROVE  Orderly(c, known, answered, after, shown)
  <2> SUFFICES ASSUME NEW k \in 1..(n + m),
                      c[k].type = "state_update" /\ (answered \/ Answers(c, k))
               PROVE  \A x \in ShownBy(c, k, shown) :
                        after + 1 .. x \subseteq known \cup ToldBy(c, k - 1)
    BY <1>3 DEF Orderly
  <2>1. k <= n
    BY <1>5
  <2>2. k \in 1..n /\ k \in 0..n /\ k - 1 \in 0..n
    BY <2>1
  <2>3. c[k] = d[k] /\ (Answers(c, k) <=> Answers(d, k)) /\ ToldBy(c, k - 1) = ToldBy(d, k - 1)
    BY <1>3, <2>2
  <2>4. ShownBy(c, k, shown) = ShownBy(d, k, shown)
    <3>1. \A j \in 1..k : c[j] = d[j]
      BY <1>3, <2>1
    <3>2. {c[j].view : j \in 1..k} = {d[j].view : j \in 1..k}
      BY <3>1
    <3>. QED  BY <3>2 DEF ShownBy
  <2>. QED  BY <1>1, <1>6, <2>2, <2>3, <2>4 DEF Orderly
<1>7. ASSUME NewsOnly(d) PROVE NewsOnly(c)
  <2>1. /\ \A k \in 1..n : d[k] \in Range(d)
        /\ \A x \in Range(c) : \E k \in 1..(n + m) : x = c[k]
    <3>1. Range(d) = {d[k] : k \in 1..Len(d)}
      BY RangeEquality
    <3>2. Range(c) = {c[k] : k \in 1..Len(c)}
      BY RangeEquality
    <3>. QED  BY <1>1, <1>3, <3>1, <3>2
  <2>2. ASSUME NEW k \in 1..(n + m) PROVE c[k].type = "game_event" /\ ~ c[k].answers
    <3>1. CASE k <= n
      <4>1. k \in 1..n /\ c[k] = d[k]
        BY <1>3, <3>1
      <4>. QED  BY <1>7, <2>1, <4>1 DEF NewsOnly
    <3>. QED  BY <1>5, <3>1
  <2>. QED  BY <2>1, <2>2 DEF NewsOnly
<1>. QED  BY <1>1, <1>2, <1>3, <1>4, <1>6, <1>7

(* A state may be sent when all that it knows of is told, or when nothing  *)
(* is promised yet. *)
LEMMA StateAfter ==
  ASSUME NEW d \in Seq(Replies), NEW m \in Replies, m.type = "state_update",
         NEW known, NEW answered, NEW after, NEW shown,
         Orderly(d, known, answered, after, shown),
         answered \/ Answers(d, Len(d)) \/ m.answers =>
           \A x \in {m.view} \cup ShownBy(d, Len(d), shown) :
             after + 1 .. x \subseteq known \cup ToldBy(d, Len(d))
  PROVE  /\ d \o <<m>> \in Seq(Replies)
         /\ Orderly(d \o <<m>>, known, answered, after, shown)
         /\ ToldBy(d \o <<m>>, Len(d \o <<m>>)) = ToldBy(d, Len(d))
         /\ Answers(d \o <<m>>, Len(d \o <<m>>)) <=> Answers(d, Len(d)) \/ m.answers
<1>1. PICK n \in Nat : n = Len(d)
  BY LenProperties
<1>2. PICK r \in Seq(Replies) : r = <<m>> /\ Len(r) = 1 /\ r[1] = m
  <2>1. <<m>> \in Seq(Replies) /\ Len(<<m>>) = 1 /\ <<m>>[1] = m
    OBVIOUS
  <2>. QED  BY <2>1, Zenon
<1>3. PICK c \in Seq(Replies) :
        /\ c = d \o r /\ Len(c) = n + 1
        /\ \A k \in 0..n : ToldBy(c, k) = ToldBy(d, k) /\ (Answers(c, k) <=> Answers(d, k))
        /\ \A k \in 1..n : c[k] = d[k]
        /\ \A k \in 1..1 : c[n + k] = r[k]
        /\ ToldBy(c, n + 1) = ToldBy(d, n) \cup ToldBy(r, 1)
        /\ Answers(c, n + 1) <=> Answers(d, n) \/ Answers(r, 1)
  <2>1. PICK one \in Nat : one = Len(r)
    BY LenProperties
  <2>2. PICK c \in Seq(Replies) :
          /\ c = d \o r /\ Len(c) = n + one
          /\ \A k \in 0..n : ToldBy(c, k) = ToldBy(d, k) /\ (Answers(c, k) <=> Answers(d, k))
          /\ \A k \in 1..n : c[k] = d[k]
          /\ \A k \in 1..one : c[n + k] = r[k]
          /\ ToldBy(c, n + one) = ToldBy(d, n) \cup ToldBy(r, one)
          /\ Answers(c, n + one) <=> Answers(d, n) \/ Answers(r, one)
    BY ZenonT(60), <1>1, <2>1, SaidBefore
  <2>3. one = 1
    BY <1>2, <2>1
  <2>. QED  BY <2>2, <2>3
<1>4. ToldBy(r, 1) = {} /\ (Answers(r, 1) <=> m.answers)
  <2>1. 1..1 = {1}
    OBVIOUS
  <2>. QED  BY <1>2, <2>1 DEF ToldBy, Answers
<1>5. c[n + 1] = m
  BY <1>2, <1>3
<1>6. Orderly(c, known, answered, after, shown)
  <2> SUFFICES ASSUME NEW k \in 1..(n + 1),
                      c[k].type = "state_update" /\ (answered \/ Answers(c, k))
               PROVE  \A x \in ShownBy(c, k, shown) :
                        after + 1 .. x \subseteq known \cup ToldBy(c, k - 1)
    BY <1>3 DEF Orderly
  <2>1. CASE k <= n
    <3>1. k \in 1..n /\ k \in 0..n /\ k - 1 \in 0..n
      BY <2>1
    <3>2. c[k] = d[k] /\ (Answers(c, k) <=> Answers(d, k)) /\ ToldBy(c, k - 1) = ToldBy(d, k - 1)
      BY <1>3, <3>1
    <3>3. ShownBy(c, k, shown) = ShownBy(d, k, shown)
      <4>1. \A j \in 1..k : c[j] = d[j]
        BY <1>3, <2>1
      <4>2. {c[j].view : j \in 1..k} = {d[j].view : j \in 1..k}
        BY <4>1
      <4>. QED  BY <4>2 DEF ShownBy
    <3>. QED  BY <1>1, <3>1, <3>2, <3>3 DEF Orderly
  <2>2. CASE k = n + 1
    <3>1. k - 1 = n /\ n \in 0..n
      BY <2>2
    <3>2. ToldBy(c, k - 1) = ToldBy(d, n) /\ c[k] = m
      BY <1>3, <1>5, <2>2, <3>1
    <3>3. answered \/ Answers(d, n) \/ m.answers
      BY <1>3, <1>4, <2>2
    <3>4. ShownBy(c, k, shown) \subseteq {m.view} \cup ShownBy(d, n, shown)
      <4>1. \A j \in 1..k : (j \in 1..n /\ c[j] = d[j]) \/ c[j] = m
        BY <1>3, <1>5, <2>2
      <4>2. {c[j].view : j \in 1..k} \subseteq {m.view} \cup {d[j].view : j \in 1..n}
        BY <4>1
      <4>. QED  BY <4>2 DEF ShownBy
    <3>. QED  BY <1>1, <3>2, <3>3, <3>4
  <2>. QED  BY <2>1, <2>2
<1>. QED  BY <1>1, <1>2, <1>3, <1>4, <1>6

(* The first message, after the answer, shows no event that is not known.  *)
LEMMA FirstIsShown ==
  ASSUME NEW d \in Seq(Replies), d # <<>>, NEW known, NEW answered, NEW after,
         NEW shown, Orderly(d, known, answered, after, shown),
         Head(d).type = "state_update", answered \/ Head(d).answers,
         NEW next \in {shown, Head(d).view}
  PROVE  after + 1 .. next \subseteq known
<1>1. 1 \in 1..Len(d) /\ Head(d) = d[1] /\ 1 \in 1..1
  BY HeadTailProperties, EmptySeq, LenProperties
<1>2. answered \/ Answers(d, 1)
  BY <1>1 DEF Answers
<1>3. next \in ShownBy(d, 1, shown)
  BY <1>1 DEF ShownBy
<1>4. after + 1 .. next \subseteq known \cup ToldBy(d, 1 - 1)
  BY <1>1, <1>2, <1>3 DEF Orderly
<1>5. ToldBy(d, 1 - 1) = {}
  <2>1. 1..(1 - 1) = {}
    OBVIOUS
  <2>. QED  BY <2>1 DEF ToldBy
<1>. QED  BY <1>4, <1>5

(* The first message is handled. *)
LEMMA FirstIsHandled ==
  ASSUME NEW d \in Seq(Replies), d # <<>>, NEW known, NEW answered, NEW after,
         NEW more, known \subseteq more,
         Head(d).type = "game_event" => Head(d).event \in more,
         NEW now, now => answered \/ Head(d).answers,
         NEW shown, Orderly(d, known, answered, after, shown)
  PROVE  /\ Head(d) \in Replies /\ Tail(d) \in Seq(Replies)
         /\ \A next \in {shown, Head(d).view} : Orderly(Tail(d), more, now, after, next)
         /\ ToldBy(d, Len(d)) \subseteq more \cup ToldBy(Tail(d), Len(Tail(d)))
         /\ Answers(Tail(d), Len(Tail(d))) => Answers(d, Len(d))
<1>1. PICK n \in Nat : n + 1 = Len(d)
  <2>1. Len(d) \in Nat \ {0}
    BY EmptySeq, LenProperties
  <2>2. Len(d) - 1 \in Nat /\ (Len(d) - 1) + 1 = Len(d)
    BY <2>1
  <2>. QED  BY <2>2
<1>2. PICK h \in Replies : h = Head(d) /\ h = d[1]
  BY HeadTailProperties
<1>3. PICK t \in Seq(Replies) :
        t = Tail(d) /\ Len(t) = n /\ \A i \in 1..n : t[i] = d[i + 1]
  <2>1. /\ Tail(d) \in Seq(Replies) /\ Len(Tail(d)) = Len(d) - 1
        /\ \A i \in 1..Len(Tail(d)) : Tail(d)[i] = d[i + 1]
    BY HeadTailProperties
  <2>2. Len(d) - 1 = n
    BY <1>1
  <2>. QED  BY <2>1, <2>2
<1>4. ASSUME NEW k \in 0..n
      PROVE  ToldBy(d, k + 1) \subseteq more \cup ToldBy(t, k)
  <2>1. \A e \in ToldBy(d, k + 1) :
          \E j \in 1..(k + 1) : d[j].type = "game_event" /\ e = d[j].event
    BY DEF ToldBy
  <2>2. ASSUME NEW j \in 1..(k + 1), d[j].type = "game_event"
        PROVE  d[j].event \in more \cup ToldBy(t, k)
    <3>1. CASE j = 1
      BY <1>2, <2>2, <3>1
    <3>2. CASE j # 1
      <4>1. j - 1 \in 1..k /\ j - 1 \in 1..n /\ (j - 1) + 1 = j
        BY <3>2
      <4>2. t[j - 1] = d[j]
        BY <1>3, <4>1
      <4>. QED  BY <2>2, <4>1, <4>2 DEF ToldBy
    <3>. QED  BY <3>1, <3>2
  <2>. QED  BY <2>1, <2>2
<1>5. ASSUME NEW k \in 0..n, Answers(t, k) PROVE Answers(d, k + 1)
  <2>1. PICK j \in 1..k : t[j].answers
    BY <1>5 DEF Answers
  <2>2. j + 1 \in 1..(k + 1) /\ j \in 1..n
    OBVIOUS
  <2>3. d[j + 1] = t[j]
    BY <1>3, <2>2
  <2>. QED  BY <2>1, <2>2, <2>3 DEF Answers
<1>6. ASSUME NEW k \in 0..n, h.answers PROVE Answers(d, k + 1)
  <2>1. 1 \in 1..(k + 1)
    OBVIOUS
  <2>. QED  BY <1>2, <1>6, <2>1 DEF Answers
<1>7. ASSUME NEW next \in {shown, h.view} PROVE Orderly(t, more, now, after, next)
  <2> SUFFICES ASSUME NEW k \in 1..n,
                      t[k].type = "state_update" /\ (now \/ Answers(t, k))
               PROVE  \A x \in ShownBy(t, k, next) :
                        after + 1 .. x \subseteq more \cup ToldBy(t, k - 1)
    BY <1>3 DEF Orderly
  <2>1. k \in 0..n /\ k - 1 \in 0..n /\ k + 1 \in 1..(n + 1)
        /\ (k + 1) - 1 = k /\ (k - 1) + 1 = k
    OBVIOUS
  <2>2. d[k + 1] = t[k]
    BY <1>3
  <2>3. answered \/ Answers(d, k + 1)
    BY <1>2, <1>5, <1>6, <2>1
  <2>4. \A x \in ShownBy(d, k + 1, shown) :
          after + 1 .. x \subseteq known \cup ToldBy(d, (k + 1) - 1)
    BY <1>1, <2>1, <2>2, <2>3 DEF Orderly
  <2>5. ToldBy(d, k) \subseteq more \cup ToldBy(t, k - 1)
    BY <1>4, <2>1
  <2>6. ShownBy(t, k, next) \subseteq ShownBy(d, k + 1, shown)
    <3>1. 1 \in 1..(k + 1) /\ \A j \in 1..k : j \in 1..n /\ j + 1 \in 1..(k + 1)
      OBVIOUS
    <3>. QED  BY <1>2, <1>3, <3>1 DEF ShownBy
  <2>. QED  BY <2>1, <2>4, <2>5, <2>6
<1>8. ToldBy(d, n + 1) \subseteq more \cup ToldBy(t, n)
  BY <1>4
<1>9. Answers(t, n) => Answers(d, n + 1)
  BY <1>5
<1>. QED  BY <1>1, <1>2, <1>3, <1>7, <1>8, <1>9

-----------------------------------------------------------------------------
(* What leaves the log alone leaves it numbered. *)
LEMMA LogStays ==
  ASSUME LogTypes, NumberingInv, UNCHANGED <<eventLog, events>>
  PROVE  LogTypes' /\ NumberingInv'
BY DEF LogTypes, NumberingInv, eventLog

(* Nothing has a number that no event has. *)
LEMMA NothingIsNoEvent == Nothing \in Events /\ Nothing.event = 0
BY DEF Nothing, Events

(* A new event is the only one that is being sent, and only the server     *)
(* that logs it can still be the one that numbers all of them.             *)
LEMMA NewEventIsLogged ==
  ASSUME LogTypes, NumberingInv, NEW v \in Servers, LogEvent(v)
  PROVE  /\ LogTypes' /\ NumberingInv'
         /\ events' = events + 1 /\ sending'[v].event = events + 1
         /\ \A u \in Servers : sending[u].event = 0
         /\ \A u \in Servers : eventSequence'[u] = events' =>
              u = v /\ eventSequence[u] = events
<1>1. PICK n \in Nat : n = events
  BY DEF LogTypes
<1>2. PICK e \in Events : e = [seq |-> eventSequence[v] + 1, event |-> n + 1]
  <2>1. eventSequence[v] \in Nat
    BY DEF LogTypes
  <2>2. [seq |-> eventSequence[v] + 1, event |-> n + 1] \in Events
    BY <2>1 DEF Events
  <2>. QED  BY <2>2, Zenon
<1>3. /\ events' = n + 1
      /\ eventSequence' = [eventSequence EXCEPT ![v] = @ + 1]
      /\ eventBuffer' = [eventBuffer EXCEPT ![v] = Add(@, e)]
      /\ sending' = [sending EXCEPT ![v] = e]
      /\ UNCHANGED <<logging, inbox>>
      /\ \A u \in Servers : sending[u] = Nothing
  BY <1>1, <1>2, Zenon DEF LogEvent, RoomIsFree
<1>4. /\ eventSequence[v] \in Nat /\ eventBuffer[v] \in Seq(Events)
      /\ \A u \in Servers : eventSequence[u] \in Nat /\ eventSequence[u] <= n
  BY <1>1 DEF LogTypes, NumberingInv
<1>5. /\ eventSequence'[v] = eventSequence[v] + 1
      /\ eventBuffer'[v] = Add(eventBuffer[v], e)
      /\ sending'[v] = e
      /\ \A u \in Servers \ {v} : eventSequence'[u] = eventSequence[u] /\ sending'[u] = Nothing
  BY <1>3 DEF LogTypes
<1>6. \A u \in Servers : eventSequence'[u] = events' => u = v /\ eventSequence[u] = n
  BY <1>3, <1>4, <1>5
<1>7. LogTypes'
  <2>1. Add(eventBuffer[v], e) \in Seq(Events)
    BY <1>4, AddFacts
  <2>2. eventBuffer' \in [Servers -> Seq(Events)]
    BY <1>3, <2>1 DEF LogTypes
  <2>3. eventSequence' \in [Servers -> Nat]
    BY <1>3, <1>4 DEF LogTypes
  <2>4. sending' \in [Servers -> Events]
    BY <1>3 DEF LogTypes
  <2>5. events' \in Nat /\ logging' = logging /\ inbox' = inbox
    BY <1>3
  <2>. QED  BY <2>2, <2>3, <2>4, <2>5 DEF LogTypes
<1>8. NumberingInv'
  <2>1. e.event = n + 1
    BY <1>2
  <2>2. ASSUME NEW u \in Servers
        PROVE  eventSequence'[u] <= events' /\ (sending'[u] # Nothing => sending'[u].event = events')
    BY <1>3, <1>4, <1>5, <2>1
  <2>3. ASSUME eventSequence'[v] = events'
        PROVE  /\ inbox'[v] = {} /\ logging'[v] = {}
               /\ \A u \in Servers \ {v} : sending'[u] = Nothing
               /\ IsLog(eventBuffer'[v], events')
    <3>1. eventSequence[v] = n
      BY <1>6, <2>3
    <3>2. e = [seq |-> n + 1, event |-> n + 1]
      BY <1>2, <3>1
    <3>3. IsLog(eventBuffer[v], n) /\ inbox[v] = {} /\ logging[v] = {}
      BY <1>1, <3>1 DEF NumberingInv
    <3>4. IsLog(Add(eventBuffer[v], e), n + 1)
      BY <1>4, <3>2, <3>3, AddFacts
    <3>. QED  BY <1>3, <1>5, <3>3, <3>4
  <2>. QED  BY <1>6, <2>2, <2>3 DEF NumberingInv
<1>9. sending'[v].event = n + 1
  BY <1>2, <1>5
<1>. QED  BY <1>1, <1>3, <1>6, <1>7, <1>8, <1>9, NothingIsNoEvent

(* What is sent, heard and logged of other servers does not reach the log  *)
(* of the server that numbers all events. *)
LEMMA SpreadKeepsLog ==
  ASSUME LogTypes, NumberingInv, NEW v \in Servers,
         \/ Broadcast(v)
         \/ \E e \in inbox[v] : Hear(v, e)
         \/ \E e \in logging[v] : LogRemote(v, e)
  PROVE  LogTypes' /\ NumberingInv'
<1>1. CASE Broadcast(v)
  <2>1. /\ sending[v] # Nothing /\ sending[v] \in Events
        /\ sending' = [sending EXCEPT ![v] = Nothing]
        /\ UNCHANGED <<eventSequence, eventBuffer, logging, events>>
    BY <1>1 DEF Broadcast, LogTypes, room
  <2>2. /\ inbox' \in [Servers -> SUBSET Events]
        /\ inbox'[v] = inbox[v]
    BY <1>1, <2>1 DEF Broadcast, LogTypes
  <2>3. /\ sending' \in [Servers -> Events] /\ sending'[v] = Nothing
        /\ \A u \in Servers \ {v} : sending'[u] = sending[u]
    BY <2>1, NothingIsNoEvent DEF LogTypes
  <2>4. LogTypes'
    BY <2>1, <2>2, <2>3 DEF LogTypes
  <2>5. \A u \in Servers : eventSequence[u] = events => u = v
    BY <2>1 DEF NumberingInv
  <2>. QED  BY <2>1, <2>2, <2>3, <2>4, <2>5 DEF NumberingInv
<1>2. ASSUME NEW e \in inbox[v], Hear(v, e) PROVE LogTypes' /\ NumberingInv'
  <2>1. /\ inbox' = [inbox EXCEPT ![v] = @ \ {e}]
        /\ logging' = [logging EXCEPT ![v] = @ \cup {e}]
        /\ UNCHANGED <<eventSequence, eventBuffer, sending, events>>
    BY <1>2 DEF Hear, room
  <2>2. e \in Events /\ inbox[v] # {}
    BY <1>2 DEF LogTypes
  <2>3. /\ inbox' \in [Servers -> SUBSET Events]
        /\ logging' \in [Servers -> SUBSET Events]
        /\ \A u \in Servers \ {v} : inbox'[u] = inbox[u] /\ logging'[u] = logging[u]
    BY <2>1, <2>2 DEF LogTypes
  <2>4. eventSequence[v] # events
    BY <2>2 DEF NumberingInv
  <2>. QED  BY <2>1, <2>3, <2>4 DEF LogTypes, NumberingInv
<1>3. ASSUME NEW e \in logging[v], LogRemote(v, e) PROVE LogTypes' /\ NumberingInv'
  <2>1. /\ eventBuffer' = [eventBuffer EXCEPT ![v] = Add(@, e)]
        /\ logging' = [logging EXCEPT ![v] = @ \ {e}]
        /\ UNCHANGED <<eventSequence, sending, inbox, events>>
    BY <1>3 DEF LogRemote, room
  <2>2. e \in Events /\ logging[v] # {} /\ eventBuffer[v] \in Seq(Events)
    BY <1>3 DEF LogTypes
  <2>3. Add(eventBuffer[v], e) \in Seq(Events)
    BY <2>2, AddFacts
  <2>4. /\ eventBuffer' \in [Servers -> Seq(Events)]
        /\ logging' \in [Servers -> SUBSET Events]
        /\ \A u \in Servers \ {v} : /\ eventBuffer'[u] = eventBuffer[u]
                                    /\ logging'[u] = logging[u]
    BY <2>1, <2>3 DEF LogTypes
  <2>5. eventSequence[v] # events
    BY <2>2 DEF NumberingInv
  <2>. QED  BY <2>1, <2>4, <2>5 DEF LogTypes, NumberingInv
<1>. QED  BY <1>1, <1>2, <1>3

-----------------------------------------------------------------------------
(* What the story of the newest socket rests on. *)
LinkFacts == LinkInv /\ HeardInv /\ GapInv /\ SettledInv

(* No state that a browser is shown knows of an event that is being sent,  *)
(* nor does one that the server may answer with.                           *)
LEMMA ShownIsSettled ==
  ASSUME TalkTypes, LogTypes, SettledInv, NEW s \in Sockets,
         NEW x \in ShownBy(down[s], Len(down[s]), view)
  PROVE  x \in Int /\ x <= Settled
<1>1. CASE x = view
  BY <1>1 DEF TalkTypes, SettledInv
<1>2. ASSUME NEW j \in 1..Len(down[s]), x = down[s][j].view
      PROVE  x \in Int /\ x <= Settled
  <2>1. PICK d \in Seq(Replies) : d = down[s]
    BY DEF TalkTypes
  <2>2. d[j] \in Range(d) /\ d[j] \in Replies
    BY <2>1, RangeEquality, ElementOfSeq
  <2>3. d[j].view \in Int
    BY <2>2 DEF Replies, NoState
  <2>. QED  BY <1>2, <2>1, <2>2, <2>3 DEF SettledInv, ViewsWithin
<1>. QED  BY <1>1, <1>2 DEF ShownBy

LEMMA StateIsSettled ==
  ASSUME TalkTypes, LogTypes, SettledInv,
         NEW x \in {NoState} \cup IF RoomIsFree THEN {events} ELSE {}
  PROVE  x \in Int /\ x <= Settled
BY DEF TalkTypes, LogTypes, SettledInv, Settled, NoState

(* A handler goes on without a message, or a connection ends at the        *)
(* server. *)
LEMMA HandlerMoves ==
  ASSUME LinkFacts,
         UNCHANGED <<browser, at, down, eventLog, events>>,
         up' \in [Sockets -> Seq(Requests)],
         \A s \in Sockets : up'[s] = up[s] \/ up'[s] = <<>>,
         \A s \in Sockets :
           \/ handler'[s] = handler[s]
           \/ /\ handler[s] # "none"
              /\ handler'[s] \notin {"none", "syncing", "answering"}
              /\ handler'[s] \in Serving => handler[s] \in Serving
  PROVE  GapInv'
<1> USE DEF LinkFacts, GapInv
<1>1. LogTypes' /\ NumberingInv'
  BY LogStays
<1>2. UNCHANGED <<ws, readyState, reconnectTimeout, isClosedIntentionally,
                  lastSeenSequence, seen, view, asked, synced>>
  BY DEF browser
<1>3. TalkTypes'
  BY <1>2 DEF TalkTypes
<1>4. Range(<<>>) = {}
  BY DEF Range
<1>5. ASSUME NEW s \in Sockets PROVE FreshSocket(s)'
  BY <1>2, <1>5 DEF FreshInv, FreshSocket
<1>6. AskedInv'
  <2>1. synced => handler'[ws] # "none"
    BY DEF FreshInv, AskedInv
  <2>2. ws \in Sockets => Range(up'[ws]) \subseteq Range(up[ws])
    BY <1>4
  <2>. QED  BY <1>2, <2>1, <2>2 DEF FreshInv, AskedInv
<1>7. StoryInv'
  <2> SUFFICES ASSUME ws \in Sockets, at[ws] \in Servers, eventSequence[at[ws]] = events
               PROVE  QueueInv' /\ StreamInv' /\ ViewInv'
    BY <1>2 DEF StoryInv, eventLog
  <2>1. QueueInv /\ StreamInv /\ ViewInv
    BY DEF StoryInv
  <2>2. Known' = Known /\ sending' = sending
    BY <1>2 DEF Known, eventLog
  <2>3. QueueInv' /\ ViewInv'
    BY <1>2, <2>1, <2>2 DEF QueueInv, ViewInv
  <2>4. StreamInv'
    BY <1>2, <2>1, <2>2 DEF StreamInv
  <2>. QED  BY <2>3, <2>4
<1>. QED  BY <1>1, <1>3, <1>5, <1>6, <1>7 DEF FreshInv

(* These are the steps of this kind. *)
LEMMA QuietHandlers ==
  ASSUME LinkFacts,
         \/ \E s \in Sockets : Attach(s) \/ SessionNotFound(s) \/ Leave(s)
         \/ \E v \in Servers : CleanupStaleConnections(v) \/ CleanupRoom(v)
  PROVE  GapInv'
<1>1. up \in [Sockets -> Seq(Requests)] /\ handler \in [Sockets -> Held \cup {"none", "done"}]
      /\ connections \in [Servers -> 0..MaxSockets]
  BY DEF LinkFacts, GapInv, TalkTypes, HeardInv, ServerTypes
<1>2. ASSUME NEW s \in Sockets, Attach(s) \/ SessionNotFound(s) \/ Leave(s)
      PROVE  GapInv'
  <2>1. UNCHANGED <<browser, at, down, eventLog, events>>
    BY <1>2 DEF Attach, SessionNotFound, Leave, room
  <2>2. /\ up' \in [Sockets -> Seq(Requests)]
        /\ \A t \in Sockets : up'[t] = up[t] \/ up'[t] = <<>>
    <3>1. <<>> \in Seq(Requests)
      BY EmptySeq
    <3>2. up' = up \/ up' = [up EXCEPT ![s] = <<>>]
      BY <1>2 DEF Attach, SessionNotFound, Leave
    <3>. QED  BY <1>1, <3>1, <3>2
  <2>3. \A t \in Sockets :
          \/ handler'[t] = handler[t]
          \/ /\ handler[t] # "none"
             /\ handler'[t] \notin {"none", "syncing", "answering"}
             /\ handler'[t] \in Serving => handler[t] \in Serving
    BY <1>1, <1>2 DEF Attach, SessionNotFound, Leave, Serving
  <2>. QED  BY <2>1, <2>2, <2>3, HandlerMoves
<1>3. ASSUME NEW v \in Servers, CleanupStaleConnections(v) \/ CleanupRoom(v)
      PROVE  GapInv'
  <2>1. UNCHANGED <<browser, at, down, eventLog, events, up>>
    BY <1>3 DEF CleanupStaleConnections, CleanupRoom, room
  <2>2. \A t \in Sockets :
          \/ handler'[t] = handler[t]
          \/ /\ handler[t] # "none"
             /\ handler'[t] \notin {"none", "syncing", "answering"}
             /\ handler'[t] \in Serving => handler[t] \in Serving
    BY <1>1, <1>3 DEF CleanupStaleConnections, CleanupRoom, Serving
  <2>. QED  BY <1>1, <2>1, <2>2, HandlerMoves
<1>. QED  BY <1>2, <1>3

-----------------------------------------------------------------------------
(* The steps of the browser. *)
LEMMA ConnectGap ==
  ASSUME LinkFacts, Connect
  PROVE  GapInv'
<1> USE DEF LinkFacts, GapInv
<1>1. /\ ws \in Nat /\ ws + 1 \in Sockets /\ ws' = ws + 1
      /\ readyState' = [readyState EXCEPT ![ws + 1] = "connecting"]
      /\ readyState \in [Sockets -> {"none", "connecting", "open", "closed"}]
      /\ ~ synced'
      /\ UNCHANGED <<lastSeenSequence, seen, view, asked, at, up, down, handler,
                     eventLog, events>>
  BY LinkBounds DEF LinkInv, BrowserTypes, Connect, Sockets, room
<1>2. LogTypes' /\ NumberingInv'
  BY <1>1, LogStays
<1>3. TalkTypes'
  <2>1. synced' \in BOOLEAN
    BY DEF Connect
  <2>. QED  BY <1>1, <2>1 DEF TalkTypes
<1>4. /\ readyState[ws + 1] = "none" /\ handler[ws + 1] = "none"
      /\ up[ws + 1] = <<>> /\ down[ws + 1] = <<>>
  BY <1>1 DEF FreshInv, FreshSocket
<1>5. ASSUME NEW s \in Sockets PROVE FreshSocket(s)'
  <2>1. CASE s = ws + 1
    <3>1. NewsOnly(<<>>)
      BY NothingSaid
    <3>. QED  BY <1>1, <1>4, <2>1, <3>1 DEF FreshSocket
  <2>2. CASE s # ws + 1
    <3>1. FreshSocket(s) /\ readyState'[s] = readyState[s]
      BY <1>1, <2>2 DEF FreshInv
    <3>2. s > ws + 1 => s > ws
      BY <1>1 DEF Sockets
    <3>. QED  BY <1>1, <3>1, <3>2 DEF FreshSocket
  <2>. QED  BY <2>1, <2>2
<1>6. AskedInv'
  <2>1. Range(<<>>) = {}
    BY DEF Range
  <2>. QED  BY <1>1, <1>4, <2>1 DEF AskedInv
<1>7. StoryInv'
  <2>1. down'[ws'] = <<>> /\ handler'[ws'] \notin Serving
    BY <1>1, <1>4 DEF Serving
  <2>2. QueueInv'
    BY <2>1, NothingSaid DEF QueueInv
  <2>3. StreamInv' /\ ViewInv'
    BY <1>1, <2>1 DEF StreamInv, ViewInv
  <2>. QED  BY <2>2, <2>3 DEF StoryInv
<1>. QED  BY <1>2, <1>3, <1>5, <1>6, <1>7 DEF FreshInv

(* A socket that closes says nothing more. *)
LEMMA CloseGap ==
  ASSUME LinkFacts, Disconnect \/ \E s \in Sockets : OnClose(s)
  PROVE  GapInv'
<1> USE DEF LinkFacts, GapInv
<1>1. /\ UNCHANGED <<ws, lastSeenSequence, seen, view, asked, synced, at, up,
                     handler, eventLog, events>>
      /\ LinkInv'
  <2>1. UNCHANGED <<ws, lastSeenSequence, seen, view, asked, synced, at, up,
                    handler, eventLog, events>>
    BY DEF Disconnect, OnClose, room
  <2>. QED  BY <2>1, BrowserKeepsLink
<1>2. LogTypes' /\ NumberingInv'
  BY <1>1, LogStays
<1>3. <<>> \in Seq(Replies)
  BY EmptySeq
<1>4. \A s \in Sockets :
        /\ readyState'[s] = readyState[s]
             \/ (readyState'[s] = "closed" /\ readyState[s] \in Live)
        /\ down'[s] = down[s] \/ down'[s] = <<>>
  BY DEF Disconnect, OnClose, LinkInv, BrowserTypes, TalkTypes
<1>5. ws \in Sockets => readyState'[ws] \notin Live
  <2>1. CASE Disconnect
    BY <2>1 DEF Disconnect, LinkInv, BrowserTypes, Live
  <2>2. ASSUME NEW s \in Sockets, OnClose(s) PROVE readyState'[ws] \notin Live
    <3>1. s = ws
      BY <2>2 DEF OnClose, LinkInv, OnlyNewestIsLive
    <3>. QED  BY <2>2, <3>1 DEF OnClose, LinkInv, BrowserTypes, Live
  <2>. QED  BY <2>1, <2>2
<1>6. ws \in Sockets => down'[ws] = <<>>
  <2>1. CASE Disconnect
    BY <2>1 DEF Disconnect
  <2>2. ASSUME NEW s \in Sockets, OnClose(s) PROVE down'[ws] = <<>>
    <3>1. s = ws
      BY <2>2 DEF OnClose, LinkInv, OnlyNewestIsLive
    <3>. QED  BY <2>2, <3>1 DEF OnClose, TalkTypes
  <2>. QED  BY <2>1, <2>2
<1>7. TalkTypes'
  <2>1. down' \in [Sockets -> Seq(Replies)]
    BY <1>3 DEF Disconnect, OnClose, TalkTypes
  <2>. QED  BY <1>1, <2>1 DEF TalkTypes
<1>8. ASSUME NEW s \in Sockets PROVE FreshSocket(s)'
  <2>1. FreshSocket(s) /\ NewsOnly(<<>>)
    BY NothingSaid DEF FreshInv
  <2>. QED  BY <1>1, <1>4, <2>1 DEF FreshSocket, Live
<1>9. AskedInv'
  BY <1>1, <1>4 DEF FreshInv, AskedInv, Live
<1>10. StoryInv'
  <2> SUFFICES ASSUME ws \in Sockets, at[ws] \in Servers, eventSequence[at[ws]] = events
               PROVE  QueueInv' /\ StreamInv' /\ ViewInv'
    BY <1>1 DEF StoryInv, eventLog
  <2>1. QueueInv'
    BY <1>1, <1>6, NothingSaid DEF QueueInv
  <2>2. StreamInv'
    BY <1>1, <1>5 DEF StreamInv
  <2>3. ViewInv'
    <3>1. Known' = Known
      BY <1>1 DEF Known
    <3>. QED  BY <1>1, <3>1 DEF StoryInv, ViewInv
  <2>. QED  BY <2>1, <2>2, <2>3
<1>. QED  BY <1>2, <1>7, <1>8, <1>9, <1>10 DEF FreshInv

(* The socket opens, before the answer can be there. *)
LEMMA OpenGap ==
  ASSUME LinkFacts, NEW s \in Sockets, OnOpen(s)
  PROVE  GapInv'
<1> USE DEF LinkFacts, GapInv
<1> DEFINE m == IF lastSeenSequence > 0
                THEN [type |-> "reconnect_sync", after |-> lastSeenSequence]
                ELSE [type |-> "get_state", after |-> 0]
<1>1. /\ readyState[s] = "connecting" /\ handler[s] # "none"
      /\ readyState' = [readyState EXCEPT ![s] = "open"]
      /\ asked' = lastSeenSequence
      /\ up' = [up EXCEPT ![s] = Append(@, m)]
      /\ UNCHANGED <<ws, lastSeenSequence, seen, view, synced, at, down,
                     handler, eventLog, events>>
  BY DEF OnOpen, room
<1>2. s = ws /\ readyState \in [Sockets -> {"none", "connecting", "open", "closed"}]
  BY <1>1 DEF LinkInv, OnlyNewestIsLive, BrowserTypes, Live
<1>3. LogTypes' /\ NumberingInv'
  BY <1>1, LogStays
<1>4. PICK request \in Requests : request = m
  <2>1. m \in Requests
    BY DEF Requests, TalkTypes
  <2>. QED  BY <2>1, Zenon
<1>5. /\ up[s] = <<>> /\ NewsOnly(down[s])
      /\ handler[s] \notin {"syncing", "answering"}
  BY <1>1 DEF FreshInv, FreshSocket
<1>6. request.type = "reconnect_sync" => request.after = asked'
  BY <1>1, <1>4
<1> HIDE DEF m
<1>7. /\ <<>> \in Seq(Requests) /\ Range(<<>>) = {}
      /\ Append(<<>>, request) \in Seq(Requests)
      /\ Range(Append(<<>>, request)) = {request}
  <2>1. PICK none \in Seq(Requests) : none = <<>> /\ Range(none) = {}
    <3>1. <<>> \in Seq(Requests) /\ Range(<<>>) = {}
      BY EmptySeq DEF Range
    <3>. QED  BY <3>1, Zenon
  <2>2. Range(Append(none, request)) = Range(none) \cup {request}
    BY RangeFacts
  <2>3. Append(none, request) \in Seq(Requests)
    BY AppendProperties
  <2>. QED  BY <2>1, <2>2, <2>3
<1>8. /\ up'[s] = Append(<<>>, request)
      /\ \A t \in Sockets \ {s} : up'[t] = up[t]
      /\ up' \in [Sockets -> Seq(Requests)]
  <2>1. up' = [up EXCEPT ![s] = Append(<<>>, request)]
    BY <1>1, <1>4, <1>5
  <2>. QED  BY <1>7, <2>1 DEF TalkTypes
<1>9. TalkTypes'
  BY <1>1, <1>8 DEF TalkTypes
<1>10. ASSUME NEW t \in Sockets PROVE FreshSocket(t)'
  <2>1. FreshSocket(t)
    BY DEF FreshInv
  <2>2. CASE t = s
    BY <1>1, <1>2, <2>1, <2>2 DEF FreshSocket
  <2>3. CASE t # s
    BY <1>1, <1>2, <1>8, <2>1, <2>3 DEF FreshSocket
  <2>. QED  BY <2>2, <2>3
<1>11. ~ synced
  BY <1>1, <1>2 DEF FreshInv, AskedInv
<1>12. AskedInv'
  BY <1>1, <1>2, <1>6, <1>7, <1>8, <1>11 DEF AskedInv
<1>13. StoryInv'
  <2>1. down[ws] \in Seq(Replies)
    BY <1>2 DEF TalkTypes
  <2>2. /\ Orderly(down[ws], Known', FALSE, asked', view')
        /\ ~ Answers(down[ws], Len(down[ws]))
    BY <1>2, <1>5, <2>1, NewsIsOrderly
  <2>3. synced' = FALSE
    BY <1>1, <1>11 DEF TalkTypes
  <2>4. QueueInv'
    BY <1>1, <2>2, <2>3 DEF QueueInv
  <2>5. StreamInv' /\ ViewInv'
    BY <1>1, <1>2, <1>5, <2>2, <2>3 DEF StreamInv, ViewInv
  <2>. QED  BY <2>4, <2>5 DEF StoryInv
<1>. QED  BY <1>3, <1>9, <1>10, <1>12, <1>13 DEF FreshInv

(* The greater of two numbers. *)
LEMMA MaxOfTwo ==
  ASSUME NEW i \in Nat, NEW j \in Nat
  PROVE  Max({i, j}) \in Nat
<1>1. \E x \in {i, j} : \A y \in {i, j} : x >= y
  OBVIOUS
<1>2. Max({i, j}) \in {i, j}
  BY <1>1 DEF Max
<1>. QED  BY <1>2

(* A message is handled: an event is seen from now on, and a state that    *)
(* comes with or after the answer knows of nothing that is not.            *)
LEMMA MessageGap ==
  ASSUME LinkFacts, NEW s \in Sockets, OnMessage(s)
  PROVE  GapInv'
<1> USE DEF LinkFacts, GapInv
<1>1. PICK d \in Seq(Replies) : d = down[s]
  BY DEF TalkTypes
<1>2. d # <<>> /\ Head(d) \in Replies /\ Tail(d) \in Seq(Replies)
  <2>1. d # <<>>
    BY <1>1 DEF OnMessage
  <2>. QED  BY <2>1, HeadTailProperties
<1>3. PICK m \in Replies : m = Head(d)
  BY <1>2
<1>4. /\ readyState[s] = "open"
      /\ down' = [down EXCEPT ![s] = Tail(d)]
      /\ m.type = "game_event" =>
           /\ lastSeenSequence' = Max({lastSeenSequence, m.seq})
           /\ seen' = seen \cup {m.event}
           /\ up' = AskForState(s)
           /\ UNCHANGED <<view, synced>>
      /\ m.type # "game_event" =>
           /\ view' = IF m.view = NoState THEN view ELSE m.view
           /\ synced' = (synced \/ m.answers)
           /\ UNCHANGED <<lastSeenSequence, seen, up>>
      /\ UNCHANGED <<ws, readyState, asked, at, handler, eventLog, events>>
  BY <1>1, <1>3 DEF OnMessage, room
<1>5. /\ s = ws /\ m.type \in {"game_event", "state_update"}
      /\ m.seq \in Nat /\ m.event \in Nat /\ m.view \in Nat \cup {NoState}
      /\ m.answers \in BOOLEAN
  <2>1. s = ws
    BY <1>4 DEF LinkInv, OnlyNewestIsLive, Live
  <2>. QED  BY <2>1 DEF Replies
<1>6. LogTypes' /\ NumberingInv'
  BY <1>4, LogStays
<1> DEFINE request == [type |-> "get_state", after |-> 0]
<1>7. request \in Requests /\ request.type # "reconnect_sync"
  BY DEF Requests
<1> HIDE DEF request
<1>8. /\ up' \in [Sockets -> Seq(Requests)]
      /\ \A t \in Sockets \ {s} : up'[t] = up[t]
      /\ \A x \in Range(up'[s]) : x \in Range(up[s]) \/ x = request
  <2>1. PICK q \in Seq(Requests) : q = up[s]
    BY DEF TalkTypes
  <2>2. Append(q, request) \in Seq(Requests)
        /\ Range(Append(q, request)) = Range(q) \cup {request}
    BY <1>7, RangeFacts, AppendProperties
  <2>3. up' = up \/ up' = [up EXCEPT ![s] = Append(q, request)]
    BY <1>4, <2>1 DEF AskForState, Send, request
  <2>4. CASE up' = up
    BY <2>4 DEF TalkTypes
  <2>5. CASE up' = [up EXCEPT ![s] = Append(q, request)]
    <3> DEFINE grown == Append(q, request)
    <3>1. grown \in Seq(Requests) /\ Range(grown) = Range(q) \cup {request}
      BY <2>2
    <3> HIDE DEF grown
    <3>2. up' = [up EXCEPT ![s] = grown]
      BY <2>5 DEF grown
    <3>3. /\ up' \in [Sockets -> Seq(Requests)] /\ up'[s] = grown
          /\ \A t \in Sockets \ {s} : up'[t] = up[t]
      BY <3>1, <3>2 DEF TalkTypes
    <3>. QED  BY <2>1, <3>1, <3>3
  <2>. QED  BY <2>3, <2>4, <2>5
<1>9. TalkTypes'
  <2>1. down' \in [Sockets -> Seq(Replies)]
    BY <1>2, <1>4 DEF TalkTypes
  <2>2. lastSeenSequence' \in Nat
    BY <1>4, <1>5, MaxOfTwo DEF TalkTypes
  <2>3. seen' \in SUBSET Nat /\ view' \in Nat /\ synced' \in BOOLEAN
    BY <1>4, <1>5 DEF TalkTypes
  <2>. QED  BY <1>4, <1>8, <2>1, <2>2, <2>3 DEF TalkTypes
<1>10. ASSUME NEW t \in Sockets PROVE FreshSocket(t)'
  <2>1. FreshSocket(t)
    BY DEF FreshInv
  <2>2. CASE t = s
    BY <1>4, <1>5, <2>1, <2>2 DEF FreshSocket, LinkInv, BrowserTypes
  <2>3. CASE t # s
    <3>1. down'[t] = down[t] /\ up'[t] = up[t]
      BY <1>4, <1>8, <2>3 DEF TalkTypes
    <3>. QED  BY <1>4, <2>1, <3>1 DEF FreshSocket
  <2>. QED  BY <2>2, <2>3
<1>11. AskedInv'
  <2>1. handler[ws] # "none" /\ AskedInv
    BY <1>4, <1>5 DEF FreshInv, FreshSocket
  <2>. QED  BY <1>4, <1>5, <1>7, <1>8, <2>1 DEF AskedInv
<1>12. StoryInv'
  <2> SUFFICES ASSUME at[ws] \in Servers, eventSequence[at[ws]] = events
               PROVE  QueueInv' /\ StreamInv' /\ ViewInv'
    BY <1>4 DEF StoryInv, eventLog
  <2>1. QueueInv /\ StreamInv /\ ViewInv
    BY <1>5 DEF StoryInv
  <2>2. Known \subseteq Known' /\ (m.type = "game_event" => m.event \in Known')
    BY <1>4, <1>5 DEF Known
  <2>3. synced' => synced \/ m.answers
    BY <1>4, <1>5
  <2>4. Orderly(d, Known, synced, asked, view)
    BY <1>1, <1>5, <2>1 DEF QueueInv
  <2>5. /\ Orderly(Tail(d), Known', synced', asked, view')
        /\ ToldBy(d, Len(d)) \subseteq Known' \cup ToldBy(Tail(d), Len(Tail(d)))
        /\ Answers(Tail(d), Len(Tail(d))) => Answers(d, Len(d))
        /\ m.type = "state_update" /\ (synced \/ m.answers) =>
             asked + 1 .. view' \subseteq Known
    <3>1. view' \in {view, Head(d).view}
      BY <1>3, <1>4
    <3>2. /\ Head(d).type = "game_event" => Head(d).event \in Known'
          /\ synced' => synced \/ Head(d).answers
      BY <1>3, <2>2, <2>3
    <3>3. /\ Orderly(Tail(d), Known', synced', asked, view')
          /\ ToldBy(d, Len(d)) \subseteq Known' \cup ToldBy(Tail(d), Len(Tail(d)))
          /\ Answers(Tail(d), Len(Tail(d))) => Answers(d, Len(d))
      BY <1>2, <2>2, <2>4, <3>1, <3>2, FirstIsHandled
    <3>4. Head(d).type = "state_update" /\ (synced \/ Head(d).answers) =>
            asked + 1 .. view' \subseteq Known
      BY <1>2, <2>4, <3>1, FirstIsShown
    <3>. QED  BY <1>3, <3>3, <3>4
  <2>6. down'[ws] = Tail(d)
    BY <1>4, <1>5 DEF TalkTypes
  <2>7. QueueInv'
    BY <1>4, <2>5, <2>6 DEF QueueInv
  <2>8. synced' => synced \/ Answers(d, Len(d))
    <3>1. m.answers => Answers(d, Len(d))
      <4>1. m = d[1] /\ Len(d) \in Nat \ {0}
        BY <1>2, <1>3, HeadTailProperties, EmptySeq
      <4>2. 1 \in 1..Len(d)
        BY <4>1
      <4>. QED  BY <4>1, <4>2 DEF Answers
    <3>. QED  BY <2>3, <3>1
  <2>9. sending' = sending
    BY <1>4 DEF eventLog
  <2>10. StreamInv'
    BY <1>1, <1>4, <1>5, <2>1, <2>2, <2>5, <2>6, <2>8, <2>9 DEF StreamInv
  <2>11. ViewInv'
    <3>1. CASE m.type = "game_event"
      BY <1>4, <2>1, <2>2, <3>1 DEF ViewInv
    <3>2. CASE m.type = "state_update"
      BY <1>4, <2>2, <2>5, <3>2 DEF ViewInv
    <3>. QED  BY <1>5, <3>1, <3>2
  <2>. QED  BY <2>7, <2>10, <2>11
<1>. QED  BY <1>6, <1>9, <1>10, <1>11, <1>12 DEF FreshInv

-----------------------------------------------------------------------------
(* The steps of the servers. *)
LEMMA AcceptGap ==
  ASSUME LinkFacts, NEW s \in Sockets, NEW v \in Servers, Accept(s, v)
  PROVE  GapInv'
<1> USE DEF LinkFacts, GapInv
<1>1. /\ readyState[s] = "connecting" /\ handler[s] = "none"
      /\ at' = [at EXCEPT ![s] = v]
      /\ handler' = [handler EXCEPT ![s] = "registered"]
      /\ UNCHANGED <<ws, readyState, lastSeenSequence, seen, view, asked, synced,
                     up, down, eventLog, events>>
  BY DEF Accept, browser, room
<1>2. s = ws /\ handler'[s] = "registered" /\ down[s] = <<>> /\ ~ synced
      /\ \A t \in Sockets \ {s} : handler'[t] = handler[t]
  <2>1. s = ws
    BY <1>1 DEF LinkInv, OnlyNewestIsLive, Live
  <2>2. down[s] = <<>> /\ ~ synced
    BY <1>1, <2>1 DEF FreshInv, FreshSocket, AskedInv
  <2>. QED  BY <1>1, <2>1, <2>2 DEF HeardInv, ServerTypes
<1>3. LogTypes' /\ NumberingInv'
  BY <1>1, LogStays
<1>4. TalkTypes'
  BY <1>1 DEF TalkTypes
<1>5. ASSUME NEW t \in Sockets PROVE FreshSocket(t)'
  <2>1. FreshSocket(t)
    BY DEF FreshInv
  <2>2. CASE t = s
    BY <1>1, <1>2, <2>1, <2>2 DEF FreshSocket
  <2>3. CASE t # s
    BY <1>1, <1>2, <2>1, <2>3 DEF FreshSocket
  <2>. QED  BY <2>2, <2>3
<1>6. AskedInv'
  BY <1>1, <1>2 DEF FreshInv, AskedInv
<1>7. StoryInv'
  <2>1. QueueInv'
    BY <1>1, <1>2, NothingSaid DEF QueueInv
  <2>2. StreamInv' /\ ViewInv'
    BY <1>1, <1>2, NothingSaid DEF StreamInv, ViewInv
  <2>. QED  BY <2>1, <2>2 DEF StoryInv
<1>. QED  BY <1>3, <1>4, <1>5, <1>6, <1>7 DEF FreshInv

(* A request is taken: the missed events are all that the answer needs. *)
LEMMA ProcessGap ==
  ASSUME LinkFacts, NEW s \in Sockets, Process(s)
  PROVE  GapInv'
<1> USE DEF LinkFacts, GapInv
<1>1. PICK q \in Seq(Requests) : q = up[s]
  BY DEF TalkTypes
<1>2. /\ q # <<>> /\ Tail(q) \in Seq(Requests) /\ Head(q) \in Requests
      /\ Range(q) = {Head(q)} \cup Range(Tail(q))
  <2>1. q # <<>>
    BY <1>1 DEF Process
  <2>. QED  BY <2>1, RangeFacts
<1>3. PICK m \in Requests : m = Head(q)
  BY <1>2
<1> DEFINE b == eventBuffer[at[s]]
           missed == GetEventsAfter(at[s], m.after)
           r == [i \in DOMAIN missed |-> GameEvent(missed[i])]
<1>4. /\ handler[s] = "receiving"
      /\ up' = [up EXCEPT ![s] = Tail(q)]
      /\ m.type = "reconnect_sync" =>
           handler' = [handler EXCEPT ![s] = "syncing"] /\ down' = Sent(s, r)
      /\ m.type # "reconnect_sync" =>
           handler' = [handler EXCEPT ![s] = "answering"] /\ down' = down
      /\ UNCHANGED <<ws, readyState, lastSeenSequence, seen, view, asked, synced,
                     at, eventLog, events>>
  BY <1>1, <1>3 DEF Process, browser, room
<1>5. /\ readyState[s] \notin {"none", "connecting"}
      /\ at[s] \in Servers /\ m.after \in Nat /\ b \in Seq(Events)
  <2>1. readyState[s] \notin {"none", "connecting"}
    BY <1>1, <1>2 DEF FreshInv, FreshSocket
  <2>2. at[s] \in Servers
    BY <1>4 DEF HeardInv, ServerTypes
  <2>3. m.after \in Nat
    BY DEF Requests
  <2>. QED  BY <2>1, <2>2, <2>3 DEF LogTypes
<1>6. PICK late \in Seq(Events) :
        /\ late = missed
        /\ IsLog(b, events) =>
             \A e \in m.after + 1 .. events :
               e + Capacity <= events \/ \E i \in 1..Len(late) : late[i].event = e
  <2>1. missed = Missed(b, m.after)
    BY DEF GetEventsAfter, Missed
  <2>2. PICK log \in Seq(Events) : log = b
    BY <1>5
  <2>3. PICK after \in Nat : after = m.after
    BY <1>5
  <2>4. events \in Nat
    BY DEF LogTypes
  <2> HIDE DEF missed, b
  <2>5. /\ Missed(log, after) \in Seq(Events)
        /\ IsLog(log, events) =>
             \A e \in after + 1 .. events :
               \/ e + Capacity <= events
               \/ \E i \in 1..Len(Missed(log, after)) : Missed(log, after)[i].event = e
    BY <2>4, MissedFacts
  <2>. QED  BY <2>1, <2>2, <2>3, <2>5, Zenon
<1> HIDE DEF missed
<1>7. PICK news \in Seq(Replies) :
        /\ news = r /\ Len(news) = Len(late)
        /\ \A i \in 1..Len(late) : /\ news[i].type = "game_event"
                                   /\ news[i].event = late[i].event
                                   /\ ~ news[i].answers
  <2>1. PICK n \in Nat : n = Len(late)
    BY LenProperties
  <2>2. DOMAIN late = 1..n /\ \A i \in 1..n : late[i] \in Events
    BY <2>1, LenProperties, ElementOfSeq
  <2>3. \A e \in Events : /\ GameEvent(e) \in Replies
                          /\ GameEvent(e).type = "game_event"
                          /\ GameEvent(e).event = e.event
                          /\ ~ GameEvent(e).answers
    BY DEF GameEvent, Events, Replies
  <2>4. r = [i \in 1..n |-> GameEvent(late[i])]
    BY <1>6, <2>2
  <2> HIDE DEF r
  <2>5. r \in [1..n -> Replies] /\ \A i \in 1..n : r[i] = GameEvent(late[i])
    BY <2>2, <2>3, <2>4
  <2>6. r \in Seq(Replies) /\ Len(r) = n
    BY <2>5, IsASeq, LenProperties
  <2>. QED  BY <2>1, <2>2, <2>3, <2>5, <2>6
<1> HIDE DEF r, b
<1>8. LogTypes' /\ NumberingInv'
  BY <1>4, LogStays
<1>9. \A t \in Sockets \ {s} :
        up'[t] = up[t] /\ handler'[t] = handler[t] /\ down'[t] = down[t]
  BY <1>4 DEF TalkTypes, HeardInv, ServerTypes, Sent
<1>10. /\ up'[s] = Tail(q) /\ up' \in [Sockets -> Seq(Requests)]
       /\ handler'[s] = IF m.type = "reconnect_sync" THEN "syncing" ELSE "answering"
  BY <1>2, <1>4 DEF TalkTypes, HeardInv, ServerTypes
<1>11. /\ down' \in [Sockets -> Seq(Replies)]
       /\ down'[s] = IF m.type = "reconnect_sync" /\ readyState[s] \in Live
                     THEN down[s] \o news ELSE down[s]
  <2>1. down[s] \in Seq(Replies)
    BY DEF TalkTypes
  <2>2. down[s] \o news \in Seq(Replies)
    BY <2>1, ConcatProperties
  <2>. QED  BY <1>4, <1>7, <2>2 DEF TalkTypes, Sent
<1>12. TalkTypes'
  BY <1>4, <1>10, <1>11 DEF TalkTypes
<1>13. ASSUME NEW t \in Sockets PROVE FreshSocket(t)'
  <2>1. FreshSocket(t)
    BY DEF FreshInv
  <2>2. CASE t = s
    BY <1>4, <1>5, <1>10, <2>1, <2>2 DEF FreshSocket
  <2>3. CASE t # s
    BY <1>4, <1>9, <2>1, <2>3 DEF FreshSocket
  <2>. QED  BY <2>2, <2>3
<1>14. AskedInv'
  <2>1. AskedInv
    BY DEF FreshInv
  <2>2. handler'[s] # "none"
    BY <1>10
  <2>3. ws \in Sockets => Range(up'[ws]) \subseteq Range(up[ws])
    BY <1>1, <1>2, <1>9, <1>10
  <2>. QED  BY <1>4, <1>9, <2>1, <2>2, <2>3 DEF AskedInv
<1>15. StoryInv'
  <2> SUFFICES ASSUME ws \in Sockets, at[ws] \in Servers, eventSequence[at[ws]] = events
               PROVE  QueueInv' /\ StreamInv' /\ ViewInv'
    BY <1>4 DEF StoryInv, eventLog
  <2>1. QueueInv /\ StreamInv /\ ViewInv
    BY DEF StoryInv
  <2>2. Known' = Known /\ sending' = sending
    BY <1>4 DEF Known, eventLog
  <2>3. ViewInv'
    BY <1>4, <2>1, <2>2 DEF ViewInv
  <2>4. CASE s # ws
    BY <1>4, <1>9, <2>1, <2>2, <2>3, <2>4 DEF QueueInv, StreamInv
  <2>5. CASE s = ws /\ ~ (m.type = "reconnect_sync" /\ readyState[s] \in Live)
    <3>1. down'[ws] = down[ws]
      BY <1>11, <2>5
    <3>2. QueueInv'
      BY <1>4, <2>1, <2>2, <3>1 DEF QueueInv
    <3>3. StreamInv'
      BY <1>4, <1>10, <2>1, <2>2, <2>5, <3>1 DEF StreamInv, Serving
    <3>. QED  BY <2>3, <3>2, <3>3
  <2>6. CASE s = ws /\ m.type = "reconnect_sync" /\ readyState[s] \in Live
    <3>1. PICK d \in Seq(Replies) : d = down[ws]
      BY DEF TalkTypes
    <3>2. PICK c \in Seq(Replies) : c = down'[ws] /\ c = d \o news
      BY <1>11, <1>12, <2>6, <3>1 DEF TalkTypes
    <3>3. /\ Orderly(c, Known, synced, asked, view)
          /\ ToldBy(c, Len(c)) = ToldBy(d, Len(d)) \cup {news[i].event : i \in 1..Len(news)}
      <4>1. Orderly(d, Known, synced, asked, view)
        BY <2>1, <3>1 DEF QueueInv
      <4>2. \A i \in 1..Len(news) : news[i].type = "game_event" /\ ~ news[i].answers
        BY <1>7
      <4>3. /\ Orderly(d \o news, Known, synced, asked, view)
            /\ ToldBy(d \o news, Len(d \o news)) =
                 ToldBy(d, Len(d)) \cup {news[i].event : i \in 1..Len(news)}
        BY <4>1, <4>2, NewsAfter
      <4>. QED  BY <3>2, <4>3
    <3>4. QueueInv'
      BY <1>4, <2>2, <3>2, <3>3 DEF QueueInv
    <3>5. m.after = asked
      <4>1. m \in Range(up[ws])
        BY <1>1, <1>2, <1>3, <2>6
      <4>. QED  BY <2>6, <4>1 DEF FreshInv, AskedInv
    <3>6. IsLog(b, events)
      BY <2>6 DEF NumberingInv, b
    <3>7. asked + 1 .. events \subseteq Known \cup ToldBy(c, Len(c))
      <4> SUFFICES ASSUME NEW e \in asked + 1 .. events, ~ (e + Capacity <= events)
                   PROVE  e \in ToldBy(c, Len(c))
        BY DEF Known, TalkTypes, LogTypes
      <4>1. \E i \in 1..Len(late) : late[i].event = e
        BY <1>6, <3>5, <3>6
      <4>2. PICK i \in 1..Len(news) : news[i].event = e
        BY <1>7, <4>1
      <4>. QED  BY <3>3, <4>2
    <3>8. StreamInv'
      BY <1>4, <2>2, <3>2, <3>7 DEF StreamInv
    <3>. QED  BY <2>3, <3>4, <3>8
  <2>. QED  BY <2>4, <2>5, <2>6
<1>. QED  BY <1>8, <1>12, <1>13, <1>14, <1>15 DEF FreshInv

(* A state is sent as the answer when all events have been sent. *)
LEMMA StateGap ==
  ASSUME LinkFacts, NEW s \in Sockets, SendState(s)
  PROVE  GapInv'
<1> USE DEF LinkFacts, GapInv
<1>. PICK n \in {NoState} \cup IF RoomIsFree THEN {events} ELSE {} :
       down' = Sent(s, <<StateUpdate(n, handler[s] = "syncing")>>)
  BY DEF SendState
<1> DEFINE last == StateUpdate(n, handler[s] = "syncing")
<1>1. /\ handler[s] \in {"syncing", "answering"}
      /\ down' = Sent(s, <<last>>)
      /\ handler' = [handler EXCEPT ![s] = "receiving"]
      /\ UNCHANGED <<ws, readyState, lastSeenSequence, seen, view, asked, synced,
                     at, up, eventLog, events>>
  BY DEF SendState, browser, room
<1>2. PICK m \in Replies :
        /\ m = last /\ m.type = "state_update" /\ m.view = n
        /\ m.answers <=> handler[s] = "syncing"
  <2>1. last \in Replies
    BY DEF StateUpdate, Replies, LogTypes
  <2>2. last.type = "state_update" /\ last.view = n
        /\ (last.answers <=> handler[s] = "syncing")
    BY DEF StateUpdate
  <2> HIDE DEF last
  <2>. QED  BY <2>1, <2>2, Zenon
<1> HIDE DEF last
<1>3. readyState[s] \notin {"none", "connecting"}
  BY <1>1 DEF FreshInv, FreshSocket
<1>4. /\ <<m>> \in Seq(Replies)
      /\ down[s] \o <<m>> \in Seq(Replies)
  <2>1. PICK one \in Seq(Replies) : one = <<m>>
    <3>1. <<m>> \in Seq(Replies)
      OBVIOUS
    <3>. QED  BY <3>1, Zenon
  <2>2. down[s] \in Seq(Replies)
    BY DEF TalkTypes
  <2>. QED  BY <2>1, <2>2, ConcatProperties
<1>5. /\ down' \in [Sockets -> Seq(Replies)]
      /\ down'[s] = IF readyState[s] \in Live THEN down[s] \o <<m>> ELSE down[s]
      /\ \A t \in Sockets \ {s} : down'[t] = down[t] /\ handler'[t] = handler[t]
      /\ handler'[s] = "receiving"
  <2> DEFINE more == down[s] \o <<m>>
  <2>1. more \in Seq(Replies)
    BY <1>4
  <2>2. down' = IF readyState[s] \in Live THEN [down EXCEPT ![s] = more] ELSE down
    BY <1>1, <1>2 DEF Sent
  <2> HIDE DEF more
  <2>3. /\ down' \in [Sockets -> Seq(Replies)]
        /\ down'[s] = IF readyState[s] \in Live THEN more ELSE down[s]
        /\ \A t \in Sockets \ {s} : down'[t] = down[t]
    BY <2>1, <2>2 DEF TalkTypes
  <2>4. handler'[s] = "receiving" /\ \A t \in Sockets \ {s} : handler'[t] = handler[t]
    BY <1>1 DEF HeardInv, ServerTypes
  <2>. QED  BY <2>3, <2>4 DEF more
<1>6. LogTypes' /\ NumberingInv'
  BY <1>1, LogStays
<1>7. TalkTypes'
  BY <1>1, <1>5 DEF TalkTypes
<1>8. ASSUME NEW t \in Sockets PROVE FreshSocket(t)'
  <2>1. FreshSocket(t)
    BY DEF FreshInv
  <2>2. CASE t = s
    BY <1>1, <1>3, <1>5, <2>1, <2>2 DEF FreshSocket
  <2>3. CASE t # s
    BY <1>1, <1>5, <2>1, <2>3 DEF FreshSocket
  <2>. QED  BY <2>2, <2>3
<1>9. AskedInv'
  BY <1>1, <1>5 DEF FreshInv, AskedInv
<1>10. StoryInv'
  <2> SUFFICES ASSUME ws \in Sockets, at[ws] \in Servers, eventSequence[at[ws]] = events
               PROVE  QueueInv' /\ StreamInv' /\ ViewInv'
    BY <1>1 DEF StoryInv, eventLog
  <2>1. QueueInv /\ StreamInv /\ ViewInv
    BY DEF StoryInv
  <2>2. Known' = Known /\ sending' = sending
    BY <1>1 DEF Known, eventLog
  <2>3. ViewInv'
    BY <1>1, <2>1, <2>2 DEF ViewInv
  <2>4. CASE s # ws
    BY <1>1, <1>5, <2>1, <2>2, <2>3, <2>4 DEF QueueInv, StreamInv
  <2>5. CASE s = ws /\ readyState[s] \notin Live
    BY <1>1, <1>5, <2>1, <2>2, <2>3, <2>5 DEF QueueInv, StreamInv
  <2>6. CASE s = ws /\ readyState[s] \in Live
    <3>1. PICK d \in Seq(Replies) : d = down[ws]
      BY DEF TalkTypes
    <3>2. ASSUME NEW x \in {m.view} \cup ShownBy(d, Len(d), view),
                 NEW e \in asked + 1 .. x
          PROVE  e \in Nat /\ asked + 1 <= e /\ e <= events /\ e # sending[at[ws]].event
      <4>1. x \in Int /\ x <= Settled
        BY <1>2, <3>1, ShownIsSettled, StateIsSettled DEF Replies
      <4>2. events \in Nat /\ e \in Int /\ 0 < e /\ e <= Settled
        BY <4>1 DEF TalkTypes, LogTypes, Settled
      <4>3. CASE sending[at[ws]] = Nothing
        BY <4>2, <4>3, NothingIsNoEvent DEF Settled
      <4>4. CASE sending[at[ws]] # Nothing
        <5>1. sending[at[ws]].event = events /\ Settled = events - 1
          BY <4>4 DEF NumberingInv, Settled, RoomIsFree
        <5>. QED  BY <4>2, <5>1
      <4>. QED  BY <4>3, <4>4
    <3>3. synced \/ Answers(d, Len(d)) \/ m.answers =>
            \A x \in {m.view} \cup ShownBy(d, Len(d), view) :
              asked + 1 .. x \subseteq Known \cup ToldBy(d, Len(d))
      <4>1. handler[ws] \in Serving
        BY <1>1, <2>6 DEF Serving
      <4> SUFFICES ASSUME synced \/ Answers(d, Len(d)) \/ m.answers,
                          NEW x \in {m.view} \cup ShownBy(d, Len(d), view),
                          NEW e \in asked + 1 .. x
                   PROVE  e \in Known \cup ToldBy(d, Len(d))
        BY DEF TalkTypes
      <4>2. asked + 1 .. events \subseteq
              Known \cup ToldBy(d, Len(d)) \cup {sending[at[ws]].event}
        BY <1>2, <2>1, <2>6, <3>1, <4>1 DEF StreamInv
      <4>3. /\ e \in Nat /\ asked + 1 <= e /\ e <= events
            /\ e # sending[at[ws]].event
        BY <3>2
      <4>4. e \in asked + 1 .. events
        BY <4>3 DEF TalkTypes, LogTypes
      <4>. QED  BY <4>2, <4>3, <4>4
    <3>4. /\ Orderly(d \o <<m>>, Known, synced, asked, view)
          /\ ToldBy(d \o <<m>>, Len(d \o <<m>>)) = ToldBy(d, Len(d))
          /\ Answers(d \o <<m>>, Len(d \o <<m>>)) <=> Answers(d, Len(d)) \/ m.answers
      <4>1. Orderly(d, Known, synced, asked, view)
        BY <2>1, <3>1 DEF QueueInv
      <4>. QED  BY <1>2, <3>3, <4>1, StateAfter
    <3>5. down'[ws] = d \o <<m>>
      BY <1>5, <2>6, <3>1
    <3>6. QueueInv'
      BY <1>1, <2>2, <3>4, <3>5 DEF QueueInv
    <3>7. StreamInv'
      <4>1. synced \/ Answers(d, Len(d)) \/ m.answers =>
              asked + 1 .. events \subseteq
                Known \cup ToldBy(d, Len(d)) \cup {sending[at[ws]].event}
        BY <1>1, <1>2, <2>1, <2>6, <3>1 DEF StreamInv, Serving
      <4>. QED  BY <1>1, <1>5, <2>2, <2>6, <3>4, <3>5, <4>1 DEF StreamInv
    <3>. QED  BY <2>3, <3>6, <3>7
  <2>. QED  BY <2>4, <2>5, <2>6
<1>. QED  BY <1>6, <1>7, <1>8, <1>9, <1>10 DEF FreshInv

(* An event is logged: nothing is sent yet, and it is being sent. *)
LEMMA LogGap ==
  ASSUME LinkFacts, NEW v \in Servers, LogEvent(v)
  PROVE  GapInv'
<1> USE DEF LinkFacts, GapInv
<1>1. UNCHANGED <<ws, readyState, lastSeenSequence, seen, view, asked, synced,
                  at, up, down, handler>>
  BY DEF LogEvent, browser
<1>2. /\ LogTypes' /\ NumberingInv'
      /\ events' = events + 1 /\ sending'[v].event = events + 1
      /\ \A u \in Servers : sending[u].event = 0
      /\ \A u \in Servers : eventSequence'[u] = events' =>
           u = v /\ eventSequence[u] = events
  BY NewEventIsLogged
<1>3. TalkTypes'
  BY <1>1 DEF TalkTypes
<1>4. FreshInv'
  BY <1>1 DEF FreshInv, FreshSocket, AskedInv
<1>5. StoryInv'
  <2> SUFFICES ASSUME ws \in Sockets, at[ws] \in Servers,
                      eventSequence'[at[ws]] = events'
               PROVE  QueueInv' /\ StreamInv' /\ ViewInv'
    BY <1>1 DEF StoryInv
  <2>1. at[ws] = v /\ QueueInv /\ StreamInv /\ ViewInv
    BY <1>2 DEF StoryInv
  <2>2. Known \subseteq Known'
    BY <1>1, <1>2, LinkBounds DEF Known, LogTypes
  <2>3. QueueInv'
    BY <1>1, <2>1, <2>2, MoreIsKnown DEF QueueInv
  <2>4. ViewInv'
    BY <1>1, <2>1, <2>2 DEF ViewInv
  <2>5. StreamInv'
    <3> DEFINE d == down[ws]
    <3> SUFFICES ASSUME readyState[ws] \in Live, handler[ws] \in Serving,
                        synced \/ Answers(d, Len(d)) \/ handler[ws] = "syncing"
                 PROVE  asked + 1 .. events + 1 \subseteq
                          Known' \cup ToldBy(d, Len(d)) \cup {events + 1}
      BY <1>1, <1>2, <2>1 DEF StreamInv
    <3>1. asked + 1 .. events \subseteq Known \cup ToldBy(d, Len(d)) \cup {0}
      BY <1>2, <2>1 DEF StreamInv
    <3>2. ASSUME NEW e \in asked + 1 .. events + 1, e # events + 1
          PROVE  e \in asked + 1 .. events /\ e # 0
      BY <3>2 DEF TalkTypes, LogTypes
    <3> HIDE DEF d
    <3>. QED  BY <2>2, <3>1, <3>2
  <2>. QED  BY <2>3, <2>4, <2>5
<1>. QED  BY <1>2, <1>3, <1>4, <1>5

(* An event that is sent to the player reaches his newest socket or none.  *)
LEMMA ToPlayerFacts ==
  ASSUME LinkFacts, NEW v \in Servers, NEW e \in Events
  PROVE  /\ ToPlayer(v, e) \in [Sockets -> Seq(Replies)]
         /\ <<GameEvent(e)>> \in Seq(Replies)
         /\ \A t \in Sockets :
              \/ ToPlayer(v, e)[t] = down[t]
              \/ /\ ToPlayer(v, e)[t] = down[t] \o <<GameEvent(e)>>
                 /\ handler[t] \in Serving
         /\ ws \in Sockets /\ at[ws] = v /\ handler[ws] \in Serving
              /\ readyState[ws] \in Live =>
                ToPlayer(v, e)[ws] = down[ws] \o <<GameEvent(e)>>
<1> USE DEF LinkFacts, GapInv
<1>1. PICK m \in Replies : m = GameEvent(e)
  <2>1. GameEvent(e) \in Replies
    BY DEF GameEvent, Events, Replies
  <2>. QED  BY <2>1, Zenon
<1>2. PICK one \in Seq(Replies) : one = <<m>>
  <2>1. <<m>> \in Seq(Replies)
    OBVIOUS
  <2>. QED  BY <2>1, Zenon
<1>3. PICK c : c = connections[v] /\ c \in 0..MaxSockets
  BY DEF HeardInv, ServerTypes
<1>4. CASE c # 0 /\ handler[c] \in Serving /\ readyState[c] \in Live
  <2>1. c \in Sockets
    BY <1>3, <1>4, LinkBounds DEF Sockets
  <2>2. down[c] \in Seq(Replies)
    BY <2>1 DEF TalkTypes
  <2> DEFINE more == down[c] \o one
  <2>3. more \in Seq(Replies)
    BY <2>2, ConcatProperties
  <2>4. ToPlayer(v, e) = [down EXCEPT ![c] = more]
    BY <1>1, <1>2, <1>3, <1>4 DEF ToPlayer, Sent
  <2> HIDE DEF more
  <2>5. /\ ToPlayer(v, e) \in [Sockets -> Seq(Replies)]
        /\ ToPlayer(v, e)[c] = more
        /\ \A t \in Sockets \ {c} : ToPlayer(v, e)[t] = down[t]
    BY <2>1, <2>3, <2>4 DEF TalkTypes
  <2>6. c = ws
    BY <1>4, <2>1 DEF LinkInv, OnlyNewestIsLive
  <2>. QED  BY <1>1, <1>2, <1>4, <2>5, <2>6 DEF more
<1>5. CASE ~ (c # 0 /\ handler[c] \in Serving /\ readyState[c] \in Live)
  <2>1. ToPlayer(v, e) = down
    BY <1>3, <1>5 DEF ToPlayer, Sent
  <2>2. ws \in Sockets /\ at[ws] = v /\ handler[ws] \in Serving => c = ws /\ c # 0
    BY <1>3 DEF HeardInv, ServedIsRegistered, Sockets
  <2>3. ~ (ws \in Sockets /\ at[ws] = v /\ handler[ws] \in Serving
           /\ readyState[ws] \in Live)
    BY <1>5, <2>2
  <2>. QED  BY <1>1, <1>2, <2>1, <2>3 DEF TalkTypes
<1>. QED  BY <1>4, <1>5

(* So it keeps the order on the way to the browser. *)
LEMMA SpreadGap ==
  ASSUME LinkFacts, NEW v \in Servers,
         \/ Broadcast(v)
         \/ \E e \in inbox[v] : Hear(v, e)
         \/ \E e \in logging[v] : LogRemote(v, e)
  PROVE  GapInv'
<1> USE DEF LinkFacts, GapInv
<1>1. /\ UNCHANGED <<ws, readyState, lastSeenSequence, seen, view, asked, synced,
                     at, up, handler, eventSequence, events>>
      /\ LogTypes' /\ NumberingInv'
  <2>1. UNCHANGED <<ws, readyState, lastSeenSequence, seen, view, asked, synced,
                    at, up, handler, eventSequence, events>>
    BY DEF Broadcast, Hear, LogRemote, browser, room
  <2>. QED  BY <2>1, SpreadKeepsLog
<1>2. CASE \E e \in logging[v] : LogRemote(v, e)
  <2>1. down' = down /\ sending' = sending
    BY <1>2 DEF LogRemote
  <2>2. TalkTypes' /\ FreshInv'
    BY <1>1, <2>1 DEF TalkTypes, FreshInv, FreshSocket, AskedInv
  <2>3. Known' = Known
    BY <1>1 DEF Known
  <2>4. StoryInv'
    BY <1>1, <2>1, <2>3 DEF StoryInv, QueueInv, StreamInv, ViewInv
  <2>. QED  BY <1>1, <2>2, <2>4
<1>3. CASE Broadcast(v) \/ \E e \in inbox[v] : Hear(v, e)
  <2>1. PICK e \in Events :
          /\ down' = ToPlayer(v, e)
          /\ \/ Broadcast(v) /\ e = sending[v]
             \/ e \in inbox[v] /\ sending' = sending
    <3>1. CASE Broadcast(v)
      BY <3>1 DEF Broadcast, LogTypes
    <3>2. ASSUME NEW e \in inbox[v], Hear(v, e)
          PROVE  e \in Events /\ down' = ToPlayer(v, e) /\ sending' = sending
      BY <3>2 DEF Hear, LogTypes
    <3>. QED  BY <1>3, <3>1, <3>2
  <2>2. PICK news \in Seq(Replies) :
          /\ news = <<GameEvent(e)>> /\ {news[i].event : i \in 1..Len(news)} = {e.event}
          /\ \A i \in 1..Len(news) : news[i].type = "game_event" /\ ~ news[i].answers
    <3>1. <<GameEvent(e)>> \in Seq(Replies)
      BY ToPlayerFacts
    <3>2. PICK m : m = GameEvent(e) /\ m.type = "game_event" /\ ~ m.answers /\ m.event = e.event
      <4>1. /\ GameEvent(e).type = "game_event" /\ ~ GameEvent(e).answers
            /\ GameEvent(e).event = e.event
        BY DEF GameEvent
      <4>. QED  BY <4>1, Zenon
    <3>3. Len(<<m>>) = 1 /\ <<m>>[1] = m /\ 1..1 = {1}
      OBVIOUS
    <3>4. PICK news \in Seq(Replies) :
            news = <<GameEvent(e)>> /\ Len(news) = 1 /\ news[1] = m
      BY <3>1, <3>2, <3>3
    <3>5. 1..Len(news) = {1}
      BY <3>3, <3>4
    <3>6. {news[i].event : i \in 1..Len(news)} = {e.event}
      BY <3>2, <3>4, <3>5
    <3>. QED  BY <3>2, <3>4, <3>5, <3>6
  <2>3. /\ down' \in [Sockets -> Seq(Replies)]
        /\ \A t \in Sockets :
             \/ down'[t] = down[t]
             \/ down'[t] = down[t] \o news /\ handler[t] \in Serving
        /\ ws \in Sockets /\ at[ws] = v /\ handler[ws] \in Serving
             /\ readyState[ws] \in Live => down'[ws] = down[ws] \o news
    BY <2>1, <2>2, ToPlayerFacts
  <2>4. TalkTypes'
    BY <1>1, <2>3 DEF TalkTypes
  <2>5. ASSUME NEW t \in Sockets PROVE FreshSocket(t)'
    <3>1. FreshSocket(t) /\ down[t] \in Seq(Replies)
      BY DEF FreshInv, TalkTypes
    <3>2. NewsOnly(down[t]) => NewsOnly(down[t] \o news)
      BY <2>2, <3>1, NewsAfter
    <3>3. down'[t] = down[t] \/ (handler[t] # "none" /\ down'[t] = down[t] \o news)
      BY <2>3 DEF Serving
    <3>4. NewsOnly(down[t]) => NewsOnly(down'[t])
      BY <3>2, <3>3
    <3>. QED  BY <1>1, <3>1, <3>3, <3>4 DEF FreshSocket
  <2>6. AskedInv'
    BY <1>1 DEF FreshInv, AskedInv
  <2>7. StoryInv'
    <3> SUFFICES ASSUME ws \in Sockets, at[ws] \in Servers, eventSequence[at[ws]] = events
                 PROVE  QueueInv' /\ StreamInv' /\ ViewInv'
      BY <1>1 DEF StoryInv
    <3>1. QueueInv /\ StreamInv /\ ViewInv
      BY DEF StoryInv
    <3>2. Known' = Known
      BY <1>1 DEF Known
    <3>3. ViewInv'
      BY <1>1, <3>1, <3>2 DEF ViewInv
    <3>4. PICK d \in Seq(Replies) : d = down[ws]
      BY DEF TalkTypes
    <3>5. /\ Orderly(d \o news, Known, synced, asked, view)
          /\ ToldBy(d \o news, Len(d \o news)) = ToldBy(d, Len(d)) \cup {e.event}
          /\ Answers(d \o news, Len(d \o news)) <=> Answers(d, Len(d))
      <4>1. Orderly(d, Known, synced, asked, view)
        BY <3>1, <3>4 DEF QueueInv
      <4>2. /\ Orderly(d \o news, Known, synced, asked, view)
            /\ ToldBy(d \o news, Len(d \o news)) =
                 ToldBy(d, Len(d)) \cup {news[i].event : i \in 1..Len(news)}
            /\ Answers(d \o news, Len(d \o news)) <=> Answers(d, Len(d))
        BY <2>2, <4>1, NewsAfter
      <4>. QED  BY <2>2, <4>2
    <3>6. down'[ws] = d \/ down'[ws] = d \o news
      BY <2>3, <3>4
    <3>7. QueueInv'
      BY <1>1, <3>1, <3>2, <3>4, <3>5, <3>6 DEF QueueInv
    <3>8. \/ sending'[at[ws]] = sending[at[ws]]
          \/ at[ws] = v /\ e = sending[v]
      <4>1. CASE Broadcast(v) /\ e = sending[v] /\ at[ws] # v
        <5>1. sending' = [sending EXCEPT ![v] = Nothing]
          BY <4>1 DEF Broadcast
        <5>. QED  BY <4>1, <5>1 DEF LogTypes
      <4>. QED  BY <2>1, <4>1
    <3>9. ASSUME readyState[ws] \in Live, handler[ws] \in Serving
          PROVE  ToldBy(d, Len(d)) \cup {sending[at[ws]].event} \subseteq
                   ToldBy(down'[ws], Len(down'[ws])) \cup {sending'[at[ws]].event}
      <4>1. CASE at[ws] = v
        <5>1. down'[ws] = d \o news
          BY <2>3, <3>4, <3>9, <4>1
        <5>. QED  BY <3>5, <3>8, <4>1, <5>1
      <4>2. CASE at[ws] # v
        BY <3>5, <3>6, <3>8, <4>2
      <4>. QED  BY <4>1, <4>2
    <3>10. Answers(down'[ws], Len(down'[ws])) <=> Answers(d, Len(d))
      BY <3>5, <3>6
    <3>11. StreamInv'
      <4> SUFFICES ASSUME readyState[ws] \in Live, handler[ws] \in Serving,
                          \/ synced \/ Answers(down'[ws], Len(down'[ws]))
                          \/ handler[ws] = "syncing"
                   PROVE  asked + 1 .. events \subseteq
                            Known \cup ToldBy(down'[ws], Len(down'[ws]))
                              \cup {sending'[at[ws]].event}
        BY <1>1, <3>2 DEF StreamInv
      <4>1. asked + 1 .. events \subseteq
              Known \cup ToldBy(d, Len(d)) \cup {sending[at[ws]].event}
        BY <3>1, <3>4, <3>10 DEF StreamInv
      <4>2. ToldBy(d, Len(d)) \cup {sending[at[ws]].event} \subseteq
              ToldBy(down'[ws], Len(down'[ws])) \cup {sending'[at[ws]].event}
        BY <3>9
      <4>. QED  BY <4>1, <4>2, Zenon
    <3>. QED  BY <3>3, <3>7, <3>11
  <2>. QED  BY <1>1, <2>4, <2>5, <2>6, <2>7 DEF FreshInv
<1>. QED  BY <1>2, <1>3

-----------------------------------------------------------------------------
(* It holds at first. *)
LEMMA GapInit == Init => GapInv
<1> SUFFICES ASSUME Init PROVE GapInv
  OBVIOUS
<1>1. /\ <<>> \in Seq(Requests) /\ <<>> \in Seq(Replies) /\ <<>> \in Seq(Events)
      /\ Len(<<>>) = 0 /\ Range(<<>>) = {}
  BY EmptySeq DEF Range
<1>2. TalkTypes
  BY <1>1 DEF Init, TalkTypes
<1>3. LogTypes
  BY <1>1, NothingIsNoEvent DEF Init, LogTypes
<1>4. IsLog(<<>>, 0)
  BY <1>1, LinkBounds DEF IsLog
<1>5. NumberingInv
  BY <1>4 DEF Init, NumberingInv
<1>6. ws \notin Sockets /\ ~ synced
  BY DEF Init, Sockets
<1>7. FreshInv
  BY <1>6, NothingSaid DEF Init, FreshInv, FreshSocket, AskedInv
<1>8. StoryInv
  BY <1>6 DEF StoryInv
<1>. QED  BY <1>2, <1>3, <1>5, <1>7, <1>8 DEF GapInv

(* So every step preserves it. *)
LEMMA GapNext == LinkFacts /\ [Next]_vars => GapInv'
<1> SUFFICES ASSUME LinkFacts, [Next]_vars PROVE GapInv'
  OBVIOUS
<1>1. CASE UNCHANGED vars
  <2>1. UNCHANGED <<browser, at, down, eventLog, events, up, handler>>
    BY <1>1 DEF vars, room
  <2>2. up \in [Sockets -> Seq(Requests)]
    BY DEF LinkFacts, GapInv, TalkTypes
  <2>. QED  BY <2>1, <2>2, HandlerMoves
<1>2. CASE StartGame \/ Reconnect
  BY <1>2, ConnectGap DEF StartGame, Reconnect
<1>3. CASE Disconnect \/ \E s \in Sockets : OnClose(s)
  BY <1>3, CloseGap
<1>4. CASE \E s \in Sockets : OnOpen(s) \/ OnMessage(s)
  BY <1>4, OpenGap, MessageGap
<1>5. CASE \/ \E s \in Sockets : Attach(s) \/ SessionNotFound(s) \/ Leave(s)
           \/ \E v \in Servers : CleanupStaleConnections(v) \/ CleanupRoom(v)
  BY <1>5, QuietHandlers
<1>6. CASE \E s \in Sockets : Process(s) \/ SendState(s)
  BY <1>6, ProcessGap, StateGap
<1>7. CASE \E v \in Servers : \E s \in Sockets : Accept(s, v)
  BY <1>7, AcceptGap
<1>8. CASE \E v \in Servers : EndRound(v)
  BY <1>8, LogGap DEF EndRound
<1>9. ASSUME NEW v \in Servers, Grace(v) PROVE GapInv'
  <2>1. CASE LogEvent(v)
    BY <2>1, LogGap
  <2>2. CASE ~ LogEvent(v)
    <3>1. UNCHANGED <<browser, at, down, eventLog, events, up, handler>>
      BY <1>9, <2>2 DEF Grace, room
    <3>2. up \in [Sockets -> Seq(Requests)]
      BY DEF LinkFacts, GapInv, TalkTypes
    <3>. QED  BY <3>1, <3>2, HandlerMoves
  <2>. QED  BY <2>1, <2>2
<1>10. CASE \E v \in Servers : \/ Broadcast(v)
                               \/ \E e \in inbox[v] : Hear(v, e)
                               \/ \E e \in logging[v] : LogRemote(v, e)
  BY <1>10, SpreadGap
<1>. QED
  BY <1>1, <1>2, <1>3, <1>4, <1>5, <1>6, <1>7, <1>8, <1>9, <1>10 DEF Next

(* Where nothing is said but what was said before, or no more than is      *)
(* settled, the states stay settled. *)
LEMMA MoreIsSettled ==
  ASSUME NEW d \in Seq(Replies), NEW r \in Seq(Replies), NEW n \in Int, NEW k \in Int,
         ViewsWithin(d, n), n <= k, \A i \in 1..Len(r) : r[i].view <= k
  PROVE  ViewsWithin(d, k) /\ ViewsWithin(d \o r, k)
<1>1. ViewsWithin(d, k)
  <2> SUFFICES ASSUME NEW m \in Range(d) PROVE m.view <= k
    BY DEF ViewsWithin
  <2>1. m \in Replies
    BY RangeFacts
  <2>2. m.view \in Int
    BY <2>1 DEF Replies, NoState
  <2>. QED  BY <2>2 DEF ViewsWithin
<1>2. ViewsWithin(d \o r, k)
  <2>1. PICK c \in Seq(Replies) :
          /\ c = d \o r /\ Len(c) = Len(d) + Len(r)
          /\ \A j \in 1..Len(d) : c[j] = d[j]
          /\ \A j \in 1..Len(r) : c[Len(d) + j] = r[j]
    BY SaidBefore
  <2> SUFFICES ASSUME NEW m \in Range(c) PROVE m.view <= k
    BY <2>1 DEF ViewsWithin
  <2>2. PICK j \in 1..Len(c) : m = c[j]
    BY RangeEquality
  <2>3. Len(d) \in Nat /\ Len(r) \in Nat
    BY LenProperties
  <2>4. CASE j <= Len(d)
    <3>1. j \in 1..Len(d) /\ m = d[j]
      BY <2>1, <2>2, <2>3, <2>4
    <3>2. m \in Range(d)
      BY <3>1, RangeEquality
    <3>. QED  BY <1>1, <3>2 DEF ViewsWithin
  <2>5. CASE j > Len(d)
    <3>1. j - Len(d) \in 1..Len(r) /\ Len(d) + (j - Len(d)) = j
      BY <2>1, <2>3, <2>5
    <3>. QED  BY <2>1, <2>2, <3>1
  <2>. QED  BY <2>3, <2>4, <2>5
<1>. QED  BY <1>1, <1>2

LEMMA SettledStays ==
  ASSUME TalkTypes, LogTypes, LogTypes', SettledInv, Settled <= Settled', view' = view,
         \A s \in Sockets :
           \/ down'[s] = down[s] \/ down'[s] = <<>>
           \/ \E r \in Seq(Replies) :
                down'[s] = down[s] \o r /\ \A i \in 1..Len(r) : r[i].view <= Settled
  PROVE  SettledInv'
<1>1. Settled \in Int /\ Settled' \in Int
  BY DEF LogTypes, Settled
<1>2. view' <= Settled'
  BY <1>1 DEF TalkTypes, SettledInv
<1>3. ASSUME NEW s \in Sockets PROVE ViewsWithin(down'[s], Settled')
  <2>1. PICK d \in Seq(Replies) : d = down[s] /\ ViewsWithin(d, Settled)
    BY DEF TalkTypes, SettledInv
  <2>2. <<>> \in Seq(Replies) /\ 1..Len(<<>>) = {} /\ Range(<<>>) = {}
    BY EmptySeq DEF Range
  <2>3. ViewsWithin(d, Settled')
    BY <1>1, <2>1, <2>2, MoreIsSettled
  <2>4. ViewsWithin(<<>>, Settled')
    BY <2>2 DEF ViewsWithin
  <2>5. ASSUME NEW r \in Seq(Replies), \A i \in 1..Len(r) : r[i].view <= Settled
        PROVE  ViewsWithin(d \o r, Settled')
    <3>1. ASSUME NEW i \in 1..Len(r) PROVE r[i].view <= Settled'
      <4>1. r[i] \in Replies
        BY ElementOfSeq
      <4>2. r[i].view \in Int
        BY <4>1 DEF Replies, NoState
      <4>. QED  BY <1>1, <2>5, <4>2
    <3>. QED  BY <1>1, <2>1, <3>1, MoreIsSettled
  <2>. QED  BY <2>1, <2>3, <2>4, <2>5
<1>. QED  BY <1>2, <1>3 DEF SettledInv

(* The browser takes a message, and shows what it says. *)
LEMMA MessageSettled ==
  ASSUME LinkFacts, NEW s \in Sockets, OnMessage(s)
  PROVE  SettledInv'
<1> USE DEF LinkFacts, GapInv
<1>1. PICK d \in Seq(Replies) : d = down[s] /\ d # <<>>
  BY DEF TalkTypes, OnMessage
<1>2. /\ Head(d) \in Range(d)
      /\ Tail(d) \in Seq(Replies) /\ Range(Tail(d)) \subseteq Range(d)
  BY <1>1, RangeFacts
<1>3. /\ down' = [down EXCEPT ![s] = Tail(d)]
      /\ view' = view \/ view' = Head(d).view
      /\ UNCHANGED <<events, sending>>
  BY <1>1 DEF OnMessage, eventLog, room
<1>4. Settled' = Settled /\ ViewsWithin(d, Settled)
  BY <1>1, <1>3 DEF Settled, RoomIsFree, SettledInv
<1>5. view' <= Settled'
  BY <1>2, <1>3, <1>4 DEF SettledInv, ViewsWithin
<1>6. ASSUME NEW t \in Sockets PROVE ViewsWithin(down'[t], Settled')
  BY <1>2, <1>3, <1>4 DEF SettledInv, ViewsWithin, TalkTypes
<1>. QED  BY <1>5, <1>6 DEF SettledInv

(* The missed events are sent. *)
LEMMA ProcessSettled ==
  ASSUME LinkFacts, GapInv', NEW s \in Sockets, Process(s)
  PROVE  SettledInv'
<1> USE DEF LinkFacts, GapInv
<1>1. /\ UNCHANGED <<view, events, sending>>
      /\ \/ down' = down
         \/ LET missed == GetEventsAfter(at[s], Head(up[s]).after)
            IN  down' = Sent(s, [i \in DOMAIN missed |-> GameEvent(missed[i])])
  BY DEF Process, browser, eventLog, room
<1>2. at[s] \in Servers /\ Head(up[s]).after \in Nat
  <2>1. at[s] \in Servers
    BY DEF Process, HeardInv, ServerTypes
  <2>2. up[s] \in Seq(Requests) /\ up[s] # <<>>
    BY DEF Process, TalkTypes
  <2>3. Head(up[s]) \in Requests
    BY <2>2, RangeFacts
  <2>. QED  BY <2>1, <2>3 DEF Requests
<1>3. PICK missed \in Seq(Events) : missed = GetEventsAfter(at[s], Head(up[s]).after)
  <2>1. PICK b \in Seq(Events), after \in Nat :
          b = eventBuffer[at[s]] /\ after = Head(up[s]).after
    BY <1>2 DEF LogTypes
  <2>2. Missed(b, after) \in Seq(Events)
    BY MissedFacts DEF LogTypes
  <2>3. GetEventsAfter(at[s], Head(up[s]).after) = Missed(b, after)
    BY <2>1 DEF GetEventsAfter, Missed
  <2>. QED  BY <2>2, <2>3, Zenon
<1> DEFINE news == [i \in DOMAIN missed |-> GameEvent(missed[i])]
<1>4. PICK r \in Seq(Replies) : r = news /\ \A i \in 1..Len(r) : r[i].view = 0
  <2>1. PICK n \in Nat : n = Len(missed)
    BY LenProperties
  <2>2. DOMAIN missed = 1..n /\ \A i \in 1..n : missed[i] \in Events
    BY <2>1, LenProperties, ElementOfSeq
  <2>3. \A e \in Events : GameEvent(e) \in Replies /\ GameEvent(e).view = 0
    BY DEF GameEvent, Events, Replies
  <2>4. news \in [1..n -> Replies] /\ \A i \in 1..n : news[i].view = 0
    BY <2>2, <2>3
  <2> HIDE DEF news
  <2>5. news \in Seq(Replies) /\ Len(news) = n
    BY <2>4, IsASeq, LenProperties
  <2>. QED  BY <2>4, <2>5
<1>5. Settled' = Settled /\ 0 <= Settled /\ \A i \in 1..Len(r) : r[i].view <= Settled
  <2>1. Settled' = Settled /\ 0 <= Settled
    BY <1>1 DEF Settled, RoomIsFree, SettledInv, TalkTypes, LogTypes
  <2>. QED  BY <1>4, <2>1
<1>6. ASSUME NEW t \in Sockets
      PROVE  down'[t] = down[t] \/ down'[t] = down[t] \o r
  <2>1. down' = down \/ down' = Sent(s, r)
    BY <1>1, <1>3, <1>4
  <2>. QED  BY <2>1 DEF Sent, TalkTypes
<1>7. Settled \in Int
  BY DEF Settled, LogTypes
<1>8. Settled <= Settled'
  BY <1>5, <1>7
<1> HIDE DEF news, GapInv
<1>. QED  BY <1>1, <1>4, <1>5, <1>6, <1>8, SettledStays DEF GapInv

(* A state, or none, is sent. *)
LEMMA StateSettled ==
  ASSUME LinkFacts, GapInv', NEW s \in Sockets, SendState(s)
  PROVE  SettledInv'
<1> USE DEF LinkFacts, GapInv
<1>1. PICK n \in {NoState} \cup IF RoomIsFree THEN {events} ELSE {} :
        down' = Sent(s, <<StateUpdate(n, handler[s] = "syncing")>>)
  BY DEF SendState
<1>2. UNCHANGED <<view, events, sending>>
  BY DEF SendState, browser, eventLog, room
<1>3. n \in Nat \cup {NoState} /\ n <= Settled
  BY StateIsSettled DEF LogTypes
<1>4. PICK m \in Replies : m = StateUpdate(n, handler[s] = "syncing") /\ m.view = n
  <2>1. /\ StateUpdate(n, handler[s] = "syncing") \in Replies
        /\ StateUpdate(n, handler[s] = "syncing").view = n
    BY <1>3 DEF StateUpdate, Replies
  <2>. QED  BY <2>1, Zenon
<1>5. PICK r \in Seq(Replies) : r = <<m>> /\ \A i \in 1..Len(r) : r[i].view <= Settled
  <2>1. <<m>> \in Seq(Replies) /\ Len(<<m>>) = 1 /\ <<m>>[1] = m
    OBVIOUS
  <2>2. PICK r \in Seq(Replies) : r = <<m>> /\ Len(r) = 1 /\ r[1] = m
    BY <2>1, Zenon
  <2>3. \A i \in 1..Len(r) : i = 1
    BY <2>2
  <2>4. m.view <= Settled
    BY <1>3, <1>4
  <2>5. \A i \in 1..Len(r) : r[i].view <= Settled
    BY <2>2, <2>3, <2>4
  <2>. QED  BY <2>2, <2>5
<1>6. \A t \in Sockets : down'[t] = down[t] \/ down'[t] = down[t] \o r
  BY <1>1, <1>4, <1>5 DEF Sent, TalkTypes
<1>7. Settled <= Settled'
  BY <1>2 DEF Settled, RoomIsFree, LogTypes
<1>. QED  BY <1>2, <1>5, <1>6, <1>7, SettledStays

(* An event is sent on.  When it has been sent, states may know of it. *)
LEMMA SpreadSettled ==
  ASSUME LinkFacts, GapInv', NEW v \in Servers,
         Broadcast(v) \/ \E e \in inbox[v] : Hear(v, e)
  PROVE  SettledInv'
<1> USE DEF LinkFacts, GapInv
<1>1. PICK e \in Events : down' = ToPlayer(v, e)
  BY DEF Broadcast, Hear, LogTypes
<1>2. UNCHANGED <<view, events>> /\ (sending' = sending \/ sending' = [sending EXCEPT ![v] = Nothing])
  BY DEF Broadcast, Hear, browser, room
<1>3. Settled <= Settled' /\ Settled \in Int /\ 0 <= Settled
  <2>1. RoomIsFree => RoomIsFree'
    BY <1>2 DEF RoomIsFree, LogTypes
  <2>. QED  BY <1>2, <2>1 DEF Settled, LogTypes, SettledInv, TalkTypes
<1>4. PICK m \in Replies : m = GameEvent(e) /\ m.view = 0
  <2>1. GameEvent(e) \in Replies /\ GameEvent(e).view = 0
    BY DEF GameEvent, Events, Replies
  <2>. QED  BY <2>1, Zenon
<1>5. PICK r \in Seq(Replies) : r = <<m>> /\ \A i \in 1..Len(r) : r[i].view <= Settled
  <2>1. <<m>> \in Seq(Replies) /\ Len(<<m>>) = 1 /\ <<m>>[1] = m
    OBVIOUS
  <2>2. PICK r \in Seq(Replies) : r = <<m>> /\ Len(r) = 1 /\ r[1] = m
    BY <2>1, Zenon
  <2>3. \A i \in 1..Len(r) : i = 1
    BY <2>2
  <2>4. m.view <= Settled
    BY <1>3, <1>4
  <2>5. \A i \in 1..Len(r) : r[i].view <= Settled
    BY <2>2, <2>3, <2>4
  <2>. QED  BY <2>2, <2>5
<1>6. \A t \in Sockets : down'[t] = down[t] \/ down'[t] = down[t] \o r
  BY <1>1, <1>4, <1>5, ToPlayerFacts
<1>. QED  BY <1>2, <1>3, <1>5, <1>6, SettledStays

(* All other steps say nothing. *)
LEMMA SettledNext == LinkFacts /\ [Next]_vars /\ GapInv' => SettledInv'
<1> SUFFICES ASSUME LinkFacts, [Next]_vars, GapInv' PROVE SettledInv'
  OBVIOUS
<1> USE DEF LinkFacts, GapInv
<1>1. ASSUME view' = view, \A s \in Sockets : down'[s] = down[s] \/ down'[s] = <<>>,
             \/ UNCHANGED <<events, sending>>
             \/ events' = events + 1 /\ RoomIsFree
      PROVE  SettledInv'
  <2>1. Settled <= Settled'
    <3>1. CASE UNCHANGED <<events, sending>>
      BY <3>1 DEF Settled, RoomIsFree, LogTypes
    <3>2. CASE events' = events + 1 /\ RoomIsFree
      BY <3>2 DEF Settled, LogTypes
    <3>. QED  BY <1>1, <3>1, <3>2
  <2>. QED  BY <1>1, <2>1, SettledStays
<1>2. CASE \/ StartGame \/ Reconnect
           \/ \E s \in Sockets : OnOpen(s) \/ Attach(s) \/ SessionNotFound(s) \/ Leave(s)
           \/ \E v \in Servers : \/ \E s \in Sockets : Accept(s, v)
                                 \/ CleanupStaleConnections(v) \/ CleanupRoom(v)
                                 \/ \E e \in logging[v] : LogRemote(v, e)
           \/ UNCHANGED vars
  <2>1. UNCHANGED <<view, down, events, sending>>
    BY <1>2, Zenon DEF StartGame, Reconnect, Connect, OnOpen, Attach, SessionNotFound,
       Leave, Accept, CleanupStaleConnections, CleanupRoom, LogRemote, browser,
       eventLog, room, vars
  <2>. QED  BY <1>1, <2>1
<1>3. CASE Disconnect \/ \E s \in Sockets : OnClose(s)
  <2>1. UNCHANGED <<view, events, sending>>
    BY <1>3 DEF Disconnect, OnClose, eventLog, room
  <2>2. \A s \in Sockets : down'[s] = down[s] \/ down'[s] = <<>>
    BY <1>3 DEF Disconnect, OnClose, TalkTypes
  <2>. QED  BY <1>1, <2>1, <2>2
<1>4. CASE \E v \in Servers : EndRound(v) \/ Grace(v)
  <2>1. UNCHANGED <<view, down>>
    BY <1>4 DEF EndRound, Grace, LogEvent, browser
  <2>2. UNCHANGED <<events, sending>> \/ (events' = events + 1 /\ RoomIsFree)
    BY <1>4 DEF EndRound, Grace, LogEvent, eventLog, room
  <2>. QED  BY <1>1, <2>1, <2>2
<1>5. CASE \E s \in Sockets : OnMessage(s) \/ Process(s) \/ SendState(s)
  BY <1>5, MessageSettled, ProcessSettled, StateSettled
<1>6. CASE \E v \in Servers : Broadcast(v) \/ \E e \in inbox[v] : Hear(v, e)
  BY <1>6, SpreadSettled
<1>. QED
  BY <1>2, <1>3, <1>4, <1>5, <1>6 DEF Next

(* When the end of a connection is noticed before the next one is accepted *)
(* by the same server, a browser whose reconnect_sync was answered has no  *)
(* gap after the number it asked with, as long as one server numbers all   *)
(* events (NoGapSinceAsked, GameSession.cs:711-718, 759-771, 904-921).     *)
THEOREM NoGapAfterSync ==
  ASSUME PromptClose
  PROVE  Spec => []NoGapSinceAsked
<1> DEFINE Both == GapInv /\ SettledInv
<1>1. LinkInv /\ HeardInv /\ Both /\ [Next]_vars => Both'
  BY GapNext, SettledNext DEF LinkFacts
<1>2. HeardInv /\ Both => NoGapSinceAsked
  <2> SUFFICES ASSUME HeardInv, GapInv, ws > 0, synced, eventSequence[at[ws]] = events,
                      NEW e \in asked + 1 .. view
               PROVE  e \in seen \/ e + Capacity <= events
    BY DEF NoGapSinceAsked
  <2>1. ws \in Sockets /\ handler[ws] # "none"
    BY DEF GapInv, FreshInv, AskedInv
  <2>2. at[ws] \in Servers
    BY <2>1 DEF HeardInv, ServerTypes
  <2>3. e \in Known
    BY <2>1, <2>2 DEF GapInv, StoryInv, ViewInv
  <2>. QED  BY <2>3 DEF Known
<1>3. Spec => []HeardInv
  BY HeardHolds
<1>4. Init => Both
  <2>1. ASSUME Init PROVE SettledInv
    <3>1. Settled = 0 /\ view = 0
      BY <2>1 DEF Init, Settled, RoomIsFree
    <3>2. \A s \in Sockets : ViewsWithin(down[s], 0)
      BY <2>1 DEF Init, ViewsWithin, Range
    <3>. QED  BY <3>1, <3>2 DEF SettledInv
  <2>. QED  BY <2>1, GapInit
<1>. QED
  BY <1>1, <1>2, <1>3, <1>4, LinkHolds, PTL DEF Spec

=============================================================================
