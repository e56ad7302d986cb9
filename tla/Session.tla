------------------------------ MODULE Session ------------------------------
(***************************************************************************)
(* One room with a GameSession on every server one of its players uses     *)
(* (Sessions/GameSession.cs, distributed mode): planning timers, owner and *)
(* takeover, and the events the servers send each other.  A call of        *)
(* ExecuteOnGameRoomAsync is atomic here (RoomAccess says when it is), but *)
(* a call that ends a round or the game publishes first and saves later.   *)
(* Time is left out: a timer fires some time after it was started.  So are *)
(* encounters, which keep a side from being done just as units do.         *)
(***************************************************************************)
EXTENDS Naturals, Sequences, SequencesExt

CONSTANTS
  Servers,
  Sides,           \* the two players
  None,            \* no server
  Creator,         \* the server the room was made on
  MaxRounds,       \* 20 in the code
  MayRefuse,       \* may a call fail to get the lock within 500 ms?
  MayReorder,      \* may a server handle events of one sender out of order?
  MaxFailures      \* how many sockets may break and servers may stop

ASSUME ServersAssumption == None \notin Servers /\ Creator \in Servers
ASSUME BoundsAssumption == MaxRounds \in Nat \ {0} /\ MaxFailures \in Nat
ASSUME FaultsAssumption == {MayRefuse, MayReorder} \subseteq BOOLEAN

VARIABLES
  room,        \* the stored room: phase, round, owner, sides not done yet
  unsaved,     \* the server and the room of a call that has yet to save
  crashed,     \* servers that stopped: one that restarts has a new id
  hosting,     \* the servers that have a session of the room
  socket,      \* the server a player is connected to
  absent,      \* sides whose IsConnected is false on a server
  leaving,     \* absences to look at again after 15 seconds
  failures,    \* sockets that broke and servers that stopped
  timer,       \* _planningTimer or _backupPlanningTimer, and its round
  due,         \* timer callbacks that have yet to get the room
  completed,   \* the sides whose MoveCommandCompleted is set
  unchecked,   \* after a command: whether both are ready is yet to check
  inbox        \* events from other servers

vars == <<room, unsaved, crashed, hosting, socket, absent, leaving, failures, timer,
          due, completed, unchecked, inbox>>

NoTimer == [kind |-> "none", round |-> 0, armed |-> FALSE]

-----------------------------------------------------------------------------
(* Both players have joined on the server that made the room, and will now *)
(* connect.  No other server has a session, so none hears GameStarted.     *)
Init ==
  /\ room = [phase |-> "Planning", round |-> 1, owner |-> Creator, moving |-> Sides]
  /\ unsaved = [server |-> None, room |-> room]
  /\ crashed = {}
  /\ hosting = {Creator}
  /\ socket = [side \in Sides |-> None]
  /\ absent = {}
  /\ leaving = {}
  /\ failures = 0
  /\ timer = [s \in Servers |-> NoTimer]
  /\ due = [s \in Servers |-> {}]
  /\ completed = [s \in Servers |-> {}]
  /\ unchecked = {}
  /\ inbox = [s \in Servers |-> <<>>]

(* A call of session s gets the lock and the room. *)
Enter(s) == s \in hosting /\ unsaved.server = None

(* Subscribers get the events; the sender ignores its own. *)
Publish(s, events) ==
  inbox' = [t \in Servers |->
              IF t \in hosting \ {s} THEN inbox[t] \o events ELSE inbox[t]]

Event(kind, round, s) == [kind |-> kind, round |-> round, from |-> s]

(* Fault: every server takes itself for the owner.                         *)
(* (Operators marked "Fault" are mistakes the properties have to notice;    *)
(* no specification uses them.) *)
AlwaysPrimary(s, round, owner) ==
  [kind |-> "primary", round |-> round, armed |-> TRUE]

(* Fault: only the owner's timer is started. *)
OnlyOwner(s, round, owner) ==
  [kind |-> IF owner = s THEN "primary" ELSE "backup",
   round |-> round, armed |-> owner = s]

(* Fault: the timer is for the round after the one meant. *)
OneAhead(s, round, owner) ==
  [kind |-> IF owner = s THEN "primary" ELSE "backup",
   round |-> round + 1, armed |-> TRUE]

(* StartPlanningTimer: a primary timer on the owner, a backup elsewhere.   *)
(* The owner is the one of the room, or the sender of the event, as the    *)
(* session has remembered it just before. *)
NewTimer(s, round, owner) ==
  [kind |-> IF owner = s THEN "primary" ELSE "backup",
   round |-> round, armed |-> TRUE]

(* Without a new deadline a timer for the same round is left as it is,     *)
(* fired or not. *)
KeepOrStart(s, round, owner) ==
  IF timer[s].kind # "none" /\ timer[s].round = round THEN timer[s]
  ELSE NewTimer(s, round, owner)

-----------------------------------------------------------------------------
(* The player opens a socket to s, which makes a session if it has none.   *)
Connect(side, s) ==
  /\ socket[side] = None
  /\ s \notin crashed
  /\ socket' = [socket EXCEPT ![side] = s]
  /\ absent' = absent \ {<<s, side>>}
  /\ hosting' = hosting \cup {s}
  /\ \/ /\ unsaved.server = None
        /\ timer' = [timer EXCEPT ![s] =
             IF room.phase = "Planning" /\ @.kind = "none"
             THEN NewTimer(s, room.round, room.owner) ELSE @]
     \/ MayRefuse /\ UNCHANGED timer
  /\ UNCHANGED <<room, unsaved, crashed, leaving, failures, due, completed, unchecked, inbox>>

(* HandleMoveUnitsAsync: one more move, perhaps the last one.  A player    *)
(* gives a command when his last one is done. *)
Move(side, s) ==
  /\ socket[side] = s
  /\ <<s, side>> \notin unchecked
  /\ Enter(s)
  /\ room.phase = "Planning"
  /\ side \in room.moving
  /\ \E last \in BOOLEAN :
       /\ room' = [room EXCEPT !.moving = IF last THEN @ \ {side} ELSE @]
       /\ completed' = [completed EXCEPT ![s] =
                          IF last THEN @ \cup {side} ELSE @ \ {side}]
  /\ unchecked' = unchecked \cup {<<s, side>>}
  /\ UNCHANGED <<unsaved, crashed, hosting, socket, absent, leaving, failures, timer, due,
                 inbox>>

(* ResolveRoundAsync by s for owner: the round ends, perhaps the game.     *)
(* Published and started here, saved by Save.  In the new round a side may *)
(* have no units on a node, and nothing to do; nobody asks when it is over. *)
ResolveRound(s, owner) ==
  \E over \in {TRUE} \cup IF room.round < MaxRounds THEN {FALSE} ELSE {},
     moving \in SUBSET Sides :
    LET next == [phase |-> IF over THEN "GameOver" ELSE "Planning",
                 round |-> room.round + 1, owner |-> owner,
                 moving |-> IF over THEN {} ELSE moving]
    IN  /\ unsaved' = [server |-> s, room |-> next]
        /\ completed' = [completed EXCEPT ![s] = {}]
        /\ timer' = [timer EXCEPT ![s] =
             IF over THEN NoTimer ELSE NewTimer(s, next.round, owner)]
        /\ Publish(s, <<Event("RoundResolved", room.round, s),
                        Event(IF over THEN "GameOver" ELSE "RoundStarted",
                              next.round, s)>>)

(* Fault: a game that is over is ready, too. *)
ReadyWhenOver(s) == room.moving \subseteq completed[s]

(* CheckAndResolveIfReadyAsync *)
Ready(s) == room.phase = "Planning" /\ room.moving \subseteq completed[s]

CheckAndResolveIfReady(s) ==
  /\ \E side \in Sides :
       <<s, side>> \in unchecked /\ unchecked' = unchecked \ {<<s, side>>}
  /\ \/ Enter(s) /\ Ready(s) /\ ResolveRound(s, room.owner)
     \/ /\ (Enter(s) /\ ~ Ready(s)) \/ MayRefuse
        /\ UNCHANGED <<unsaved, timer, completed, inbox>>
  /\ UNCHANGED <<room, crashed, hosting, socket, absent, leaving, failures, due>>

(* OnPlayerDisconnectedAsync: s waits for the player to come back to s. He *)
(* may come back to another server. *)
Disconnect(side, s) ==
  /\ failures < MaxFailures /\ failures' = failures + 1
  /\ socket[side] = s
  /\ socket' = [socket EXCEPT ![side] = None]
  /\ absent' = absent \cup {<<s, side>>}
  /\ leaving' = leaving \cup {<<s, side>>}
  /\ UNCHANGED <<room, unsaved, crashed, hosting, timer, due, completed,
                 unchecked, inbox>>

(* The wait is over.  ForceGameOverAsync takes a player as winner who is   *)
(* not absent (nor is one who never was on s), and throws without one. *)
ForceGameOver(s) ==
  \E side \in Sides :
    /\ <<s, side>> \in leaving /\ leaving' = leaving \ {<<s, side>>}
    /\ LET mayEnd == room.phase # "GameOver" /\ \E winner \in Sides : <<s, winner>> \notin absent
       IN  \/ /\ <<s, side>> \in absent /\ Enter(s) /\ mayEnd
              /\ unsaved' = [server |-> s, room |-> [room EXCEPT !.phase = "GameOver"]]
              /\ timer' = [timer EXCEPT ![s] = NoTimer]
              /\ Publish(s, <<Event("GameOver", room.round, s)>>)
           \/ /\ <<s, side>> \notin absent \/ (Enter(s) /\ ~ mayEnd) \/ MayRefuse
              /\ UNCHANGED <<unsaved, timer, inbox>>
    /\ UNCHANGED <<room, crashed, hosting, socket, absent, failures, due, completed,
                   unchecked>>

(* The call that ended a round or the game saves the room. *)
Save ==
  /\ unsaved.server # None
  /\ room' = unsaved.room
  /\ unsaved' = [unsaved EXCEPT !.server = None]
  /\ UNCHANGED <<crashed, hosting, socket, absent, leaving, failures, timer, due,
                 completed, unchecked, inbox>>

-----------------------------------------------------------------------------
(* Fault: the timer goes on (AutoReset is left true). *)
FireAgain(s) ==
  /\ timer[s].armed
  /\ due' = [due EXCEPT ![s] = @ \cup {timer[s]}]
  /\ UNCHANGED <<room, unsaved, crashed, hosting, socket, absent, leaving, failures,
                 timer, completed, unchecked, inbox>>

(* The timer fires, once.  It is not disposed. *)
Fire(s) ==
  /\ timer[s].armed
  /\ timer' = [timer EXCEPT ![s].armed = FALSE]
  /\ due' = [due EXCEPT ![s] = @ \cup {timer[s]}]
  /\ UNCHANGED <<room, unsaved, crashed, hosting, socket, absent, leaving, failures,
                 completed, unchecked, inbox>>

(* Fault: a timeout counts when the game is over. *)
CountsWhenOver(t) == room.round = t.round

(* A timeout counts for the round its timer was started for. *)
Counts(t) == room.phase = "Planning" /\ room.round = t.round

(* OnPlanningTimeoutAsync; OnBackupPlanningTimeoutAsync takes the room over. *)
Timeout(s) ==
  \E t \in due[s] :
    /\ due' = [due EXCEPT ![s] = @ \ {t}]
    /\ \/ /\ Enter(s) /\ Counts(t)
          /\ ResolveRound(s, IF t.kind = "backup" THEN s ELSE room.owner)
       \/ /\ (Enter(s) /\ ~ Counts(t)) \/ MayRefuse
          /\ UNCHANGED <<unsaved, timer, completed, inbox>>
    /\ UNCHANGED <<room, crashed, hosting, socket, absent, leaving, failures, unchecked>>

-----------------------------------------------------------------------------
(* HandleRemoteEventAsync.  The room is not looked at. *)
Handle(s, m) ==
  \/ /\ m.kind = "RoundResolved"
     /\ timer' = [timer EXCEPT ![s] = KeepOrStart(s, m.round + 1, m.from)]
     /\ completed' = [completed EXCEPT ![s] = {}]
  \/ /\ m.kind = "RoundStarted"
     /\ timer' = [timer EXCEPT ![s] = NewTimer(s, m.round, m.from)]
     /\ UNCHANGED completed
  \/ /\ m.kind = "GameOver"
     /\ timer' = [timer EXCEPT ![s] = NoTimer]
     /\ UNCHANGED completed

Receive(s) ==
  \E i \in DOMAIN inbox[s] :
    /\ MayReorder \/ \A j \in 1..i - 1 : inbox[s][j].from # inbox[s][i].from
    /\ inbox' = [inbox EXCEPT ![s] = RemoveAt(@, i)]
    /\ Handle(s, inbox[s][i])
    /\ UNCHANGED <<room, unsaved, crashed, hosting, socket, absent, leaving, failures,
                   due, unchecked>>

(* The server stops with its session, and drops the room it has not saved. *)
(* The last server does not. *)
Crash(s) ==
  /\ failures < MaxFailures /\ failures' = failures + 1
  /\ s \notin crashed /\ crashed \cup {s} # Servers
  /\ crashed' = crashed \cup {s}
  /\ hosting' = hosting \ {s}
  /\ unsaved' = IF unsaved.server = s THEN [unsaved EXCEPT !.server = None] ELSE unsaved
  /\ socket' = [side \in Sides |-> IF socket[side] = s THEN None ELSE socket[side]]
  /\ absent' = {a \in absent : a[1] # s}
  /\ leaving' = {l \in leaving : l[1] # s}
  /\ timer' = [timer EXCEPT ![s] = NoTimer]
  /\ due' = [due EXCEPT ![s] = {}]
  /\ completed' = [completed EXCEPT ![s] = {}]
  /\ unchecked' = {u \in unchecked : u[1] # s}
  /\ inbox' = [inbox EXCEPT ![s] = <<>>]
  /\ UNCHANGED room

-----------------------------------------------------------------------------
Next ==
  \/ \E side \in Sides, s \in Servers : Connect(side, s) \/ Disconnect(side, s) \/ Move(side, s)
  \/ \E s \in Servers :
       \/ CheckAndResolveIfReady(s) \/ ForceGameOver(s)
       \/ Fire(s) \/ Timeout(s) \/ Receive(s) \/ Crash(s)
  \/ Save

(* Timers fire, calls that have begun end, and events that were published  *)
(* arrive.  Nobody has to play. *)
Fairness ==
  /\ WF_vars(Save)
  /\ \A s \in Servers : WF_vars(Fire(s)) /\ WF_vars(Timeout(s)) /\ WF_vars(Receive(s))

Spec == Init /\ [][Next]_vars /\ Fairness

-----------------------------------------------------------------------------
Rooms ==
  [phase : {"Planning", "GameOver"}, round : 1..MaxRounds + 1, owner : Servers,
   moving : SUBSET Sides]
Timers ==
  [kind : {"none", "primary", "backup"}, round : 0..MaxRounds + 1, armed : BOOLEAN]
Events ==
  [kind : {"RoundResolved", "RoundStarted", "GameOver"},
   round : 1..MaxRounds + 1, from : Servers]

(* The types of the variables. *)
TypeOK ==
  /\ room \in Rooms
  /\ unsaved \in [server : Servers \cup {None}, room : Rooms]
  /\ crashed \in SUBSET Servers /\ hosting \in SUBSET (Servers \ crashed)
  /\ socket \in [Sides -> Servers \cup {None}]
  /\ absent \in SUBSET (Servers \X Sides)
  /\ leaving \in SUBSET (Servers \X Sides)
  /\ failures \in 0..MaxFailures
  /\ timer \in [Servers -> Timers]
  /\ due \in [Servers -> SUBSET Timers]
  /\ completed \in [Servers -> SUBSET Sides]
  /\ unchecked \in SUBSET (Servers \X Sides)
  /\ inbox \in [Servers -> Seq(Events)]

(* For the round the room is in, one server at most is the primary one,    *)
(* however often the room was taken over, whoever crashed, and in whatever *)
(* order the events arrived. *)
OnePrimary ==
  \A s, t \in Servers :
    /\ timer[s].kind = "primary" /\ timer[t].kind = "primary"
    /\ timer[s].round = room.round /\ timer[t].round = room.round
    => s = t

(* A game over is never played on: no call that began before, no late      *)
(* timer and no late event brings it back. *)
OverIsFinal == [][room.phase = "GameOver" => UNCHANGED room]_vars

(* While no server crashes, no timer is ahead of the room: it was started  *)
(* for a round the room has reached, or will have reached when the call    *)
(* that ends the last one has saved. *)
TimersAreNotAhead ==
  \A s \in Servers :
    \/ timer[s].round <= room.round
    \/ unsaved.server # None /\ timer[s].round <= unsaved.room.round

(* The timer of a server is running for this round, or has fired and its   *)
(* callback is yet to get the room. *)
Times(s) ==
  \/ timer[s].armed /\ timer[s].round = room.round
  \/ \E t \in due[s] : t.round = room.round

(* The timers alone bring every round of a game to its end that a player   *)
(* has connected to: whoever ended the last one, and whatever late event   *)
(* of an earlier one has replaced a newer timer, some server times the     *)
(* round out.  (This is so of two servers that handle each other's events  *)
(* in order and are refused no lock.  In the code events may overtake each *)
(* other, and then four rounds are enough to leave one without a timer; a  *)
(* third server, whose late events come in no order with the second's, may *)
(* do it too.) *)
RoundIsTimed ==
  /\ room.phase = "Planning" /\ unsaved.server = None
  /\ \A s \in Servers : inbox[s] = <<>>
  /\ \E s \in Servers : timer[s].kind # "none"
  => \E s \in Servers : Times(s)

(* When the game is over the timers run out, and nothing starts them again *)
(* for ever. *)
TimersRunOut ==
  room.phase = "GameOver" ~> [](\A s \in Servers : ~ timer[s].armed /\ due[s] = {})
=============================================================================
