--------------------------- MODULE SessionProofs ---------------------------
(***************************************************************************)
(* Proofs about Session for any servers and players, any number of rounds  *)
(* and of failures, refused locks and reordered events.                    *)
(***************************************************************************)
EXTENDS Session, SequenceTheorems, TLAPS

(* A room that is played has not had its last round. *)
PlayableRooms == {r \in Rooms : r.phase = "Planning" => r.round <= MaxRounds}

(* What s may get: the events of others, about rounds there are. *)
EventsFor(s) ==
  {e \in Events : e.from # s /\ (e.kind = "RoundResolved" => e.round <= MaxRounds)}

Types ==
  /\ room \in PlayableRooms
  /\ unsaved \in [server : Servers \cup {None}, room : PlayableRooms]
  /\ crashed \in SUBSET Servers /\ hosting \in SUBSET (Servers \ crashed)
  /\ socket \in [Sides -> Servers \cup {None}]
  /\ absent \in SUBSET (Servers \X Sides)
  /\ leaving \in SUBSET (Servers \X Sides)
  /\ failures \in 0..MaxFailures
  /\ timer \in [Servers -> Timers]
  /\ due \in [Servers -> SUBSET Timers]
  /\ completed \in [Servers -> SUBSET Sides]
  /\ unchecked \in SUBSET (Servers \X Sides)
  /\ DOMAIN inbox = Servers
  /\ inbox = [s \in Servers |-> inbox[s]]
  /\ \A s \in Servers : inbox[s] \in Seq(EventsFor(s))

(* The room a call has yet to save is the next round, or the same one and  *)
(* over; and when the room is over there is none. *)
SavesGoOn ==
  /\ unsaved.server # None =>
       \/ unsaved.room.round = room.round + 1
       \/ unsaved.room.round = room.round /\ unsaved.room.owner = room.owner
  /\ room.phase = "GameOver" => unsaved.server = None

(* A primary timer belongs to the owner: of the room, or of the room that  *)
(* its server has yet to save. *)
PrimariesOwn ==
  \A s \in Servers :
    timer[s].kind = "primary" =>
      /\ timer[s].round = room.round => room.owner = s
      /\ timer[s].round > room.round =>
           /\ unsaved.server = s
           /\ timer[s].round = unsaved.room.round
           /\ unsaved.room.owner = s

SessionInv == Types /\ SavesGoOn /\ PrimariesOwn

-----------------------------------------------------------------------------
(* What is left of a sequence without one of its elements. *)
LEMMA RemoveAtType ==
  ASSUME NEW S, NEW q \in Seq(S), NEW i \in DOMAIN q
  PROVE  RemoveAt(q, i) \in Seq(S)
<1> i \in 1..Len(q)
  BY LenProperties
<1>1. SubSeq(q, 1, i - 1) \in Seq(S)
  <2>1. \A j \in 1..i - 1 : q[j] \in S
    BY ElementOfSeq
  <2> QED BY <2>1, SubSeqProperties
<1>2. SubSeq(q, i + 1, Len(q)) \in Seq(S)
  <2>1. \A j \in i + 1..Len(q) : q[j] \in S
    BY ElementOfSeq
  <2>2. Len(q) \in Int /\ i + 1 \in Int
    BY LenProperties
  <2> QED BY <2>1, <2>2, SubSeqProperties
<1> QED BY <1>1, <1>2, ConcatProperties DEF RemoveAt

(* Events of s about rounds there are come to servers that may get them.   *)
LEMMA PublishTypes ==
  ASSUME Types, NEW s \in Servers, NEW e \in Events, e.from = s,
         e.kind = "RoundResolved" => e.round <= MaxRounds,
         NEW f \in Events, f.from = s,
         f.kind = "RoundResolved" => f.round <= MaxRounds,
         Publish(s, <<e, f>>) \/ Publish(s, <<f>>)
  PROVE  /\ DOMAIN inbox' = Servers
         /\ inbox' = [t \in Servers |-> inbox'[t]]
         /\ \A t \in Servers : inbox'[t] \in Seq(EventsFor(t))
<1>1. /\ DOMAIN inbox' = Servers
      /\ inbox' = [t \in Servers |-> inbox'[t]]
  BY DEF Publish
<1>2. ASSUME NEW t \in Servers PROVE inbox'[t] \in Seq(EventsFor(t))
  <2>1. CASE t \in hosting \ {s}
    <3>1. e \in EventsFor(t) /\ f \in EventsFor(t)
      BY <2>1 DEF EventsFor
    <3>2. <<e, f>> \in Seq(EventsFor(t)) /\ <<f>> \in Seq(EventsFor(t))
      BY <3>1
    <3>3. inbox[t] \in Seq(EventsFor(t))
      BY DEF Types
    <3>4. inbox'[t] = inbox[t] \o <<e, f>> \/ inbox'[t] = inbox[t] \o <<f>>
      BY <2>1 DEF Publish
    <3> QED BY ZenonT(60), <3>2, <3>3, <3>4, ConcatProperties
  <2>2. CASE t \notin hosting \ {s}
    BY <2>2 DEF Types, Publish
  <2> QED BY <2>1, <2>2
<1> QED BY <1>1, <1>2

(* NewTimer makes a timer of a round there is. *)
LEMMA NewTimerType ==
  ASSUME NEW s \in Servers, NEW round \in 1..MaxRounds + 1, NEW owner
  PROVE  /\ NewTimer(s, round, owner) \in Timers
         /\ NewTimer(s, round, owner).round = round
         /\ NewTimer(s, round, owner).kind = "primary" => owner = s
BY BoundsAssumption DEF NewTimer, Timers

(* ResolveRound prepares the next round, starts its timer and tells the    *)
(* other servers. *)
LEMMA ResolveRoundTypes ==
  ASSUME Types, NEW s \in Servers, NEW owner \in Servers,
         room.phase = "Planning", unsaved.server = None, ResolveRound(s, owner)
  PROVE  /\ unsaved' \in [server : Servers \cup {None}, room : PlayableRooms]
         /\ unsaved'.server = s
         /\ unsaved'.room.round = room.round + 1
         /\ unsaved'.room.owner = owner
         /\ completed' \in [Servers -> SUBSET Sides]
         /\ timer' \in [Servers -> Timers]
         /\ \A t \in Servers \ {s} : timer'[t] = timer[t]
         /\ timer'[s].kind = "primary" => timer'[s].round = room.round + 1 /\ owner = s
         /\ DOMAIN inbox' = Servers
         /\ inbox' = [t \in Servers |-> inbox'[t]]
         /\ \A t \in Servers : inbox'[t] \in Seq(EventsFor(t))
<1> DEFINE next(over, moving) ==
      [phase |-> IF over THEN "GameOver" ELSE "Planning",
       round |-> room.round + 1, owner |-> owner,
       moving |-> IF over THEN {} ELSE moving]
<1>1. PICK over \in {TRUE} \cup IF room.round < MaxRounds THEN {FALSE} ELSE {},
           moving \in SUBSET Sides :
        /\ unsaved' = [server |-> s, room |-> next(over, moving)]
        /\ completed' = [completed EXCEPT ![s] = {}]
        /\ timer' = [timer EXCEPT ![s] =
             IF over THEN NoTimer ELSE NewTimer(s, next(over, moving).round, owner)]
        /\ Publish(s, <<Event("RoundResolved", room.round, s),
                        Event(IF over THEN "GameOver" ELSE "RoundStarted",
                              next(over, moving).round, s)>>)
  BY DEF ResolveRound
<1>2. /\ room \in Rooms
      /\ room.round \in 1..MaxRounds
      /\ MaxRounds \in Nat
      /\ room.round + 1 \in 1..MaxRounds + 1
  BY BoundsAssumption DEF Types, PlayableRooms, Rooms
<1>3. next(over, moving) \in PlayableRooms
  <2>1. (IF over THEN "GameOver" ELSE "Planning") \in {"Planning", "GameOver"}
    OBVIOUS
  <2>2. (IF over THEN {} ELSE moving) \in SUBSET Sides
    BY <1>1
  <2>3. next(over, moving) \in Rooms
    BY <1>2, <2>1, <2>2 DEF Rooms
  <2>4. CASE over
    BY <2>3, <2>4 DEF PlayableRooms
  <2>5. CASE ~ over
    <3>1. room.round < MaxRounds
      BY <2>5, Zenon
    <3>2. room.round + 1 <= MaxRounds
      BY <1>2, <3>1
    <3> QED BY <2>3, <3>2 DEF PlayableRooms
  <2> QED BY <2>4, <2>5
<1>4. NoTimer \in Timers /\ NoTimer.kind = "none"
  BY BoundsAssumption DEF NoTimer, Timers
<1>5. /\ NewTimer(s, room.round + 1, owner) \in Timers
      /\ NewTimer(s, room.round + 1, owner).round = room.round + 1
      /\ NewTimer(s, room.round + 1, owner).kind = "primary" => owner = s
  BY <1>2, NewTimerType
<1>6. timer \in [Servers -> Timers] /\ completed \in [Servers -> SUBSET Sides]
  BY DEF Types
<1>7. /\ timer' \in [Servers -> Timers]
      /\ \A t \in Servers \ {s} : timer'[t] = timer[t]
      /\ timer'[s].kind = "primary" => timer'[s].round = room.round + 1 /\ owner = s
  BY <1>1, <1>4, <1>5, <1>6
<1>8. /\ DOMAIN inbox' = Servers
      /\ inbox' = [t \in Servers |-> inbox'[t]]
      /\ \A t \in Servers : inbox'[t] \in Seq(EventsFor(t))
  <2> DEFINE e == Event("RoundResolved", room.round, s)
             f == Event(IF over THEN "GameOver" ELSE "RoundStarted", room.round + 1, s)
  <2>1. e \in Events /\ e.from = s /\ e.round <= MaxRounds
    BY <1>2 DEF Event, Events
  <2>2. f \in Events /\ f.from = s /\ f.kind # "RoundResolved"
    BY <1>2 DEF Event, Events
  <2>3. Publish(s, <<e, f>>)
    BY <1>1
  <2> HIDE DEF e, f
  <2> QED BY <2>1, <2>2, <2>3, PublishTypes
<1>9. completed' \in [Servers -> SUBSET Sides]
  BY <1>1, <1>6
<1>10. /\ unsaved' \in [server : Servers \cup {None}, room : PlayableRooms]
       /\ unsaved'.server = s
       /\ unsaved'.room.round = room.round + 1
       /\ unsaved'.room.owner = owner
  BY <1>1, <1>3
<1> QED BY <1>7, <1>8, <1>9, <1>10

-----------------------------------------------------------------------------
(* The invariant holds of a room that was just made. *)
LEMMA InitHolds == Init => SessionInv
<1> SUFFICES ASSUME Init PROVE SessionInv
  OBVIOUS
<1>1. room \in PlayableRooms
  BY ServersAssumption, BoundsAssumption DEF Init, PlayableRooms, Rooms
<1>2. unsaved \in [server : Servers \cup {None}, room : PlayableRooms]
  BY <1>1 DEF Init
<1>3. NoTimer \in Timers /\ NoTimer.kind = "none"
  BY BoundsAssumption DEF NoTimer, Timers
<1>4. Types
  BY <1>1, <1>2, <1>3, ServersAssumption, BoundsAssumption DEF Init, Types
<1>5. SavesGoOn
  BY DEF Init, SavesGoOn
<1>6. PrimariesOwn
  BY <1>3 DEF Init, PrimariesOwn
<1> QED BY <1>4, <1>5, <1>6 DEF SessionInv

(* While the room and the unsaved one stay, primary timers stay with their *)
(* owner when each timer goes on, stops being primary, or is a new one of  *)
(* the owner for this round. *)
LEMMA TimersOfTheOwner ==
  ASSUME SessionInv, UNCHANGED <<room, unsaved>>,
         \A s \in Servers :
           \/ timer'[s].kind = timer[s].kind /\ timer'[s].round = timer[s].round
           \/ timer'[s].kind # "primary"
           \/ timer'[s].round = room.round /\ room.owner = s
  PROVE  SavesGoOn' /\ PrimariesOwn'
<1>1. SavesGoOn'
  BY DEF SessionInv, SavesGoOn
<1>2. room.round \in Nat
  BY BoundsAssumption DEF SessionInv, Types, PlayableRooms, Rooms
<1>3. PrimariesOwn'
  BY <1>2 DEF SessionInv, PrimariesOwn
<1> QED BY <1>1, <1>3

(* The call that ends a round leaves the new one to be saved. *)
LEMMA ResolveRoundKeeps ==
  ASSUME SessionInv, NEW s \in Servers, NEW owner \in Servers,
         room.phase = "Planning", unsaved.server = None, ResolveRound(s, owner),
         UNCHANGED room
  PROVE  SavesGoOn' /\ PrimariesOwn'
<1> USE DEF SessionInv
<1>1. /\ unsaved'.server = s
      /\ unsaved'.room.round = room.round + 1
      /\ unsaved'.room.owner = owner
      /\ \A t \in Servers \ {s} : timer'[t] = timer[t]
      /\ timer'[s].kind = "primary" => timer'[s].round = room.round + 1 /\ owner = s
  BY ResolveRoundTypes
<1>2. room.round \in Nat /\ s # None
  BY BoundsAssumption, ServersAssumption DEF Types, PlayableRooms, Rooms
<1>3. SavesGoOn'
  BY <1>1, <1>2 DEF SavesGoOn
<1>4. ASSUME NEW t \in Servers, timer'[t].kind = "primary"
      PROVE  /\ timer'[t].round = room.round => room.owner = t
             /\ timer'[t].round > room.round =>
                  /\ unsaved'.server = t
                  /\ timer'[t].round = unsaved'.room.round
                  /\ unsaved'.room.owner = t
  <2>1. CASE t = s
    BY <1>1, <1>2, <1>4, <2>1
  <2>2. CASE t # s
    <3>1. timer'[t] = timer[t]
      BY <1>1, <2>2
    <3>2. unsaved.server # t
      BY ServersAssumption
    <3> QED BY <1>4, <3>1, <3>2 DEF PrimariesOwn
  <2> QED BY <2>1, <2>2
<1>5. PrimariesOwn'
  BY <1>4 DEF PrimariesOwn
<1> QED BY <1>3, <1>5

(* A save makes the next round the stored one, with its owner. *)
LEMMA SaveKeeps ==
  ASSUME SessionInv, Save
  PROVE  SessionInv'
<1> USE DEF SessionInv
<1>1. /\ unsaved.server # None
      /\ room' = unsaved.room
      /\ unsaved' = [unsaved EXCEPT !.server = None]
      /\ UNCHANGED <<crashed, hosting, socket, absent, leaving, failures, timer, due,
                     completed, unchecked, inbox>>
  BY DEF Save
<1>2. unsaved' \in [server : Servers \cup {None}, room : PlayableRooms] /\ unsaved'.server = None
  BY <1>1 DEF Types
<1>3. Types'
  BY <1>1, <1>2 DEF Types
<1>4. SavesGoOn'
  BY <1>2 DEF SavesGoOn
<1>5. room.round \in Nat /\ room'.round \in Nat
  BY <1>1, BoundsAssumption DEF Types, PlayableRooms, Rooms
<1>6. ASSUME NEW s \in Servers, timer[s].kind = "primary"
      PROVE  /\ timer[s].round = room'.round => room'.owner = s
             /\ ~ (timer[s].round > room'.round)
  <2>1. timer[s].round \in Nat
    BY BoundsAssumption DEF Types, Timers
  <2>2. CASE room'.round = room.round + 1
    BY <1>1, <1>5, <1>6, <2>1, <2>2 DEF PrimariesOwn
  <2>3. CASE room'.round = room.round /\ room'.owner = room.owner
    BY <1>1, <1>5, <1>6, <2>1, <2>3 DEF PrimariesOwn
  <2> QED BY <1>1, <2>2, <2>3 DEF SavesGoOn
<1>7. PrimariesOwn'
  BY <1>1, <1>6 DEF PrimariesOwn
<1> QED BY <1>3, <1>4, <1>7

(* A session that gets a socket starts a timer as the room says. *)
LEMMA ConnectKeeps ==
  ASSUME SessionInv, NEW side \in Sides, NEW s \in Servers, Connect(side, s)
  PROVE  SessionInv'
<1> USE DEF SessionInv
<1>1. room.round \in 1..MaxRounds + 1 /\ room.owner \in Servers
  BY DEF Types, PlayableRooms, Rooms
<1>2. /\ NewTimer(s, room.round, room.owner) \in Timers
      /\ NewTimer(s, room.round, room.owner).round = room.round
      /\ NewTimer(s, room.round, room.owner).kind = "primary" => room.owner = s
  BY <1>1, NewTimerType
<1>3. UNCHANGED <<room, unsaved, crashed, leaving, failures, due, completed,
                  unchecked, inbox>>
  BY DEF Connect
<1>4. timer \in [Servers -> Timers]
  BY DEF Types
<1>5. \/ timer' = timer
      \/ timer' = [timer EXCEPT ![s] = NewTimer(s, room.round, room.owner)]
  BY <1>4 DEF Connect
<1>6. timer' \in [Servers -> Timers]
  BY <1>2, <1>4, <1>5
<1>7. Types'
  BY <1>3, <1>6 DEF Types, Connect
<1>8. \A t \in Servers :
        \/ timer'[t].kind = timer[t].kind /\ timer'[t].round = timer[t].round
        \/ timer'[t].kind # "primary"
        \/ timer'[t].round = room.round /\ room.owner = t
  BY <1>2, <1>4, <1>5
<1> QED BY <1>3, <1>7, <1>8, TimersOfTheOwner

(* A command keeps the round and the owner of the room. *)
LEMMA MoveKeeps ==
  ASSUME SessionInv, NEW side \in Sides, NEW s \in Servers, Move(side, s)
  PROVE  SessionInv'
<1> USE DEF SessionInv
<1>1. PICK last \in BOOLEAN :
        /\ room' = [room EXCEPT !.moving = IF last THEN @ \ {side} ELSE @]
        /\ completed' = [completed EXCEPT ![s] =
                           IF last THEN @ \cup {side} ELSE @ \ {side}]
  BY DEF Move
<1>2. /\ room.phase = "Planning"
      /\ unsaved.server = None
      /\ unchecked' = unchecked \cup {<<s, side>>}
      /\ UNCHANGED <<unsaved, crashed, hosting, socket, absent, leaving, failures,
                     timer, due, inbox>>
  BY DEF Move, Enter
<1>3. /\ room' \in PlayableRooms
      /\ room'.phase = room.phase /\ room'.round = room.round
      /\ room'.owner = room.owner
  BY <1>1 DEF Types, PlayableRooms, Rooms
<1>4. completed' \in [Servers -> SUBSET Sides]
  BY <1>1 DEF Types
<1>5. Types'
  BY <1>2, <1>3, <1>4 DEF Types
<1>6. SavesGoOn' /\ PrimariesOwn'
  BY <1>2, <1>3 DEF SavesGoOn, PrimariesOwn
<1> QED BY <1>5, <1>6

(* A lost socket concerns neither the room nor the timers. *)
LEMMA DisconnectKeeps ==
  ASSUME SessionInv, NEW side \in Sides, NEW s \in Servers, Disconnect(side, s)
  PROVE  SessionInv'
<1> USE DEF SessionInv
<1>1. Types'
  BY BoundsAssumption DEF Types, Disconnect
<1>2. SavesGoOn' /\ PrimariesOwn'
  BY DEF Disconnect, SavesGoOn, PrimariesOwn
<1> QED BY <1>1, <1>2

(* The check ends the round or changes nothing. *)
LEMMA CheckAndResolveIfReadyKeeps ==
  ASSUME SessionInv, NEW s \in Servers, CheckAndResolveIfReady(s)
  PROVE  SessionInv'
<1> USE DEF SessionInv
<1>1. /\ unchecked' \in SUBSET (Servers \X Sides)
      /\ UNCHANGED <<room, crashed, hosting, socket, absent, leaving, failures, due>>
  BY DEF CheckAndResolveIfReady, Types
<1>2. CASE Enter(s) /\ Ready(s) /\ ResolveRound(s, room.owner)
  <2>1. room.owner \in Servers /\ room.phase = "Planning" /\ unsaved.server = None
    BY <1>2 DEF Types, PlayableRooms, Rooms, Enter, Ready
  <2>2. Types'
    BY <1>1, <1>2, <2>1, ResolveRoundTypes DEF Types
  <2> QED BY <1>1, <1>2, <2>1, <2>2, ResolveRoundKeeps
<1>3. CASE UNCHANGED <<unsaved, timer, completed, inbox>>
  <2>1. Types'
    BY <1>1, <1>3 DEF Types
  <2> QED BY <1>1, <1>3, <2>1, TimersOfTheOwner
<1> QED BY <1>2, <1>3 DEF CheckAndResolveIfReady

(* A forced end leaves the same room, over, to be saved. *)
LEMMA ForceGameOverKeeps ==
  ASSUME SessionInv, NEW s \in Servers, ForceGameOver(s)
  PROVE  SessionInv'
<1> USE DEF SessionInv
<1>1. /\ leaving' \in SUBSET (Servers \X Sides)
      /\ UNCHANGED <<room, crashed, hosting, socket, absent, failures, due, completed,
                     unchecked>>
  BY DEF ForceGameOver, Types
<1>2. CASE /\ Enter(s) /\ room.phase # "GameOver"
           /\ unsaved' = [server |-> s, room |-> [room EXCEPT !.phase = "GameOver"]]
           /\ timer' = [timer EXCEPT ![s] = NoTimer]
           /\ Publish(s, <<Event("GameOver", room.round, s)>>)
  <2>1. NoTimer \in Timers /\ NoTimer.kind = "none"
    BY BoundsAssumption DEF NoTimer, Timers
  <2>2. timer \in [Servers -> Timers]
    BY DEF Types
  <2>3. timer' \in [Servers -> Timers]
    BY <1>2, <2>1, <2>2
  <2>4. [room EXCEPT !.phase = "GameOver"] \in PlayableRooms
    BY DEF Types, PlayableRooms, Rooms
  <2>5. unsaved' \in [server : Servers \cup {None}, room : PlayableRooms]
    BY <1>2, <2>4
  <2>6. /\ Event("GameOver", room.round, s) \in Events
        /\ Event("GameOver", room.round, s).from = s
        /\ Event("GameOver", room.round, s).kind # "RoundResolved"
    BY DEF Types, PlayableRooms, Rooms, Event, Events
  <2>7. /\ DOMAIN inbox' = Servers
        /\ inbox' = [t \in Servers |-> inbox'[t]]
        /\ \A t \in Servers : inbox'[t] \in Seq(EventsFor(t))
    BY <1>2, <2>6, PublishTypes
  <2>8. Types'
    BY <1>1, <2>3, <2>5, <2>7 DEF Types
  <2>9. unsaved'.room.round = room.round /\ unsaved'.room.owner = room.owner
    BY <1>2 DEF Types, PlayableRooms, Rooms
  <2>10. SavesGoOn'
    BY <1>1, <1>2, <2>9 DEF SavesGoOn
  <2>11. \A t \in Servers :
           timer'[t].kind = "primary" => timer'[t] = timer[t] /\ unsaved.server # t
    BY <1>2, <2>1, <2>2, ServersAssumption DEF Enter
  <2>12. PrimariesOwn'
    BY <1>1, <2>11 DEF PrimariesOwn
  <2> QED BY <2>8, <2>10, <2>12
<1>3. CASE UNCHANGED <<unsaved, timer, inbox>>
  <2>1. Types'
    BY <1>1, <1>3 DEF Types
  <2> QED BY <1>1, <1>3, <2>1, TimersOfTheOwner
<1> QED BY <1>2, <1>3 DEF ForceGameOver

(* A timer that fires stays what it was. *)
LEMMA FireKeeps ==
  ASSUME SessionInv, NEW s \in Servers, Fire(s)
  PROVE  SessionInv'
<1> USE DEF SessionInv
<1>1. /\ timer' = [timer EXCEPT ![s].armed = FALSE]
      /\ due' = [due EXCEPT ![s] = @ \cup {timer[s]}]
      /\ UNCHANGED <<room, unsaved, crashed, hosting, socket, absent, leaving, failures,
                     completed, unchecked, inbox>>
  BY DEF Fire
<1>2. timer \in [Servers -> Timers] /\ due \in [Servers -> SUBSET Timers]
  BY DEF Types
<1>3. [timer[s] EXCEPT !.armed = FALSE] \in Timers
  BY <1>2 DEF Timers
<1>4. timer' = [timer EXCEPT ![s] = [timer[s] EXCEPT !.armed = FALSE]]
  BY <1>1
<1>5. timer' \in [Servers -> Timers] /\ due' \in [Servers -> SUBSET Timers]
  BY <1>1, <1>2, <1>3, <1>4
<1>6. Types'
  BY <1>1, <1>5 DEF Types
<1>7. \A t \in Servers :
        timer'[t].kind = timer[t].kind /\ timer'[t].round = timer[t].round
  BY <1>2, <1>4 DEF Timers
<1> QED BY <1>1, <1>6, <1>7, TimersOfTheOwner

(* A timeout ends the round, for a new owner perhaps, or changes nothing. *)
LEMMA TimeoutKeeps ==
  ASSUME SessionInv, NEW s \in Servers, Timeout(s)
  PROVE  SessionInv'
<1> USE DEF SessionInv
<1>1. PICK t \in due[s] :
        /\ due' = [due EXCEPT ![s] = @ \ {t}]
        /\ \/ /\ Enter(s) /\ Counts(t)
              /\ ResolveRound(s, IF t.kind = "backup" THEN s ELSE room.owner)
           \/ UNCHANGED <<unsaved, timer, completed, inbox>>
        /\ UNCHANGED <<room, crashed, hosting, socket, absent, leaving, failures,
                       unchecked>>
  BY DEF Timeout
<1>2. due' \in [Servers -> SUBSET Timers]
  BY <1>1 DEF Types
<1>3. CASE /\ Enter(s) /\ Counts(t)
           /\ ResolveRound(s, IF t.kind = "backup" THEN s ELSE room.owner)
  <2> DEFINE owner == IF t.kind = "backup" THEN s ELSE room.owner
  <2>1. owner \in Servers
    BY DEF Types, PlayableRooms, Rooms
  <2>2. room.phase = "Planning" /\ unsaved.server = None
    BY <1>3 DEF Enter, Counts
  <2>3. ResolveRound(s, owner)
    BY <1>3
  <2> HIDE DEF owner
  <2>4. Types'
    BY <1>1, <1>2, <2>1, <2>2, <2>3, ResolveRoundTypes DEF Types
  <2> QED BY <1>1, <2>1, <2>2, <2>3, <2>4, ResolveRoundKeeps
<1>4. CASE UNCHANGED <<unsaved, timer, completed, inbox>>
  <2>1. Types'
    BY <1>1, <1>2, <1>4 DEF Types
  <2> QED BY <1>1, <1>4, <2>1, TimersOfTheOwner
<1> QED BY <1>1, <1>3, <1>4

(* A remote event never makes the receiver primary: it is from another     *)
(* server. *)
LEMMA ReceiveKeeps ==
  ASSUME SessionInv, NEW s \in Servers, Receive(s)
  PROVE  SessionInv'
<1> USE DEF SessionInv
<1>1. PICK i \in DOMAIN inbox[s] :
        /\ inbox' = [inbox EXCEPT ![s] = RemoveAt(@, i)]
        /\ Handle(s, inbox[s][i])
        /\ UNCHANGED <<room, unsaved, crashed, hosting, socket, absent, leaving, failures,
                       due, unchecked>>
  BY DEF Receive
<1> DEFINE e == inbox[s][i]
<1>2. e \in EventsFor(s)
  <2>1. inbox[s] \in Seq(EventsFor(s))
    BY DEF Types
  <2> QED BY <2>1, ElementOfSeq, LenProperties
<1>3. /\ DOMAIN inbox' = Servers
      /\ inbox' = [t \in Servers |-> inbox'[t]]
      /\ \A t \in Servers : inbox'[t] \in Seq(EventsFor(t))
  <2>1. RemoveAt(inbox[s], i) \in Seq(EventsFor(s))
    BY RemoveAtType DEF Types
  <2>2. inbox' = [t \in Servers |-> IF t = s THEN RemoveAt(inbox[s], i) ELSE inbox[t]]
    BY <1>1 DEF Types
  <2> QED BY <2>1, <2>2 DEF Types
<1>4. Handle(s, e)
  BY <1>1
<1> HIDE DEF e
<1>5. /\ timer \in [Servers -> Timers]
      /\ completed \in [Servers -> SUBSET Sides]
      /\ NoTimer \in Timers /\ NoTimer.kind = "none"
  BY BoundsAssumption DEF Types, NoTimer, Timers
<1>6. e \in Events /\ e.from # s /\ e.round \in 1..MaxRounds + 1
  BY <1>2 DEF EventsFor, Events
<1>7. completed' \in [Servers -> SUBSET Sides]
  BY <1>4, <1>5 DEF Handle
<1>8. \E new \in Timers :
        /\ timer' = [timer EXCEPT ![s] = new]
        /\ new = timer[s] \/ new.kind # "primary"
  <2>1. CASE e.kind = "RoundResolved"
    <3>1. e.round + 1 \in 1..MaxRounds + 1
      BY <1>2, <1>6, <2>1, BoundsAssumption DEF EventsFor
    <3>2. /\ NewTimer(s, e.round + 1, e.from) \in Timers
          /\ NewTimer(s, e.round + 1, e.from).kind # "primary"
      BY <1>6, <3>1, NewTimerType
    <3>3. timer' = [timer EXCEPT ![s] = KeepOrStart(s, e.round + 1, e.from)]
      BY <1>4, <2>1 DEF Handle
    <3>4. KeepOrStart(s, e.round + 1, e.from) \in {timer[s], NewTimer(s, e.round + 1, e.from)}
      BY DEF KeepOrStart
    <3> QED BY <1>5, <3>2, <3>3, <3>4
  <2>2. CASE e.kind = "RoundStarted"
    <3>1. /\ NewTimer(s, e.round, e.from) \in Timers
          /\ NewTimer(s, e.round, e.from).kind # "primary"
      BY <1>6, NewTimerType
    <3>2. timer' = [timer EXCEPT ![s] = NewTimer(s, e.round, e.from)]
      BY <1>4, <2>2 DEF Handle
    <3> QED BY <3>1, <3>2
  <2>3. CASE e.kind = "GameOver"
    BY <1>4, <1>5, <2>3 DEF Handle
  <2> QED BY <1>6, <2>1, <2>2, <2>3 DEF Events
<1>9. /\ timer' \in [Servers -> Timers]
      /\ \A t \in Servers : timer'[t] = timer[t] \/ timer'[t].kind # "primary"
  BY <1>5, <1>8
<1>10. Types'
  BY <1>1, <1>3, <1>7, <1>9 DEF Types
<1> QED BY <1>1, <1>9, <1>10, TimersOfTheOwner

(* A stopped server has no timer, and saves nothing. *)
LEMMA CrashKeeps ==
  ASSUME SessionInv, NEW s \in Servers, Crash(s)
  PROVE  SessionInv'
<1> USE DEF SessionInv
<1>1. /\ failures < MaxFailures /\ failures' = failures + 1
      /\ crashed' = crashed \cup {s}
      /\ hosting' = hosting \ {s}
      /\ unsaved' = IF unsaved.server = s THEN [unsaved EXCEPT !.server = None] ELSE unsaved
      /\ socket' = [side \in Sides |-> IF socket[side] = s THEN None ELSE socket[side]]
      /\ absent' = {a \in absent : a[1] # s}
      /\ leaving' = {l \in leaving : l[1] # s}
      /\ timer' = [timer EXCEPT ![s] = NoTimer]
      /\ due' = [due EXCEPT ![s] = {}]
      /\ completed' = [completed EXCEPT ![s] = {}]
      /\ unchecked' = {u \in unchecked : u[1] # s}
      /\ inbox' = [inbox EXCEPT ![s] = <<>>]
      /\ UNCHANGED room
  BY DEF Crash
<1>2. NoTimer \in Timers /\ NoTimer.kind = "none"
  BY BoundsAssumption DEF NoTimer, Timers
<1>3. timer \in [Servers -> Timers]
  BY DEF Types
<1>4. /\ unsaved' \in [server : Servers \cup {None}, room : PlayableRooms]
      /\ unsaved'.room = unsaved.room
      /\ unsaved'.server # None => unsaved' = unsaved /\ unsaved.server # s
      /\ unsaved.server # s => unsaved' = unsaved
  BY <1>1 DEF Types
<1>5. /\ DOMAIN inbox' = Servers
      /\ inbox' = [t \in Servers |-> inbox'[t]]
      /\ \A t \in Servers : inbox'[t] \in Seq(EventsFor(t))
  <2>1. inbox' = [t \in Servers |-> IF t = s THEN <<>> ELSE inbox[t]]
    BY <1>1 DEF Types
  <2> QED BY <2>1, EmptySeq DEF Types
<1>6. failures' \in 0..MaxFailures
  BY <1>1, BoundsAssumption DEF Types
<1>7. /\ crashed' \in SUBSET Servers /\ hosting' \in SUBSET (Servers \ crashed')
      /\ socket' \in [Sides -> Servers \cup {None}]
      /\ absent' \in SUBSET (Servers \X Sides)
      /\ leaving' \in SUBSET (Servers \X Sides)
      /\ unchecked' \in SUBSET (Servers \X Sides)
  BY <1>1 DEF Types
<1>8. /\ timer' \in [Servers -> Timers]
      /\ due' \in [Servers -> SUBSET Timers]
      /\ completed' \in [Servers -> SUBSET Sides]
  BY <1>1, <1>2 DEF Types
<1>9. Types'
  BY <1>1, <1>4, <1>5, <1>6, <1>7, <1>8 DEF Types
<1>10. SavesGoOn'
  BY <1>1, <1>4 DEF SavesGoOn
<1>11. \A t \in Servers :
         timer'[t].kind = "primary" => timer'[t] = timer[t] /\ t # s
  BY <1>1, <1>2, <1>3
<1>12. ASSUME NEW t \in Servers, timer'[t].kind = "primary"
       PROVE  /\ timer'[t].round = room'.round => room'.owner = t
              /\ timer'[t].round > room'.round =>
                   /\ unsaved'.server = t
                   /\ timer'[t].round = unsaved'.room.round
                   /\ unsaved'.room.owner = t
  BY <1>1, <1>4, <1>11, <1>12 DEF PrimariesOwn
<1>13. PrimariesOwn'
  BY <1>12 DEF PrimariesOwn
<1> QED BY <1>9, <1>10, <1>13

-----------------------------------------------------------------------------
(* Every step keeps the invariant. *)
LEMMA NextKeeps == SessionInv /\ [Next]_vars => SessionInv'
<1> SUFFICES ASSUME SessionInv, [Next]_vars PROVE SessionInv'
  OBVIOUS
<1>1. ASSUME NEW side \in Sides, NEW s \in Servers,
             Connect(side, s) \/ Disconnect(side, s) \/ Move(side, s)
      PROVE  SessionInv'
  BY <1>1, ConnectKeeps, DisconnectKeeps, MoveKeeps
<1>2. ASSUME NEW s \in Servers,
             \/ CheckAndResolveIfReady(s) \/ ForceGameOver(s)
             \/ Fire(s) \/ Timeout(s) \/ Receive(s) \/ Crash(s)
      PROVE  SessionInv'
  BY <1>2, CheckAndResolveIfReadyKeeps, ForceGameOverKeeps, FireKeeps, TimeoutKeeps,
     ReceiveKeeps, CrashKeeps
<1>3. CASE Save
  BY <1>3, SaveKeeps
<1>4. CASE UNCHANGED vars
  BY <1>4 DEF vars, SessionInv, Types, SavesGoOn, PrimariesOwn
<1> QED BY <1>1, <1>2, <1>3, <1>4 DEF Next

(* The invariant holds for ever. *)
THEOREM SessionCorrect == Spec => []SessionInv
<1> QED BY InitHolds, NextKeeps, PTL DEF Spec

(* The variables keep their types: no round beyond the limit is stored, to *)
(* be saved, timed or announced, whatever fails (SessionRegistry makes the *)
(* room, GameSession plays it). *)
THEOREM SessionTypeCorrect == Spec => []TypeOK
<1>1. SessionInv => TypeOK
  <2> SUFFICES ASSUME SessionInv PROVE TypeOK
    OBVIOUS
  <2>1. \A s \in Servers : inbox[s] \in Seq(Events)
    <3>1. \A s \in Servers : EventsFor(s) \subseteq Events
      BY DEF EventsFor
    <3> QED BY <3>1, SeqMonotonic DEF SessionInv, Types
  <2>2. inbox \in [Servers -> Seq(Events)]
    BY <2>1 DEF SessionInv, Types
  <2> QED BY <2>2 DEF SessionInv, Types, PlayableRooms, TypeOK
<1> QED BY <1>1, SessionCorrect, PTL

(* For the round the room is in, one server at most has the primary timer, *)
(* for any number of servers, takeovers, stops and reordered events        *)
(* (StartPlanningTimer decides it from a remembered owner). *)
THEOREM OnePrimaryAtMost == Spec => []OnePrimary
<1>1. SessionInv => OnePrimary
  BY DEF SessionInv, PrimariesOwn, OnePrimary
<1> QED BY <1>1, SessionCorrect, PTL

(* A game that is over is never played on: no call, timer or event of any  *)
(* server changes the stored room (the guards of OnPlanningTimeoutAsync,   *)
(* IsReadyForResolution and ForceGameOverAsync see to it). *)
THEOREM OverStaysOver == Spec => OverIsFinal
<1>1. SessionInv /\ [Next]_vars => [room.phase = "GameOver" => UNCHANGED room]_vars
  <2> SUFFICES ASSUME SessionInv, Next, room.phase = "GameOver" PROVE UNCHANGED room
    OBVIOUS
  <2>1. ~ Save
    BY DEF Save, SessionInv, SavesGoOn
  <2>2. \A side \in Sides, s \in Servers : ~ Move(side, s)
    BY DEF Move
  <2> QED BY <2>1, <2>2
       DEF Next, Connect, Disconnect, CheckAndResolveIfReady, ForceGameOver, Fire,
           Timeout, Receive, Crash
<1> QED BY <1>1, SessionCorrect, PTL DEF Spec, OverIsFinal

-----------------------------------------------------------------------------
(* No timer of a session is ahead of its room, for any servers and rounds, *)
(* refused locks and reordered events, as long as no server stops.         *)

(* The round the room has reached when the call in it, if any, has saved.  *)
Reached == IF unsaved.server = None THEN room.round ELSE unsaved.room.round

(* Events that start no timer for a later round. *)
Known ==
  {e \in Events : /\ e.kind = "RoundResolved" => e.round + 1 <= Reached
                  /\ e.kind = "RoundStarted" => e.round <= Reached}

NotAhead ==
  crashed = {} =>
    /\ \A s \in Servers : timer[s].round <= Reached
    /\ \A s \in Servers : inbox[s] \in Seq(Known)

(* Timers and rounds have their types. *)
LEMMA TimersAndRounds ==
  ASSUME SessionInv
  PROVE  /\ timer \in [Servers -> Timers]
         /\ room.round \in 1..MaxRounds + 1
         /\ room.round \in Nat
         /\ Reached \in Nat
<1>1. timer \in [Servers -> Timers]
  BY DEF SessionInv, Types
<1>2. /\ room.round \in 1..MaxRounds + 1
      /\ room.round \in Nat
      /\ Reached \in Nat
  BY BoundsAssumption DEF Reached, SessionInv, Types, PlayableRooms, Rooms
<1>. QED  BY <1>1, <1>2

(* A round is reached for good.  What a step has to show is that the       *)
(* timers and events it adds belong to it. *)
LEMMA StaysNotAhead ==
  ASSUME SessionInv, SessionInv', NotAhead, crashed = {},
         Reached' \in Nat, Reached <= Reached',
         \A s \in Servers : timer'[s].round <= Reached',
         \A s \in Servers : inbox'[s] \in Seq(Known) \cup Seq(Known')
  PROVE  NotAhead'
<1>1. Reached \in Nat
  BY SMTT(60), BoundsAssumption DEF Reached, SessionInv, Types, PlayableRooms, Rooms
<1>2. \A e \in Events : e.round \in Nat
  BY DEF Events
<1>3. Known \subseteq Known'
  <2>1. ASSUME NEW e \in Known PROVE e \in Known'
    <3>1. e \in Events /\ e.round \in Nat
      BY <1>2 DEF Known
    <3>2. /\ e.kind = "RoundResolved" => e.round + 1 <= Reached
          /\ e.kind = "RoundStarted" => e.round <= Reached
      BY DEF Known
    <3>3. /\ e.kind = "RoundResolved" => e.round + 1 <= Reached'
          /\ e.kind = "RoundStarted" => e.round <= Reached'
      BY <1>1, <3>1, <3>2
    <3>. QED  BY <3>1, <3>3 DEF Known
  <2>. QED  BY <2>1
<1>4. \A s \in Servers : inbox'[s] \in Seq(Known')
  BY <1>3, SeqMonotonic
<1>. QED  BY <1>4 DEF NotAhead

(* Most steps add neither a round nor an event. *)
LEMMA SameReachNotAhead ==
  ASSUME SessionInv, SessionInv', NotAhead, crashed = {},
         room'.round = room.round,
         unsaved' = unsaved,
         \A s \in Servers :
           timer'[s].round = timer[s].round \/ timer'[s].round <= Reached,
         \A s \in Servers : inbox'[s] \in Seq(Known)
  PROVE  NotAhead'
<1>1. Reached' = Reached /\ Reached \in Nat
  BY BoundsAssumption DEF Reached, SessionInv, Types, PlayableRooms, Rooms
<1>2. \A s \in Servers : timer'[s].round <= Reached'
  BY <1>1 DEF NotAhead
<1>3. \A s \in Servers : inbox'[s] \in Seq(Known) \cup Seq(Known')
  OBVIOUS
<1>4. Reached <= Reached'
  BY <1>1
<1>. QED  BY <1>1, <1>2, <1>3, <1>4, StaysNotAhead

(* What a call publishes is known once it has saved. *)
LEMMA PublishKnown ==
  ASSUME NotAhead, crashed = {}, NEW s \in Servers,
         NEW S, Known \subseteq S, NEW events \in Seq(S),
         Publish(s, events)
  PROVE  \A t \in Servers : inbox'[t] \in Seq(S)
<1>1. ASSUME NEW t \in Servers PROVE inbox'[t] \in Seq(S)
  <2>1. inbox[t] \in Seq(S)
    BY SeqMonotonic DEF NotAhead
  <2>2. CASE t \in hosting \ {s}
    <3>1. inbox'[t] = inbox[t] \o events
      BY <2>2 DEF Publish
    <3>. QED  BY <2>1, <3>1, ConcatProperties
  <2>3. CASE t \notin hosting \ {s}
    BY <2>1, <2>3 DEF Publish
  <2>. QED  BY <2>2, <2>3
<1>. QED  BY <1>1

(* The end of a round starts a timer for the round that is saved next. *)
LEMMA ResolveRoundNotAhead ==
  ASSUME SessionInv, SessionInv', NotAhead, crashed = {},
         NEW s \in Servers, NEW owner \in Servers,
         room.phase = "Planning", unsaved.server = None, ResolveRound(s, owner),
         UNCHANGED room
  PROVE  NotAhead'
<1> DEFINE next(over, moving) ==
      [phase |-> IF over THEN "GameOver" ELSE "Planning",
       round |-> room.round + 1, owner |-> owner,
       moving |-> IF over THEN {} ELSE moving]
<1>1. PICK over \in {TRUE} \cup IF room.round < MaxRounds THEN {FALSE} ELSE {},
           moving \in SUBSET Sides :
        /\ unsaved' = [server |-> s, room |-> next(over, moving)]
        /\ timer' = [timer EXCEPT ![s] =
             IF over THEN NoTimer ELSE NewTimer(s, next(over, moving).round, owner)]
        /\ Publish(s, <<Event("RoundResolved", room.round, s),
                        Event(IF over THEN "GameOver" ELSE "RoundStarted",
                              next(over, moving).round, s)>>)
  BY DEF ResolveRound
<1>2. {room.round, room.round + 1} \subseteq 1..MaxRounds + 1 /\ room.round \in Nat
  <2>1. room \in PlayableRooms /\ MaxRounds \in Nat
    BY BoundsAssumption DEF SessionInv, Types
  <2>2. room.round \in 1..MaxRounds + 1 /\ room.round <= MaxRounds
    BY <2>1 DEF PlayableRooms, Rooms
  <2>. QED  BY <2>1, <2>2
<1>3. Reached = room.round /\ Reached' = room.round + 1
  BY <1>1, ServersAssumption DEF Reached
<1>4. \A t \in Servers : timer'[t].round <= Reached'
  <2>1. timer \in [Servers -> Timers] /\ NoTimer.round = 0
    BY DEF SessionInv, Types, NoTimer
  <2>2. NewTimer(s, room.round + 1, owner).round = room.round + 1
    BY DEF NewTimer
  <2>3. timer'[s].round = 0 \/ timer'[s].round = room.round + 1
    BY <1>1, <2>1, <2>2
  <2>4. ASSUME NEW t \in Servers \ {s} PROVE timer'[t].round <= Reached'
    <3>1. timer'[t] = timer[t] /\ timer[t].round <= Reached
      BY <1>1, <2>1 DEF NotAhead
    <3>2. timer[t].round \in Int
      BY <2>1 DEF Timers
    <3>. QED  BY <1>2, <1>3, <3>1, <3>2
  <2>. QED  BY <1>2, <1>3, <2>3, <2>4
<1>5. \A t \in Servers : inbox'[t] \in Seq(Known')
  <2> DEFINE e == Event("RoundResolved", room.round, s)
             f == Event(IF over THEN "GameOver" ELSE "RoundStarted", room.round + 1, s)
  <2>1. e \in Known' /\ f \in Known'
    <3>1. e \in Events /\ e.kind = "RoundResolved" /\ e.round + 1 <= Reached'
      BY <1>2, <1>3 DEF Event, Events
    <3>2. f \in Events /\ f.kind # "RoundResolved" /\ f.round <= Reached'
      BY <1>2, <1>3 DEF Event, Events
    <3>. QED  BY <3>1, <3>2 DEF Known
  <2>2. Known \subseteq Known'
    <3>1. \A x \in Events : x.round \in Nat
      BY DEF Events
    <3>. QED  BY <1>2, <1>3, <3>1 DEF Known
  <2>3. Publish(s, <<e, f>>)
    BY <1>1
  <2> HIDE DEF e, f
  <2>4. <<e, f>> \in Seq(Known')
    BY <2>1
  <2>. QED  BY <2>2, <2>3, <2>4, PublishKnown
<1>6. Reached' \in Nat /\ Reached <= Reached'
  BY <1>2, <1>3
<1>. QED  BY <1>4, <1>5, <1>6, StaysNotAhead

(* A session that gets a socket takes the round of the room. *)
LEMMA ConnectNotAhead ==
  ASSUME SessionInv, SessionInv', NotAhead, crashed = {},
         NEW side \in Sides, NEW s \in Servers, Connect(side, s)
  PROVE  NotAhead'
<1>1. UNCHANGED <<room, unsaved, inbox>>
  BY DEF Connect
<1>2. timer \in [Servers -> Timers] /\ room.round \in Nat
  BY TimersAndRounds
<1>3. \/ timer' = timer
      \/ /\ unsaved.server = None
         /\ timer' = [timer EXCEPT ![s] = NewTimer(s, room.round, room.owner)]
  BY <1>2 DEF Connect
<1>4. NewTimer(s, room.round, room.owner).round = room.round
  BY DEF NewTimer
<1>5. \A t \in Servers :
        timer'[t].round = timer[t].round \/ timer'[t].round <= Reached
  BY <1>2, <1>3, <1>4 DEF Reached
<1>. QED  BY <1>1, <1>5, SameReachNotAhead DEF NotAhead

(* Orders and lost sockets start no timer. *)
LEMMA PlayersNotAhead ==
  ASSUME SessionInv, SessionInv', NotAhead, crashed = {},
         NEW side \in Sides, NEW s \in Servers,
         Move(side, s) \/ Disconnect(side, s)
  PROVE  NotAhead'
<1>1. UNCHANGED <<unsaved, timer, inbox>>
  BY DEF Move, Disconnect
<1>2. room'.round = room.round
  BY DEF Move, Disconnect, SessionInv, Types, PlayableRooms, Rooms
<1>. QED  BY <1>1, <1>2, SameReachNotAhead DEF NotAhead

(* A call that ends the round, the game, or nothing. *)
LEMMA CallsNotAhead ==
  ASSUME SessionInv, SessionInv', NotAhead, crashed = {}, NEW s \in Servers,
         CheckAndResolveIfReady(s) \/ Timeout(s) \/ ForceGameOver(s)
  PROVE  NotAhead'
<1>1. UNCHANGED room
  BY DEF CheckAndResolveIfReady, Timeout, ForceGameOver
<1>2. CASE UNCHANGED <<unsaved, timer, inbox>>
  BY <1>1, <1>2, SameReachNotAhead DEF NotAhead
<1>3. CASE \E owner \in Servers :
             Enter(s) /\ room.phase = "Planning" /\ ResolveRound(s, owner)
  BY <1>1, <1>3, ResolveRoundNotAhead DEF Enter
<1>4. CASE /\ Enter(s)
           /\ unsaved' = [server |-> s, room |-> [room EXCEPT !.phase = "GameOver"]]
           /\ timer' = [timer EXCEPT ![s] = NoTimer]
           /\ Publish(s, <<Event("GameOver", room.round, s)>>)
  <2>1. /\ room.round \in 1..MaxRounds + 1 /\ room.round \in Nat
        /\ timer \in [Servers -> Timers]
    BY TimersAndRounds
  <2>2. Reached = room.round /\ Reached' = room.round
    BY <1>4, ServersAssumption DEF Reached, Enter, SessionInv, Types,
       PlayableRooms, Rooms
  <2>3. \A t \in Servers : timer'[t].round <= Reached'
    BY <1>4, <2>1, <2>2 DEF NotAhead, NoTimer
  <2>4. <<Event("GameOver", room.round, s)>> \in Seq(Known)
    <3>1. Event("GameOver", room.round, s) \in Known
      BY <2>1 DEF Event, Events, Known
    <3>. QED  BY <3>1
  <2>5. \A t \in Servers : inbox'[t] \in Seq(Known)
    BY <1>4, <2>4, PublishKnown
  <2>6. Reached' \in Nat /\ Reached <= Reached'
    BY <2>1, <2>2
  <2>. QED  BY <2>3, <2>5, <2>6, StaysNotAhead
<1>5. room.owner \in Servers
  BY DEF SessionInv, Types, PlayableRooms, Rooms
<1>6. CASE CheckAndResolveIfReady(s)
  BY <1>2, <1>3, <1>5, <1>6 DEF CheckAndResolveIfReady, Ready
<1>7. CASE Timeout(s)
  <2>1. PICK t \in due[s] :
          \/ /\ Enter(s) /\ Counts(t)
             /\ ResolveRound(s, IF t.kind = "backup" THEN s ELSE room.owner)
          \/ UNCHANGED <<unsaved, timer, completed, inbox>>
    BY <1>7 DEF Timeout
  <2>2. (IF t.kind = "backup" THEN s ELSE room.owner) \in Servers
    BY <1>5
  <2>. QED  BY <1>2, <1>3, <2>1, <2>2 DEF Counts
<1>8. CASE ForceGameOver(s)
  BY <1>2, <1>4, <1>8 DEF ForceGameOver
<1>. QED  BY <1>6, <1>7, <1>8

(* What is saved was reached when it was prepared. *)
LEMMA SaveNotAhead ==
  ASSUME SessionInv, SessionInv', NotAhead, crashed = {}, Save
  PROVE  NotAhead'
<1>1. /\ unsaved.server # None /\ room' = unsaved.room
      /\ unsaved' = [unsaved EXCEPT !.server = None]
      /\ UNCHANGED <<timer, inbox>>
  BY DEF Save
<1>2. Reached' = Reached /\ Reached \in Nat
  BY <1>1, BoundsAssumption DEF Reached, SessionInv, Types, PlayableRooms, Rooms
<1>3. \A s \in Servers : timer'[s].round <= Reached'
  BY <1>1, <1>2 DEF NotAhead
<1>4. \A s \in Servers : inbox'[s] \in Seq(Known)
  BY <1>1 DEF NotAhead
<1>5. Reached <= Reached'
  BY <1>2
<1>. QED  BY <1>2, <1>3, <1>4, <1>5, StaysNotAhead

(* A timer that fires keeps its round. *)
LEMMA FireNotAhead ==
  ASSUME SessionInv, SessionInv', NotAhead, crashed = {}, NEW s \in Servers, Fire(s)
  PROVE  NotAhead'
<1>1. timer' = [timer EXCEPT ![s].armed = FALSE] /\ UNCHANGED <<room, unsaved, inbox>>
  BY DEF Fire
<1>2. timer \in [Servers -> Timers]
  BY DEF SessionInv, Types
<1>3. \A t \in Servers : timer'[t].round = timer[t].round
  BY <1>1, <1>2 DEF Timers
<1>. QED  BY <1>1, <1>3, SameReachNotAhead DEF NotAhead

(* A late event starts a timer for an early round. *)
LEMMA ReceiveNotAhead ==
  ASSUME SessionInv, SessionInv', NotAhead, crashed = {}, NEW s \in Servers, Receive(s)
  PROVE  NotAhead'
<1>1. PICK i \in DOMAIN inbox[s] :
        /\ inbox' = [inbox EXCEPT ![s] = RemoveAt(@, i)]
        /\ Handle(s, inbox[s][i])
        /\ UNCHANGED <<room, unsaved>>
  BY DEF Receive
<1> DEFINE e == inbox[s][i]
<1>2. inbox[s] \in Seq(Known)
  BY DEF NotAhead
<1>3. e \in Known
  BY <1>2, ElementOfSeq, LenProperties
<1>4. \A t \in Servers : inbox'[t] \in Seq(Known)
  <2>1. RemoveAt(inbox[s], i) \in Seq(Known)
    BY <1>2, RemoveAtType
  <2>2. inbox' = [t \in Servers |->
                    IF t = s THEN RemoveAt(inbox[s], i) ELSE inbox[t]]
    BY <1>1 DEF SessionInv, Types
  <2>. QED  BY <2>1, <2>2 DEF NotAhead
<1>5. Handle(s, e)
  BY <1>1
<1> HIDE DEF e
<1>6. timer \in [Servers -> Timers] /\ Reached \in Nat
  BY TimersAndRounds
<1>7. \E new :
        /\ timer' = [timer EXCEPT ![s] = new]
        /\ new = timer[s] \/ new.round <= Reached
  <2>1. CASE e.kind = "RoundResolved"
    <3>1. NewTimer(s, e.round + 1, e.from).round <= Reached
      BY <1>3, <2>1 DEF Known, NewTimer
    <3>2. timer' = [timer EXCEPT ![s] = KeepOrStart(s, e.round + 1, e.from)]
      BY <1>5, <2>1 DEF Handle
    <3>3. KeepOrStart(s, e.round + 1, e.from)
            \in {timer[s], NewTimer(s, e.round + 1, e.from)}
      BY DEF KeepOrStart
    <3>. QED  BY <3>1, <3>2, <3>3
  <2>2. CASE e.kind = "RoundStarted"
    <3>1. NewTimer(s, e.round, e.from).round <= Reached
      BY <1>3, <2>2 DEF Known, NewTimer
    <3>. QED  BY <1>5, <2>2, <3>1 DEF Handle
  <2>3. CASE e.kind = "GameOver"
    <3>1. NoTimer.round <= Reached
      BY <1>6 DEF NoTimer
    <3>. QED  BY <1>5, <2>3, <3>1 DEF Handle
  <2>. QED  BY <1>3, <2>1, <2>2, <2>3 DEF Known, Events
<1>8. \A t \in Servers :
        timer'[t].round = timer[t].round \/ timer'[t].round <= Reached
  BY <1>6, <1>7
<1>. QED  BY <1>1, <1>4, <1>8, SameReachNotAhead

(* As long as no server stops, no timer is for a round that the room has   *)
(* not reached and will not reach by the save under way (TimersAreNotAhead: *)
(* StartPlanningTimer is called before the save, GameSession.cs:541, and by *)
(* events in any order, GameSession.cs:754). *)
THEOREM NoTimerIsAhead == Spec => [](crashed = {} => TimersAreNotAhead)
<1>1. ASSUME Init PROVE NotAhead
  <2>1. /\ room.round = 1 /\ unsaved.server = None
        /\ \A s \in Servers : timer[s].round = 0 /\ inbox[s] = <<>>
    BY <1>1 DEF Init, NoTimer
  <2>2. Reached = 1
    BY <2>1 DEF Reached
  <2>3. \A s \in Servers : timer[s].round <= Reached
    BY <2>1, <2>2
  <2>4. \A s \in Servers : inbox[s] \in Seq(Known)
    BY <2>1, EmptySeq
  <2>. QED  BY <2>3, <2>4 DEF NotAhead
<1>2. ASSUME SessionInv, SessionInv', NotAhead, [Next]_vars PROVE NotAhead'
  <2>1. CASE crashed' # {}
    BY <2>1 DEF NotAhead
  <2>2. CASE UNCHANGED vars
    BY <1>2, <2>2 DEF vars, NotAhead, Known, Reached
  <2>3. CASE Next /\ crashed' = {}
    <3>1. \A s \in Servers : ~ Crash(s)
      BY <2>3 DEF Crash
    <3>2. crashed = {}
      BY <2>3, <3>1 DEF Next, Connect, Disconnect, Move, CheckAndResolveIfReady,
         ForceGameOver, Fire, Timeout, Receive, Save
    <3>3. ASSUME NEW side \in Sides, NEW s \in Servers,
                 Connect(side, s) \/ Disconnect(side, s) \/ Move(side, s)
          PROVE  NotAhead'
      BY <1>2, <3>2, <3>3, ConnectNotAhead, PlayersNotAhead
    <3>4. ASSUME NEW s \in Servers,
                 \/ CheckAndResolveIfReady(s) \/ ForceGameOver(s)
                 \/ Fire(s) \/ Timeout(s) \/ Receive(s)
          PROVE  NotAhead'
      BY <1>2, <3>2, <3>4, CallsNotAhead, FireNotAhead, ReceiveNotAhead
    <3>5. CASE Save
      BY <1>2, <3>2, <3>5, SaveNotAhead
    <3>. QED  BY <2>3, <3>1, <3>3, <3>4, <3>5 DEF Next
  <2>. QED  BY <1>2, <2>1, <2>2, <2>3
<1>3. NotAhead => (crashed = {} => TimersAreNotAhead)
  BY DEF NotAhead, Reached, TimersAreNotAhead
<1>. QED  BY <1>1, <1>2, <1>3, SessionCorrect, PTL DEF Spec

-----------------------------------------------------------------------------
(* The timers bring every round to its end, for any number of rounds, as   *)
(* long as no call is refused the lock, nothing fails, and events do not   *)
(* overtake each other: then, of two servers, one always has a timer for   *)
(* the round that is played, or will start it with the last event on its   *)
(* way there. *)
Calm ==
  /\ ~ MayRefuse /\ ~ MayReorder /\ MaxFailures = 0
  /\ \A s, t, u \in Servers : t # s /\ u # s => t = u

(* The room as it is when the call in it, if any, has saved. *)
Coming == IF unsaved.server = None THEN room ELSE unsaved.room

TimedFor(s, round) ==
  \/ timer[s].armed /\ timer[s].round = round
  \/ \E t \in due[s] : t.round = round

Kept(s) ==
  IF inbox[s] = <<>> THEN TimedFor(s, Coming.round)
  ELSE /\ inbox[s][Len(inbox[s])].kind = "RoundStarted"
       /\ inbox[s][Len(inbox[s])].round = Coming.round

Started == \E s \in Servers : timer[s].kind # "none"

(* Until a player has connected nothing happens. *)
Unstarted ==
  /\ unsaved.server = None
  /\ unchecked = {}
  /\ \A side \in Sides : socket[side] = None
  /\ \A s \in Servers : inbox[s] = <<>> /\ due[s] = {}

(* Events come from sessions, and a GameOver from the end of the game. *)
EventsInv ==
  \A s \in Servers : \A i \in 1..Len(inbox[s]) :
    /\ inbox[s][i].from \in hosting
    /\ inbox[s][i].kind = "GameOver" => Coming.phase = "GameOver"

TimedInv ==
  /\ failures = 0 /\ leaving = {}
  /\ EventsInv
  /\ \A s \in Servers : timer[s].kind = "none" => ~ timer[s].armed
  /\ Coming.phase = "Planning" => IF Started THEN \E s \in Servers : Kept(s) ELSE Unstarted

(* The inboxes hold events of others. *)
LEMMA InboxFacts ==
  ASSUME SessionInv, NEW s \in Servers
  PROVE  /\ inbox[s] \in Seq(Events) /\ Len(inbox[s]) \in Nat
         /\ inbox[s] # <<>> => Len(inbox[s]) \in 1..Len(inbox[s])
         /\ \A i \in 1..Len(inbox[s]) :
              inbox[s][i] \in Events /\ inbox[s][i].from \in Servers \ {s}
<1>1. inbox[s] \in Seq(EventsFor(s))
  BY DEF SessionInv, Types
<1>2. EventsFor(s) \subseteq Events /\ \A e \in EventsFor(s) : e.from \in Servers \ {s}
  BY DEF EventsFor, Events
<1>3. inbox[s] \in Seq(Events)
  BY <1>1, <1>2, SeqMonotonic
<1>4. Len(inbox[s]) \in Nat /\ (inbox[s] # <<>> => Len(inbox[s]) # 0)
  BY <1>3, LenProperties, EmptySeq
<1>5. \A i \in 1..Len(inbox[s]) : inbox[s][i] \in EventsFor(s)
  BY <1>1, ElementOfSeq
<1>. QED  BY <1>2, <1>3, <1>4, <1>5

(* The phase of the coming room is one of the two. *)
LEMMA ComingFacts ==
  ASSUME SessionInv
  PROVE  /\ Coming \in Rooms /\ room \in Rooms
         /\ timer \in [Servers -> Timers]
         /\ \A s \in Servers : s # None
BY ServersAssumption DEF SessionInv, Types, PlayableRooms, Coming

(* A step that neither ends a round nor takes an event keeps what times    *)
(* the round. *)
LEMMA TimesOn ==
  ASSUME SessionInv, TimedInv, Started \/ Coming.phase # "Planning",
         Coming'.phase = Coming.phase, Coming'.round = Coming.round,
         failures' = 0, leaving' = {}, hosting \subseteq hosting', inbox' = inbox,
         \A s \in Servers :
           /\ timer'[s].kind = "none" => ~ timer'[s].armed
           /\ timer[s].kind # "none" => timer'[s].kind # "none"
           /\ TimedFor(s, Coming.round) => TimedFor(s, Coming.round)'
  PROVE  TimedInv'
<1>1. EventsInv'
  BY DEF TimedInv, EventsInv
<1>2. ASSUME Coming.phase = "Planning" PROVE Started' /\ \E s \in Servers : Kept(s)'
  <2>1. PICK s \in Servers : Kept(s)
    BY <1>2 DEF TimedInv
  <2>2. Kept(s)'
    BY <2>1 DEF Kept
  <2>3. Started'
    BY <1>2 DEF Started
  <2>. QED  BY <2>2, <2>3
<1>. QED  BY <1>1, <1>2 DEF TimedInv

(* The first who connects starts a timer. *)
LEMMA ConnectTimed ==
  ASSUME Calm, SessionInv, TimedInv, NEW side \in Sides, NEW s \in Servers,
         Connect(side, s)
  PROVE  TimedInv'
<1> DEFINE new == NewTimer(s, room.round, room.owner)
<1>1. /\ unsaved.server = None
      /\ UNCHANGED <<room, unsaved, leaving, failures, due, inbox>>
      /\ hosting \subseteq hosting'
      /\ timer' = [timer EXCEPT ![s] =
           IF room.phase = "Planning" /\ timer[s].kind = "none" THEN new ELSE timer[s]]
  BY DEF Connect, Calm
<1>2. Coming = room /\ Coming' = room
  BY <1>1 DEF Coming
<1>3. new.kind # "none" /\ new.armed /\ new.round = room.round
  BY DEF NewTimer
<1>4. timer \in [Servers -> Timers]
  BY ComingFacts
<1> HIDE DEF new
<1>5. /\ \A t \in Servers \ {s} : timer'[t] = timer[t]
      /\ timer'[s] = IF room.phase = "Planning" /\ timer[s].kind = "none"
                     THEN new ELSE timer[s]
  BY <1>1, <1>4
<1>6. CASE Started \/ Coming.phase # "Planning"
  <2>1. \A t \in Servers :
          /\ timer'[t].kind = "none" => ~ timer'[t].armed
          /\ timer[t].kind # "none" => timer'[t].kind # "none"
    BY <1>3, <1>5 DEF TimedInv
  <2>2. ASSUME NEW t \in Servers, TimedFor(t, Coming.round)
        PROVE  TimedFor(t, Coming.round)'
    BY <1>1, <1>2, <1>3, <1>5, <2>2 DEF TimedFor
  <2>3. failures' = 0 /\ leaving' = {}
    BY <1>1 DEF TimedInv
  <2>. QED  BY <1>1, <1>2, <1>6, <2>1, <2>2, <2>3, TimesOn
<1>7. CASE ~ Started /\ Coming.phase = "Planning"
  <2>1. Unstarted /\ timer[s].kind = "none"
    BY <1>7 DEF TimedInv, Started
  <2>2. timer'[s] = new /\ Started'
    BY <1>2, <1>3, <1>5, <1>7, <2>1 DEF Started
  <2>3. inbox'[s] = <<>> /\ TimedFor(s, room.round)'
    BY <1>1, <1>3, <2>1, <2>2 DEF Unstarted, TimedFor
  <2>4. Kept(s)'
    BY <1>1, <1>2, <2>3 DEF Kept
  <2>5. EventsInv'
    BY <1>1, <1>2 DEF TimedInv, EventsInv
  <2>. QED  BY <1>1, <1>3, <1>5, <2>2, <2>4, <2>5 DEF TimedInv
<1>. QED  BY <1>6, <1>7

(* A command keeps the phase and the round. *)
LEMMA MoveTimed ==
  ASSUME SessionInv, TimedInv, NEW side \in Sides, NEW s \in Servers, Move(side, s)
  PROVE  TimedInv'
<1>1. /\ unsaved.server = None /\ socket[side] = s
      /\ UNCHANGED <<unsaved, hosting, leaving, failures, timer, due, inbox>>
      /\ room'.phase = room.phase /\ room'.round = room.round
  BY DEF Move, Enter, SessionInv, Types, PlayableRooms, Rooms
<1>2. Coming'.phase = Coming.phase /\ Coming'.round = Coming.round
  BY <1>1 DEF Coming
<1>3. ~ Unstarted
  BY <1>1, ComingFacts DEF Unstarted
<1>4. Started \/ Coming.phase # "Planning"
  BY <1>3 DEF TimedInv
<1>5. \A t \in Servers : TimedFor(t, Coming.round) => TimedFor(t, Coming.round)'
  BY <1>1, <1>2 DEF TimedFor
<1>. QED  BY <1>1, <1>2, <1>4, <1>5, TimesOn DEF TimedInv

(* What is saved is the room that was coming. *)
LEMMA SaveTimed ==
  ASSUME SessionInv, TimedInv, Save
  PROVE  TimedInv'
<1>1. /\ unsaved.server # None /\ room' = unsaved.room /\ unsaved'.server = None
      /\ UNCHANGED <<hosting, leaving, failures, timer, due, inbox>>
  BY DEF Save, SessionInv, Types
<1>2. Coming' = Coming
  BY <1>1 DEF Coming
<1>3. Started \/ Coming.phase # "Planning"
  BY <1>1 DEF TimedInv, Unstarted
<1>4. \A t \in Servers : TimedFor(t, Coming.round) => TimedFor(t, Coming.round)'
  BY <1>1, <1>2 DEF TimedFor
<1>. QED  BY <1>1, <1>2, <1>3, <1>4, TimesOn DEF TimedInv

(* A timer that fires leaves its callback. *)
LEMMA FireTimed ==
  ASSUME SessionInv, TimedInv, NEW s \in Servers, Fire(s)
  PROVE  TimedInv'
<1>1. /\ timer[s].armed
      /\ timer' = [timer EXCEPT ![s].armed = FALSE]
      /\ due' = [due EXCEPT ![s] = @ \cup {timer[s]}]
      /\ UNCHANGED <<room, unsaved, hosting, leaving, failures, inbox>>
  BY DEF Fire
<1>2. timer \in [Servers -> Timers] /\ due \in [Servers -> SUBSET Timers]
  BY DEF SessionInv, Types
<1>3. /\ \A t \in Servers \ {s} : timer'[t] = timer[t] /\ due'[t] = due[t]
      /\ timer'[s] = [timer[s] EXCEPT !.armed = FALSE]
      /\ due'[s] = due[s] \cup {timer[s]}
  BY <1>1, <1>2
<1>4. ~ timer'[s].armed /\ timer'[s].kind = timer[s].kind
  BY <1>2, <1>3 DEF Timers
<1>5. Coming' = Coming
  BY <1>1 DEF Coming
<1>6. Started
  BY <1>1 DEF TimedInv, Started
<1>7. ASSUME NEW t \in Servers, TimedFor(t, Coming.round)
      PROVE  TimedFor(t, Coming.round)'
  BY <1>3, <1>5, <1>7 DEF TimedFor
<1>8. \A t \in Servers :
        /\ timer'[t].kind = "none" => ~ timer'[t].armed
        /\ timer[t].kind # "none" => timer'[t].kind # "none"
  BY <1>3, <1>4 DEF TimedInv
<1>. QED  BY <1>1, <1>5, <1>6, <1>7, <1>8, TimesOn DEF TimedInv

(* Who ends a round has a timer for the next one, unless an event waits to *)
(* replace it; then its sender is told of the next round. *)
LEMMA ResolveRoundTimed ==
  ASSUME SessionInv, TimedInv, NEW s \in Servers, NEW owner \in Servers,
         s \in hosting, unsaved.server = None, room.phase = "Planning",
         ResolveRound(s, owner), UNCHANGED <<room, hosting, leaving, failures>>
  PROVE  TimedInv'
<1>1. PICK over \in BOOLEAN, moving \in SUBSET Sides :
        /\ unsaved' = [server |-> s, room |->
             [phase |-> IF over THEN "GameOver" ELSE "Planning",
              round |-> room.round + 1, owner |-> owner,
              moving |-> IF over THEN {} ELSE moving]]
        /\ timer' = [timer EXCEPT ![s] =
             IF over THEN NoTimer ELSE NewTimer(s, room.round + 1, owner)]
        /\ Publish(s, <<Event("RoundResolved", room.round, s),
                        Event(IF over THEN "GameOver" ELSE "RoundStarted",
                              room.round + 1, s)>>)
  BY DEF ResolveRound
<1> DEFINE e == Event("RoundResolved", room.round, s)
           f == Event(IF over THEN "GameOver" ELSE "RoundStarted", room.round + 1, s)
<1>2. /\ Coming = room
      /\ Coming'.phase = IF over THEN "GameOver" ELSE "Planning"
      /\ Coming'.round = room.round + 1
  BY <1>1, ComingFacts DEF Coming
<1>3. /\ e.from = s /\ e.kind = "RoundResolved"
      /\ f.from = s /\ f.kind = (IF over THEN "GameOver" ELSE "RoundStarted")
      /\ f.round = room.round + 1
      /\ e \in Events /\ f \in Events
  <2>1. room.round \in 1..MaxRounds + 1 /\ room.round <= MaxRounds
    BY DEF SessionInv, Types, PlayableRooms, Rooms
  <2>2. room.round + 1 \in 1..MaxRounds + 1
    BY <2>1, BoundsAssumption
  <2>. QED  BY <2>1, <2>2 DEF Event, Events
<1>4. \A t \in Servers :
        inbox'[t] = IF t \in hosting \ {s} THEN inbox[t] \o <<e, f>> ELSE inbox[t]
  BY <1>1 DEF Publish
<1> HIDE DEF e, f
<1>5. \A t \in hosting \ {s} :
        /\ Len(inbox'[t]) = Len(inbox[t]) + 2 /\ Len(inbox[t]) \in Nat
        /\ \A i \in 1..Len(inbox[t]) : inbox'[t][i] = inbox[t][i]
        /\ inbox'[t][Len(inbox[t]) + 1] = e /\ inbox'[t][Len(inbox[t]) + 2] = f
  <2> SUFFICES ASSUME NEW t \in hosting \ {s}
               PROVE  /\ Len(inbox'[t]) = Len(inbox[t]) + 2 /\ Len(inbox[t]) \in Nat
                      /\ \A i \in 1..Len(inbox[t]) : inbox'[t][i] = inbox[t][i]
                      /\ inbox'[t][Len(inbox[t]) + 1] = e
                      /\ inbox'[t][Len(inbox[t]) + 2] = f
    OBVIOUS
  <2>1. t \in Servers /\ inbox[t] \in Seq(Events) /\ Len(inbox[t]) \in Nat
    BY InboxFacts DEF SessionInv, Types
  <2>2. <<e, f>> \in Seq(Events) /\ Len(<<e, f>>) = 2
        /\ <<e, f>>[1] = e /\ <<e, f>>[2] = f
    BY <1>3
  <2>3. inbox'[t] = inbox[t] \o <<e, f>>
    BY <1>4, <2>1
  <2>. QED  BY <2>1, <2>2, <2>3, ConcatProperties
<1>6. EventsInv'
  <2> SUFFICES ASSUME NEW t \in Servers, NEW i \in 1..Len(inbox'[t])
               PROVE  /\ inbox'[t][i].from \in hosting
                      /\ inbox'[t][i].kind = "GameOver" => Coming'.phase = "GameOver"
    BY DEF EventsInv
  <2>1. \A j \in 1..Len(inbox[t]) :
          inbox[t][j].from \in hosting /\ inbox[t][j].kind # "GameOver"
    BY <1>2 DEF TimedInv, EventsInv
  <2>2. CASE t \in hosting \ {s}
    <3>1. \/ i \in 1..Len(inbox[t])
          \/ i = Len(inbox[t]) + 1
          \/ i = Len(inbox[t]) + 2
      BY <1>5, <2>2
    <3>2. /\ e.from \in hosting /\ f.from \in hosting
          /\ e.kind # "GameOver"
          /\ f.kind = "GameOver" => Coming'.phase = "GameOver"
      BY <1>2, <1>3
    <3>3. inbox'[t][i] \in {inbox[t][j] : j \in 1..Len(inbox[t])} \cup {e, f}
      BY <1>5, <2>2, <3>1
    <3>. QED  BY <1>2, <2>1, <3>2, <3>3
  <2>3. CASE t \notin hosting \ {s}
    BY <1>4, <2>1, <2>3
  <2>. QED  BY <2>2, <2>3
<1>7. /\ timer'[s] = IF over THEN NoTimer ELSE NewTimer(s, room.round + 1, owner)
      /\ \A t \in Servers \ {s} : timer'[t] = timer[t]
  BY <1>1, ComingFacts
<1>8. \A t \in Servers : timer'[t].kind = "none" => ~ timer'[t].armed
  BY <1>7 DEF TimedInv, NoTimer, NewTimer
<1>9. CASE over
  BY <1>2, <1>6, <1>8, <1>9 DEF TimedInv
<1>10. CASE ~ over
  <2>1. /\ timer'[s].armed /\ timer'[s].round = room.round + 1
        /\ timer'[s].kind # "none"
    BY <1>7, <1>10 DEF NewTimer
  <2>2. Started'
    BY <2>1 DEF Started
  <2>3. \E t \in Servers : Kept(t)'
    <3>1. CASE inbox[s] = <<>>
      <4>1. inbox'[s] = <<>>
        BY <1>4, <3>1
      <4>. QED  BY <1>2, <2>1, <4>1 DEF Kept, TimedFor
    <3>2. CASE inbox[s] # <<>>
      <4>1. 1 \in 1..Len(inbox[s])
        BY <3>2, InboxFacts
      <4>2. PICK t \in Servers \ {s} : t = inbox[s][1].from /\ t \in hosting
        BY <4>1, InboxFacts DEF TimedInv, EventsInv
      <4>3. /\ Len(inbox'[t]) = Len(inbox[t]) + 2 /\ Len(inbox[t]) \in Nat
            /\ inbox'[t][Len(inbox'[t])] = f
        BY <1>5, <4>2
      <4>4. inbox'[t] # <<>>
        BY <4>3
      <4>. QED  BY <1>2, <1>3, <1>10, <4>3, <4>4 DEF Kept
    <3>. QED  BY <3>1, <3>2
  <2>. QED  BY <1>6, <1>8, <2>2, <2>3 DEF TimedInv
<1>. QED  BY <1>9, <1>10

(* A call that ends the round, or finds that there is nothing to do. *)
LEMMA CallsTimed ==
  ASSUME Calm, SessionInv, TimedInv, NEW s \in Servers,
         CheckAndResolveIfReady(s) \/ Timeout(s)
  PROVE  TimedInv'
<1>1. UNCHANGED <<room, hosting, leaving, failures>>
  BY DEF CheckAndResolveIfReady, Timeout
<1>2. room.owner \in Servers
  BY DEF SessionInv, Types, PlayableRooms, Rooms
<1>3. CASE \E owner \in Servers :
             Enter(s) /\ room.phase = "Planning" /\ ResolveRound(s, owner)
  BY <1>1, <1>3, ResolveRoundTimed DEF Enter
<1>4. UNCHANGED unsaved => Coming' = Coming
  BY <1>1 DEF Coming
<1>5. CASE CheckAndResolveIfReady(s) /\ UNCHANGED <<unsaved, timer, inbox>>
  <2>1. unchecked # {} /\ due' = due
    BY <1>5 DEF CheckAndResolveIfReady
  <2>2. Started \/ Coming.phase # "Planning"
    BY <2>1 DEF TimedInv, Unstarted
  <2>3. \A t \in Servers : TimedFor(t, Coming.round) => TimedFor(t, Coming.round)'
    BY <1>4, <1>5, <2>1 DEF TimedFor
  <2>. QED  BY <1>1, <1>4, <1>5, <2>2, <2>3, TimesOn DEF TimedInv
<1>6. CASE Timeout(s)
  <2>1. PICK t \in due[s] :
          /\ due' = [due EXCEPT ![s] = @ \ {t}]
          /\ \/ /\ Enter(s) /\ Counts(t)
                /\ ResolveRound(s, IF t.kind = "backup" THEN s ELSE room.owner)
             \/ /\ Enter(s) /\ ~ Counts(t)
                /\ UNCHANGED <<unsaved, timer, completed, inbox>>
    BY <1>6 DEF Timeout, Calm
  <2>2. (IF t.kind = "backup" THEN s ELSE room.owner) \in Servers
    BY <1>2
  <2>3. CASE /\ Enter(s) /\ ~ Counts(t)
             /\ UNCHANGED <<unsaved, timer, completed, inbox>>
    <3>1. Coming = room
      BY <2>3 DEF Enter, Coming
    <3>2. Started \/ Coming.phase # "Planning"
      BY DEF TimedInv, Unstarted
    <3>3. CASE Coming.phase # "Planning"
      BY <1>1, <1>4, <2>3, <3>3 DEF TimedInv, EventsInv
    <3>4. CASE Coming.phase = "Planning"
      <4>1. t.round # Coming.round
        BY <2>3, <3>1, <3>4 DEF Counts
      <4>2. due \in [Servers -> SUBSET Timers]
        BY DEF SessionInv, Types
      <4>3. due'[s] = due[s] \ {t} /\ \A u \in Servers \ {s} : due'[u] = due[u]
        BY <2>1, <4>2
      <4>4. ASSUME NEW u \in Servers, TimedFor(u, Coming.round)
            PROVE  TimedFor(u, Coming.round)'
        BY <1>4, <2>3, <4>1, <4>3, <4>4 DEF TimedFor
      <4>. QED  BY <1>1, <1>4, <2>3, <3>2, <4>4, TimesOn DEF TimedInv
    <3>. QED  BY <3>3, <3>4
  <2>. QED  BY <1>3, <2>1, <2>2, <2>3 DEF Counts
<1>. QED  BY <1>2, <1>3, <1>5, <1>6 DEF CheckAndResolveIfReady, Ready, Calm

(* Without its first event an inbox holds the others. *)
LEMMA FirstRemoved ==
  ASSUME NEW S, NEW q \in Seq(S), 1 \in 1..Len(q)
  PROVE  /\ Len(RemoveAt(q, 1)) = Len(q) - 1
         /\ \A i \in 1..Len(q) - 1 : RemoveAt(q, 1)[i] = q[i + 1]
         /\ Len(q) = 1 => RemoveAt(q, 1) = <<>>
<1>1. Len(q) \in Nat /\ \A i \in 2..Len(q) : q[i] \in S
  BY LenProperties, ElementOfSeq
<1>2. SubSeq(q, 1, 0) = <<>>
  BY <1>1
<1>3. SubSeq(q, 2, Len(q)) \in Seq(S) /\ Len(SubSeq(q, 2, Len(q))) = Len(q) - 1
      /\ \A i \in 1..Len(q) - 1 : SubSeq(q, 2, Len(q))[i] = q[i + 1]
  <2>1. \A i \in 2..Len(q) : q[i] \in S
    BY <1>1
  <2>2. Len(q) \in Int /\ Len(q) - 2 + 1 = Len(q) - 1 /\ 2 <= Len(q) + 1
    BY <1>1
  <2>3. /\ SubSeq(q, 2, Len(q)) \in Seq(S)
        /\ Len(SubSeq(q, 2, Len(q))) = IF 2 <= Len(q) THEN Len(q) - 2 + 1 ELSE 0
        /\ \A i \in 1..Len(q) - 2 + 1 : SubSeq(q, 2, Len(q))[i] = q[2 + i - 1]
    BY <2>1, <2>2, SubSeqProperties
  <2>4. \A i \in 1..Len(q) - 1 : 2 + i - 1 = i + 1
    OBVIOUS
  <2>. QED  BY <1>1, <2>2, <2>3, <2>4
<1>4. RemoveAt(q, 1) = <<>> \o SubSeq(q, 2, Len(q))
  BY <1>2 DEF RemoveAt
<1>5. RemoveAt(q, 1) = SubSeq(q, 2, Len(q))
  BY <1>3, <1>4, ConcatEmptySeq
<1>. QED  BY <1>3, <1>5, EmptySeq

(* Of two servers each hears the other one only, and so in the order in    *)
(* which it told: the last event is the last to be handled. *)
LEMMA ReceiveTimed ==
  ASSUME Calm, SessionInv, TimedInv, NEW s \in Servers, Receive(s)
  PROVE  TimedInv'
<1>1. PICK i \in DOMAIN inbox[s] :
        /\ \A j \in 1..i - 1 : inbox[s][j].from # inbox[s][i].from
        /\ inbox' = [inbox EXCEPT ![s] = RemoveAt(@, i)]
        /\ Handle(s, inbox[s][i])
        /\ UNCHANGED <<room, unsaved, hosting, leaving, failures, due>>
  BY DEF Receive, Calm
<1> DEFINE q == inbox[s]
           m == inbox[s][1]
<1>2. q \in Seq(Events) /\ i \in 1..Len(q) /\ Len(q) \in Nat
  BY InboxFacts, LenProperties
<1>3. i = 1
  <2>1. \A j \in 1..Len(q) : q[j].from \in Servers /\ q[j].from # s
    BY InboxFacts
  <2>2. 1 \in 1..Len(q)
    BY <1>2
  <2>3. q[1].from = q[i].from
    BY <1>2, <2>1, <2>2 DEF Calm
  <2>. QED  BY <1>1, <1>2, <2>3
<1>4. /\ Len(inbox'[s]) = Len(q) - 1
      /\ \A j \in 1..Len(q) - 1 : inbox'[s][j] = q[j + 1]
      /\ Len(q) = 1 => inbox'[s] = <<>>
      /\ \A t \in Servers \ {s} : inbox'[t] = inbox[t]
  <2>1. inbox' = [t \in Servers |-> IF t = s THEN RemoveAt(q, 1) ELSE inbox[t]]
    BY <1>1, <1>3 DEF SessionInv, Types
  <2>. QED  BY <1>2, <1>3, <2>1, FirstRemoved
<1>5. Coming' = Coming
  BY <1>1 DEF Coming
<1>6. EventsInv'
  <2> SUFFICES ASSUME NEW t \in Servers, NEW j \in 1..Len(inbox'[t])
               PROVE  /\ inbox'[t][j].from \in hosting
                      /\ inbox'[t][j].kind = "GameOver" => Coming.phase = "GameOver"
    BY <1>1, <1>5 DEF EventsInv
  <2>1. CASE t = s
    <3>1. j + 1 \in 1..Len(q) /\ inbox'[t][j] = q[j + 1]
      BY <1>2, <1>4, <2>1
    <3>. QED  BY <3>1 DEF TimedInv, EventsInv
  <2>2. CASE t # s
    BY <1>4, <2>2 DEF TimedInv, EventsInv
  <2>. QED  BY <2>1, <2>2
<1>7. m.kind \in {"RoundResolved", "RoundStarted", "GameOver"}
      /\ (m.kind = "GameOver" => Coming.phase = "GameOver")
  BY <1>2, <1>3, InboxFacts DEF TimedInv, EventsInv, Events
<1>8. Handle(s, m) /\ timer \in [Servers -> Timers]
  BY <1>1, <1>3, ComingFacts
<1> HIDE DEF m
<1>9. /\ \A t \in Servers \ {s} : timer'[t] = timer[t]
      /\ timer'[s].kind = "none" => ~ timer'[s].armed
      /\ m.kind # "GameOver" => timer'[s].kind # "none"
      /\ m.kind = "RoundStarted" => timer'[s].armed /\ timer'[s].round = m.round
  <2>1. CASE m.kind = "RoundResolved"
    <3>1. timer' = [timer EXCEPT ![s] = KeepOrStart(s, m.round + 1, m.from)]
      BY <1>8, <2>1 DEF Handle
    <3>2. KeepOrStart(s, m.round + 1, m.from).kind # "none"
      BY DEF KeepOrStart, NewTimer
    <3>. QED  BY <1>8, <2>1, <3>1, <3>2
  <2>2. CASE m.kind = "RoundStarted"
    <3>1. timer' = [timer EXCEPT ![s] = NewTimer(s, m.round, m.from)]
      BY <1>8, <2>2 DEF Handle
    <3>. QED  BY <1>8, <2>2, <3>1 DEF NewTimer
  <2>3. CASE m.kind = "GameOver"
    <3>1. timer' = [timer EXCEPT ![s] = NoTimer]
      BY <1>8, <2>3 DEF Handle
    <3>. QED  BY <1>8, <2>3, <3>1 DEF NoTimer
  <2>. QED  BY <1>7, <2>1, <2>2, <2>3
<1>10. ASSUME Coming.phase = "Planning" PROVE Started' /\ \E t \in Servers : Kept(t)'
  <2>1. m.kind # "GameOver" /\ Started'
    BY <1>7, <1>9, <1>10 DEF Started
  <2>2. q # <<>>
    BY <1>2, EmptySeq
  <2>3. PICK t \in Servers : Kept(t)
    BY <1>10, <2>2 DEF TimedInv, Unstarted
  <2>4. CASE t # s
    <3>1. inbox'[t] = inbox[t] /\ timer'[t] = timer[t] /\ due'[t] = due[t]
      BY <1>1, <1>4, <1>9, <2>4
    <3>2. TimedFor(t, Coming.round) => TimedFor(t, Coming.round)'
      BY <1>5, <3>1 DEF TimedFor
    <3>. QED  BY <1>5, <2>1, <2>3, <3>1, <3>2 DEF Kept
  <2>5. CASE t = s
    <3>1. q[Len(q)].kind = "RoundStarted" /\ q[Len(q)].round = Coming.round
      BY <2>2, <2>3, <2>5 DEF Kept
    <3>2. CASE Len(q) = 1
      <4>1. inbox'[s] = <<>> /\ timer'[s].armed /\ timer'[s].round = Coming.round
        BY <1>4, <1>9, <3>1, <3>2 DEF m
      <4>2. TimedFor(s, Coming.round)'
        BY <1>5, <4>1 DEF TimedFor
      <4>. QED  BY <1>5, <2>1, <2>5, <4>1, <4>2 DEF Kept
    <3>3. CASE Len(q) # 1
      <4>1. Len(inbox'[s]) = Len(q) - 1 /\ Len(q) - 1 \in 1..Len(q) - 1
        <5>1. Len(q) \in Nat /\ Len(q) >= 1
          BY <1>2, <1>3
        <5>2. \A n \in Nat : n >= 1 /\ n # 1 => n - 1 \in 1..n - 1
          OBVIOUS
        <5>3. Len(q) - 1 \in 1..Len(q) - 1
          BY <3>3, <5>1, <5>2
        <5>. QED  BY <1>4, <5>3
      <4>2. inbox'[s][Len(inbox'[s])] = q[Len(q)] /\ inbox'[s] # <<>>
        BY <1>2, <1>4, <4>1
      <4>. QED  BY <1>5, <2>1, <2>5, <3>1, <4>2 DEF Kept
    <3>. QED  BY <3>2, <3>3
  <2>. QED  BY <2>1, <2>4, <2>5
<1>11. \A t \in Servers : timer'[t].kind = "none" => ~ timer'[t].armed
  BY <1>9 DEF TimedInv
<1>. QED  BY <1>1, <1>5, <1>6, <1>10, <1>11 DEF TimedInv

(* In every round that a player has connected to, with no call under way   *)
(* and all events handled, some server's timer is running or has fired     *)
(* (RoundIsTimed, GameSession.cs:532-565, 728-776): on two servers, with   *)
(* nothing refused, lost or reordered, no late event of an earlier round   *)
(* leaves a round without one. *)
THEOREM RoundsAreTimed == ASSUME Calm PROVE Spec => []RoundIsTimed
<1>1. ASSUME Init PROVE TimedInv
  <2>1. /\ failures = 0 /\ leaving = {} /\ unsaved.server = None /\ unchecked = {}
        /\ \A s \in Servers : timer[s] = NoTimer /\ inbox[s] = <<>> /\ due[s] = {}
        /\ \A side \in Sides : socket[side] = None
    BY <1>1 DEF Init
  <2>2. Unstarted /\ ~ Started
    BY <2>1 DEF Unstarted, Started, NoTimer
  <2>. QED  BY <2>1, <2>2, EmptySeq DEF TimedInv, EventsInv, NoTimer
<1>2. ASSUME SessionInv, TimedInv, [Next]_vars PROVE TimedInv'
  <2>1. ASSUME NEW side \in Sides, NEW s \in Servers,
               Connect(side, s) \/ Disconnect(side, s) \/ Move(side, s)
        PROVE  TimedInv'
    <3>1. ~ Disconnect(side, s)
      BY <1>2 DEF Disconnect, TimedInv, Calm
    <3>. QED  BY <1>2, <2>1, <3>1, ConnectTimed, MoveTimed
  <2>2. ASSUME NEW s \in Servers,
               \/ CheckAndResolveIfReady(s) \/ ForceGameOver(s)
               \/ Fire(s) \/ Timeout(s) \/ Receive(s) \/ Crash(s)
        PROVE  TimedInv'
    <3>1. ~ Crash(s) /\ ~ ForceGameOver(s)
      BY <1>2 DEF Crash, ForceGameOver, TimedInv, Calm
    <3>. QED  BY <1>2, <2>2, <3>1, CallsTimed, FireTimed, ReceiveTimed
  <2>3. CASE Save
    BY <1>2, <2>3, SaveTimed
  <2>4. CASE UNCHANGED vars
    <3>1. UNCHANGED <<room, unsaved, hosting, socket, leaving, failures, timer, due,
                      unchecked, inbox>>
      BY <2>4 DEF vars
    <3>. QED  BY <1>2, <3>1 DEF TimedInv, EventsInv, Coming, Started, Kept, TimedFor,
                Unstarted
  <2>. QED  BY <1>2, <2>1, <2>2, <2>3, <2>4 DEF Next
<1>3. SessionInv /\ TimedInv => RoundIsTimed
  <2> SUFFICES ASSUME TimedInv, room.phase = "Planning", unsaved.server = None,
                      \A s \in Servers : inbox[s] = <<>>, Started
               PROVE  \E s \in Servers : Times(s)
    BY DEF RoundIsTimed, Started
  <2>1. Coming = room
    BY DEF Coming
  <2>2. PICK s \in Servers : Kept(s)
    BY <2>1 DEF TimedInv
  <2>3. TimedFor(s, room.round)
    BY <2>1, <2>2 DEF Kept
  <2>. QED  BY <2>3 DEF TimedFor, Times
<1>. QED  BY <1>1, <1>2, <1>3, SessionCorrect, PTL DEF Spec
=============================================================================
