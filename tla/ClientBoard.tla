----------------------------- MODULE ClientBoard -----------------------------
(***************************************************************************)
(* What one player sees of his room and orders in it: the selection, the   *)
(* optimistic moves and the views of gameUI.js, over one connection (see   *)
(* ClientLink for its loss), and the server that takes his messages one by *)
(* one and tells him of the room (GameWebSocketHandler.cs).  A view is     *)
(* read under the lock of the room and sent after it, by the player's own  *)
(* handler and by the handler of his opponent, who orders at any time; a   *)
(* reader who is refused the lock sends a message without a view.          *)
(* Of the room only the player's own part is kept; its rounds are ended by *)
(* the opponent's orders, by the timers or by these orders.                *)
(***************************************************************************)
EXTENDS Filter, SequencesExt, FiniteSetsExt

CONSTANTS
  Nodes,                 \* a part of the map where all are neighbours
  StartNode,             \* where the player's units are at first
  MaxUnitsPerPlayer,     \* units a side may move in a round (3 in the code)
  MaxRounds,             \* 20 in the code
  MaxOrders,             \* bound: orders of the player
  MaxPushes,             \* bound: orders of his opponent
  MaxWaiting,            \* bound: messages waiting for the browser with a view
  None

ASSUME BoardBounds ==
  /\ MaxUnitsPerPlayer \in Nat \ {0} /\ MaxRounds \in Nat \ {0}
  /\ MaxOrders \in Nat /\ MaxPushes \in Nat /\ MaxWaiting \in Nat \ {0}
  /\ StartNode \in Nodes /\ None \notin Nodes

(* Orders, and the views of a room. *)
Orders == [type : {"move_units"}, from : Nodes, to : Nodes, count : Nat]
Views ==
  [phase : {"Planning", "GameOver"}, currentRound : Nat, mobile : [Nodes -> Nat],
   myPendingMoves : Seq(Orders), myRemainingUnits : Nat,
   isMyPlanningComplete : BOOLEAN]

ASSUME NoneIsNoView == None \notin Views

VARIABLES
  \* the room
  phase, currentRound, mobile, pendingMoves,
  \* the connection and its server
  up, down,              \* what is on its way from and to the browser
  answer,                \* what the player's handler has to send him
  push,                  \* what the opponent's handler has to send him
  \* the browser
  stateView, optimisticMoves,
  selectedFrom, selectedTo, selectedUnits,
  enabled,               \* the largest unit button that can be clicked
  gameOverShown,         \* the overlay of handleGameOver
  \* what has happened
  seen,                  \* the newest view the browser has been shown
  refused,               \* did the player's handler get no view the last time?
  orders, pushes

room == <<phase, currentRound, mobile, pendingMoves>>
server == <<answer, push>>
selection == <<selectedFrom, selectedTo, selectedUnits>>
browser == <<stateView, optimisticMoves, selection, enabled, gameOverShown,
             seen, orders>>
vars == <<room, up, down, server, browser, refused, pushes>>

Counts == 1..MaxUnitsPerPlayer
Sum(moves) == SumFunction([i \in DOMAIN moves |-> moves[i].count])
From(moves, n) == Filtered(moves, LAMBDA m : m.from = n)
Minus(a, b) == IF a > b THEN a - b ELSE 0

-----------------------------------------------------------------------------
(* The room. *)

Remaining == MaxUnitsPerPlayer - Sum(pendingMoves)

(* GetGameStateForPlayerAsync *)
View ==
  [phase |-> phase, currentRound |-> currentRound, mobile |-> mobile,
   myPendingMoves |-> pendingMoves, myRemainingUnits |-> Remaining,
   isMyPlanningComplete |-> Remaining = 0 \/ \A n \in Nodes : mobile[n] = 0]

(* The units of a player are on nodes or on their way.  The end of a round *)
(* lets those go that were ordered away, and others arrive. *)
Deployments ==
  {m \in [Nodes -> 0..MaxUnitsPerPlayer] :
     /\ SumFunction(m) <= MaxUnitsPerPlayer
     /\ \A n \in Nodes : m[n] >= mobile[n] - Sum(From(pendingMoves, n))}

Order(from, to, count) ==
  [type |-> "move_units", from |-> from, to |-> to, count |-> count]
GetState == [type |-> "get_state", from |-> None, to |-> None, count |-> 0]

Message(type, view) == [type |-> type, view |-> view]
Event(type) == Message(type, None)

(* ResolveRound, ForceGameOver: rounds end when the timers run out or both *)
(* players have moved; a game may end with a round or without one.         *)
EndRound ==
  /\ phase = "Planning"
  /\ \E end \in {"round", "game", "forced"} :
       /\ end = "round" => currentRound < MaxRounds
       /\ phase' = IF end = "round" THEN "Planning" ELSE "GameOver"
       /\ currentRound' = IF end = "round" THEN currentRound + 1 ELSE currentRound
       /\ IF end = "forced" THEN UNCHANGED <<mobile, pendingMoves>>
          ELSE mobile' \in Deployments /\ pendingMoves' = <<>>
       /\ down' = down \o
            CASE end = "round" -> <<Event("RoundResolved")>>
              [] end = "game" -> <<Event("RoundResolved"), Event("GameOver")>>
              [] end = "forced" -> <<Event("GameOver")>>
  /\ UNCHANGED <<up, server, browser, refused, pushes>>

-----------------------------------------------------------------------------
(* The server. *)

(* What a handler has to send: nothing, a view it has yet to read, or what *)
(* it has read, None where the lock of the room was refused for 500 ms.    *)
Nothing == [step |-> "idle", view |-> None]
Due == [step |-> "reading", view |-> None]
ToSend(view) == [step |-> "sending", view |-> view]

(* MoveUnits: the count is cut to what may still be moved, and then has to *)
(* be there whole, beside what is ordered away already. *)
Accepted(m, count) ==
  /\ phase = "Planning"
  /\ count > 0
  /\ mobile[m.from] >= Sum(From(pendingMoves, m.from)) + count

(* ProcessMessageAsync: HandleMoveUnitsAsync and HandleGetStateAsync have   *)
(* to be followed by a view.  An order that is not accepted, or not given  *)
(* the lock, is answered with an error, which the browser only logs. *)
Process ==
  /\ answer = Nothing
  /\ up # <<>>
  /\ up' = Tail(up)
  /\ LET m == Head(up)
         count == Min({m.count, Remaining})
     IN  \/ /\ m.type = "get_state"
            /\ answer' = Due
            /\ UNCHANGED pendingMoves
         \/ /\ m.type = "move_units"
            /\ Accepted(m, count)
            /\ answer' = Due
            /\ pendingMoves' = Append(pendingMoves, [m EXCEPT !.count = count])
         \/ /\ m.type = "move_units"
            /\ UNCHANGED <<answer, pendingMoves>>
  /\ UNCHANGED <<phase, currentRound, mobile, down, push, browser, refused, pushes>>

(* Fault: the view is read before the order is carried out. *)
ReadEarly ==
  /\ answer = Due
  /\ answer' = ToSend(IF pendingMoves = <<>> THEN View
                      ELSE [View EXCEPT !.myPendingMoves = Front(pendingMoves)])
  /\ refused' = FALSE
  /\ UNCHANGED <<room, up, down, push, browser, pushes>>

(* The state is read ... *)
Read ==
  /\ answer = Due
  /\ \E view \in {View, None} :
       /\ answer' = ToSend(view)
       /\ refused' = (view = None)
  /\ UNCHANGED <<room, up, down, push, browser, pushes>>

(* ... and sent. *)
Send ==
  /\ answer.step = "sending"
  /\ Len(down) < MaxWaiting
  /\ down' = Append(down, Message("state_update", answer.view))
  /\ answer' = Nothing
  /\ UNCHANGED <<room, up, push, browser, refused, pushes>>

(* BroadcastStateAsync in the opponent's handler, after an order of his.   *)
Push ==
  /\ phase = "Planning"
  /\ push = Nothing
  /\ pushes < MaxPushes
  /\ pushes' = pushes + 1
  /\ \E view \in {View, None} : push' = ToSend(view)
  /\ UNCHANGED <<room, up, down, answer, browser, refused>>

SendPush ==
  /\ push # Nothing
  /\ Len(down) < MaxWaiting
  /\ down' = Append(down, Message("state_update", push.view))
  /\ push' = Nothing
  /\ UNCHANGED <<room, up, answer, browser, refused, pushes>>

-----------------------------------------------------------------------------
(* The browser. *)

Selectable(state, n) ==
  Minus(state.mobile[n], Sum(From(state.myPendingMoves, n)))

Newer(v, w) ==
  \/ w = None
  \/ v.currentRound > w.currentRound
  \/ /\ v.currentRound = w.currentRound
     /\ w.phase = "Planning"
     /\ v.phase = "GameOver" \/ Len(v.myPendingMoves) > Len(w.myPendingMoves)

(* handleStateUpdate: the optimistic moves that the view knows of or that  *)
(* are older than 3 s are dropped, the others are taken off the units that *)
(* remain, and the buttons above that are disabled. *)
Unconfirmed(state, moves) ==
  Filtered(moves, LAMBDA m : ~Contains(state.myPendingMoves, m))

ShowState(state, moves) ==
  /\ stateView' = state
  /\ optimisticMoves' = Unconfirmed(state, moves)
  /\ enabled' = Minus(state.myRemainingUnits, Sum(optimisticMoves'))
  /\ seen' = IF Newer(state, seen) THEN state ELSE seen

(* Fault: what is chosen stays chosen. *)
KeepUnits(left) == selectedUnits

UnitsWithin(left) == IF selectedUnits > left THEN 0 ELSE selectedUnits

(* handleMessage.  Without a view handleStateUpdate throws, and the browser *)
(* stays as it is. *)
HandleStateUpdate ==
  /\ down # <<>>
  /\ Head(down).type = "state_update"
  /\ down' = Tail(down)
  /\ \/ /\ Head(down).view = None
        /\ UNCHANGED browser
     \/ /\ Head(down).view # None
        /\ \E young \in Suffixes(optimisticMoves) : ShowState(Head(down).view, young)
        /\ selectedUnits' = UnitsWithin(enabled')
        /\ UNCHANGED <<selectedFrom, selectedTo, gameOverShown, orders>>
  /\ UNCHANGED <<room, up, server, refused, pushes>>

(* handleGameEvent: the end of a round is followed by a question for the   *)
(* state, and a game over by handleGameOver. *)
HandleGameEvent ==
  /\ down # <<>>
  /\ Head(down).type # "state_update"
  /\ down' = Tail(down)
  /\ up' = IF Head(down).type = "RoundResolved"
           THEN Append(up, GetState) ELSE up
  /\ gameOverShown' = (gameOverShown \/ Head(down).type = "GameOver")
  /\ UNCHANGED <<room, server, stateView, optimisticMoves, selection, enabled,
                 seen, orders, refused, pushes>>

(* executeMoveTo: the order is sent, the board shows it at once, and the   *)
(* selection is taken back. *)
ExecuteMoveTo(to, count) ==
  LET order == Order(selectedFrom, to, count)
  IN  /\ orders < MaxOrders
      /\ orders' = orders + 1
      /\ up' = Append(up, order)
      /\ \E young \in Suffixes(optimisticMoves) :
           ShowState(stateView, Append(young, order))
      /\ selectedFrom' = None
      /\ selectedTo' = None
      /\ selectedUnits' = 0

(* handleNodeClick does something in the planning phase only, and until    *)
(* the server has seen all orders of this player.  The overlay of the end  *)
(* of the game covers the board. *)
MayPlan ==
  /\ ~ gameOverShown
  /\ stateView # None
  /\ stateView.phase = "Planning"
  /\ ~ stateView.isMyPlanningComplete

(* A node with units of his is where the player's next order starts.  Its  *)
(* owner is left out. *)
SelectFrom(n) ==
  LET most == Min({stateView.myRemainingUnits, Selectable(stateView, n)})
  IN  /\ MayPlan
      /\ selectedFrom = None
      /\ Selectable(stateView, n) > 0
      /\ selectedFrom' = n
      /\ enabled' = most
      /\ selectedUnits' = IF selectedUnits \in 1..most THEN selectedUnits ELSE 1
      /\ UNCHANGED <<room, up, down, server, stateView, optimisticMoves,
                     selectedTo, gameOverShown, seen, orders, refused, pushes>>

(* A second click takes it back. *)
Deselect ==
  /\ MayPlan
  /\ selectedFrom # None
  /\ selectedFrom' = None
  /\ selectedTo' = None
  /\ selectedUnits' = 0
  /\ enabled' = stateView.myRemainingUnits
  /\ UNCHANGED <<room, up, down, server, stateView, optimisticMoves,
                 gameOverShown, seen, orders, refused, pushes>>

(* Fault: the destination waits for the move button. *)
SelectToOnly(n) ==
  /\ MayPlan
  /\ selectedFrom \notin {None, n}
  /\ selectedTo' = n
  /\ UNCHANGED <<room, up, down, server, stateView, optimisticMoves,
                 selectedFrom, selectedUnits, enabled, gameOverShown, seen,
                 orders, refused, pushes>>

(* Another node is where it ends: it is sent at once if units are chosen.  *)
SelectTo(n) ==
  /\ MayPlan
  /\ selectedFrom \notin {None, n}
  /\ IF selectedUnits > 0
     THEN /\ ExecuteMoveTo(n, selectedUnits)
          /\ UNCHANGED <<room, down, server, gameOverShown, refused, pushes>>
     ELSE /\ selectedTo' = n
          /\ UNCHANGED <<room, up, down, server, stateView, optimisticMoves,
                         selectedFrom, selectedUnits, enabled, gameOverShown,
                         seen, orders, refused, pushes>>

(* The unit buttons: so is a choice of units for two chosen nodes. *)
SelectUnits(count) ==
  /\ ~ gameOverShown
  /\ count <= enabled
  /\ IF selectedFrom # None /\ selectedTo # None
     THEN /\ ExecuteMoveTo(selectedTo, count)
          /\ UNCHANGED <<room, down, server, gameOverShown, refused, pushes>>
     ELSE /\ selectedUnits' = count
          /\ UNCHANGED <<room, up, down, server, stateView, optimisticMoves,
                         selectedFrom, selectedTo, enabled, gameOverShown, seen,
                         orders, refused, pushes>>

-----------------------------------------------------------------------------
(* The browser has asked for the state of a room that has two players. *)
Init ==
  /\ phase = "Planning"
  /\ currentRound = 1
  /\ mobile = [n \in Nodes |-> IF n = StartNode THEN MaxUnitsPerPlayer ELSE 0]
  /\ pendingMoves = <<>>
  /\ up = <<GetState>>
  /\ down = <<>>
  /\ answer = Nothing
  /\ push = Nothing
  /\ stateView = None
  /\ optimisticMoves = <<>>
  /\ selectedFrom = None
  /\ selectedTo = None
  /\ selectedUnits = 0
  /\ enabled = MaxUnitsPerPlayer
  /\ gameOverShown = FALSE
  /\ seen = None
  /\ refused = FALSE
  /\ orders = 0
  /\ pushes = 0

Next ==
  \/ EndRound
  \/ Process \/ Read \/ Send \/ Push \/ SendPush
  \/ HandleStateUpdate \/ HandleGameEvent
  \/ \E n \in Nodes : SelectFrom(n) \/ SelectTo(n)
  \/ Deselect
  \/ \E count \in Counts : SelectUnits(count)

Spec == Init /\ [][Next]_vars

-----------------------------------------------------------------------------
(* No order asks for more than the player may still move as far as the     *)
(* server has told him: neither the units he has chosen nor the buttons he *)
(* can click exceed what the newest view leaves him, whatever came between *)
(* his clicks. *)
SelectionWithinRemaining ==
  stateView # None =>
    /\ selectedUnits <= stateView.myRemainingUnits
    /\ enabled <= stateView.myRemainingUnits

(* A selection that is complete has been sent, and sent once: nothing is   *)
(* left for a second click or for the move button to send again. *)
NothingHalfSent ==
  ~ (selectedFrom # None /\ selectedTo # None /\ selectedUnits > 0)

(* When nothing is on its way any more, the player has been shown the room *)
(* as it is, or the end of the game, without having asked for it, whatever *)
(* came in between; only an answer without a view is not followed by       *)
(* another.  It is also the last view he was shown, unless his opponent's  *)
(* handler has pushed one: BroadcastStateAsync sends what it has read      *)
(* without the lock, perhaps after a newer one. *)
Quiet == up = <<>> /\ down = <<>> /\ answer = Nothing /\ push = Nothing

SeenWhenQuiet ==
  Quiet => IF phase = "GameOver" THEN gameOverShown
           ELSE refused \/ (seen = View /\ (pushes = 0 => stateView = View))
=============================================================================
