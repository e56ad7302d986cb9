------------------------- MODULE ClientBoardProofs -------------------------
(***************************************************************************)
(* Proofs about ClientBoard for any map, any number of units and rounds    *)
(* and any number of orders on either side.                                *)
(***************************************************************************)
EXTENDS ClientBoard, OperatorLemmas

(* A destination is chosen after the node the units leave from. *)
SelectionInv ==
  /\ selectedTo # None => selectedFrom # None
  /\ NothingHalfSent

(* An order takes the whole selection back. *)
LEMMA OrderEndsSelection ==
  ASSUME NEW to, NEW count, ExecuteMoveTo(to, count)
  PROVE  SelectionInv'
BY DEF ExecuteMoveTo, SelectionInv, NothingHalfSent

(* A view may take the units out of a selection, never add any. *)
LEMMA ViewKeepsSelection ==
  ASSUME SelectionInv, HandleStateUpdate
  PROVE  SelectionInv'
<1>1. selectedUnits' = 0 \/ selectedUnits' = selectedUnits
  BY DEF HandleStateUpdate, UnitsWithin, browser, selection
<1>2. UNCHANGED <<selectedFrom, selectedTo>>
  BY DEF HandleStateUpdate, browser, selection
<1>. QED
  BY <1>1, <1>2 DEF SelectionInv, NothingHalfSent

(* What a player clicks. *)
LEMMA ClicksKeepSelection ==
  ASSUME SelectionInv,
         \/ \E n \in Nodes : SelectFrom(n) \/ SelectTo(n)
         \/ Deselect
         \/ \E count \in Counts : SelectUnits(count)
  PROVE  SelectionInv'
<1>1. ASSUME NEW n \in Nodes, SelectFrom(n) PROVE SelectionInv'
  BY <1>1 DEF SelectFrom, SelectionInv, NothingHalfSent
<1>2. ASSUME NEW n \in Nodes, SelectTo(n) PROVE SelectionInv'
  <2>1. CASE selectedUnits > 0
    BY <1>2, <2>1, OrderEndsSelection DEF SelectTo
  <2>2. CASE ~ (selectedUnits > 0)
    BY <1>2, <2>2 DEF SelectTo, SelectionInv, NothingHalfSent
  <2>. QED
    BY <2>1, <2>2
<1>3. CASE Deselect
  BY <1>3 DEF Deselect, SelectionInv, NothingHalfSent
<1>4. ASSUME NEW count \in Counts, SelectUnits(count) PROVE SelectionInv'
  <2>1. CASE selectedFrom # None /\ selectedTo # None
    BY <1>4, <2>1, OrderEndsSelection DEF SelectUnits
  <2>2. CASE ~ (selectedFrom # None /\ selectedTo # None)
    BY <1>4, <2>2 DEF SelectUnits, SelectionInv, NothingHalfSent
  <2>. QED
    BY <2>1, <2>2
<1>. QED
  BY <1>1, <1>2, <1>3, <1>4

(* Whatever is clicked and shown in whatever order, a complete selection   *)
(* does not stay (NothingHalfSent, gameUI.js:43-55, 279-417): no further   *)
(* click, and no move button, sends it a second time. *)
THEOREM NoOrderIsSentTwice == Spec => []NothingHalfSent
<1>1. Init => SelectionInv
  BY DEF Init, SelectionInv, NothingHalfSent
<1>2. ASSUME SelectionInv, [Next]_vars PROVE SelectionInv'
  <2>1. CASE UNCHANGED selection
    BY <1>2, <2>1 DEF SelectionInv, NothingHalfSent, selection
  <2>2. CASE UNCHANGED vars
    BY <2>1, <2>2 DEF vars, browser
  <2>3. CASE \/ EndRound
             \/ Process \/ Read \/ Send \/ Push \/ SendPush
             \/ HandleGameEvent
    <3>1. UNCHANGED selection
      BY <2>3 DEF EndRound, Process, Read, Send, Push, SendPush,
         HandleGameEvent, browser
    <3>. QED
      BY <2>1, <3>1
  <2>. QED
    BY <1>2, <2>2, <2>3, ViewKeepsSelection, ClicksKeepSelection DEF Next
<1>3. SelectionInv => NothingHalfSent
  BY DEF SelectionInv
<1>. QED
  BY <1>1, <1>2, <1>3, PTL DEF Spec

-----------------------------------------------------------------------------
(* The room and what is on its way have their types; a view that asks for  *)
(* orders leaves units to move. *)
Requests == Orders \cup {GetState}
OpenViews == {v \in Views : v.isMyPlanningComplete \/ v.myRemainingUnits > 0}
Updates == [type : {"state_update"}, view : OpenViews \cup {None}]
Messages == Updates \cup {Event("RoundResolved"), Event("GameOver")}
Ready == [step : {"sending"}, view : OpenViews \cup {None}]

RoomTypes ==
  /\ phase \in {"Planning", "GameOver"}
  /\ currentRound \in Nat
  /\ mobile \in [Nodes -> Nat]
  /\ pendingMoves \in Seq(Orders)
  /\ Sum(pendingMoves) <= MaxUnitsPerPlayer

WireTypes ==
  /\ up \in Seq(Requests)
  /\ down \in Seq(Messages)
  /\ answer \in {Nothing, Due} \cup Ready
  /\ push \in {Nothing} \cup Ready

BoardTypes ==
  /\ stateView \in OpenViews \cup {None}
  /\ optimisticMoves \in Seq(Orders)
  /\ selectedFrom \in Nodes \cup {None}
  /\ selectedTo \in Nodes \cup {None}
  /\ selectedUnits \in Nat
  /\ enabled \in Nat
  /\ seen \in OpenViews \cup {None}

(* Nodes can be selected on a board that is shown, and what is selected    *)
(* does not exceed what the shown view leaves. *)
WithinInv ==
  /\ selectedFrom # None => stateView # None
  /\ SelectionWithinRemaining

BoardInv == RoomTypes /\ WireTypes /\ BoardTypes /\ WithinInv

(* The lesser of two numbers. *)
LEMMA MinOfTwo ==
  ASSUME NEW a \in Nat, NEW b \in Nat
  PROVE  Min({a, b}) \in Nat /\ Min({a, b}) <= a /\ Min({a, b}) <= b
<1>1. \E x \in {a, b} : \A y \in {a, b} : x <= y
  OBVIOUS
<1>2. Min({a, b}) \in {a, b} /\ \A y \in {a, b} : Min({a, b}) <= y
  BY <1>1 DEF Min
<1>. QED  BY <1>2

(* The units of a list of orders are counted one order after the other.    *)
LEMMA SumFacts ==
  ASSUME NEW q \in Seq(Orders)
  PROVE  /\ Sum(q) \in Nat
         /\ Sum(<<>>) = 0
         /\ \A x \in Orders : Sum(Append(q, x)) = Sum(q) + x.count
<1> DEFINE weigh == [m \in Orders |-> m.count]
<1>1. weigh \in [Orders -> Nat]
  BY DEF Orders
<1>2. ASSUME NEW r \in Seq(Orders) PROVE Sum(r) = Weight(r, weigh)
  <2> DEFINE f == [i \in 1..Len(r) |-> weigh[r[i]]]
             g == [i \in DOMAIN r |-> r[i].count]
  <2>1. DOMAIN r = 1..Len(r) /\ \A i \in 1..Len(r) : r[i] \in Orders
    BY LenProperties, ElementOfSeq
  <2>2. f = g /\ DOMAIN g = 1..Len(r)
    BY <2>1
  <2>. QED  BY <2>2 DEF Sum, SumFunction, Weight
<1> HIDE DEF weigh
<1>3. <<>> \in Seq(Orders)
  BY EmptySeq
<1>4. Sum(q) \in Nat /\ Sum(<<>>) = 0
  BY <1>1, <1>2, <1>3, WeightIsNat
<1>5. ASSUME NEW x \in Orders PROVE Sum(Append(q, x)) = Sum(q) + x.count
  <2>1. Append(q, x) \in Seq(Orders)
    BY AppendProperties
  <2>2. Weight(Append(q, x), weigh) = Weight(q, weigh) + weigh[x]
    BY <1>1, WeightOfAppend
  <2>3. weigh[x] = x.count
    BY DEF weigh
  <2>. QED  BY <1>2, <2>1, <2>2, <2>3
<1>. QED  BY <1>4, <1>5

(* Orders that are picked are orders. *)
LEMMA PickedOrders ==
  ASSUME NEW q \in Seq(Orders), NEW K \in SUBSET (1..Len(q))
  PROVE  Picked(q, K) \in Seq(Orders)
BY PickedElements

(* What a view says is a number of units, none too many. *)
LEMMA ViewIsOpen ==
  ASSUME RoomTypes
  PROVE  View \in OpenViews /\ View.myRemainingUnits = Remaining
<1>1. Sum(pendingMoves) \in Nat
  BY SumFacts DEF RoomTypes
<1>2. Remaining \in Nat
  BY <1>1, BoardBounds DEF RoomTypes, Remaining
<1>3. (Remaining = 0 \/ \A n \in Nodes : mobile[n] = 0) \in BOOLEAN
  OBVIOUS
<1>4. View \in Views
  BY <1>2, <1>3 DEF RoomTypes, View, Views
<1>5. View.isMyPlanningComplete \/ View.myRemainingUnits > 0
  <2>1. View.isMyPlanningComplete = (Remaining = 0 \/ \A n \in Nodes : mobile[n] = 0)
        /\ View.myRemainingUnits = Remaining
    BY Zenon DEF View
  <2>2. Remaining = 0 \/ Remaining > 0
    BY <1>2
  <2>. QED  BY Zenon, <2>1, <2>2
<1>. QED  BY <1>4, <1>5 DEF OpenViews, View

(* What kinds of messages there are. *)
LEMMA MessageFacts ==
  /\ \A v \in OpenViews \cup {None} : Message("state_update", v) \in Updates
  /\ \A m \in Messages : m.type = "state_update" => m.view \in OpenViews \cup {None}
  /\ \A m \in Messages : m.type # "state_update" => m.view = None
  /\ \A m \in Messages : m.type \in {"state_update", "RoundResolved", "GameOver"}
  /\ Event("RoundResolved") \in Messages /\ Event("GameOver") \in Messages
  /\ \A m \in Requests : m.type \in {"move_units", "get_state"}
  /\ \A m \in Requests : m.type = "move_units" => m \in Orders
  /\ GetState \in Requests
BY DEF Message, Messages, Updates, Event, Requests, GetState, Orders

-----------------------------------------------------------------------------
(* The room and the wires.                                                 *)
LEMMA EndRoundTypes ==
  ASSUME RoomTypes, WireTypes, EndRound
  PROVE  RoomTypes' /\ WireTypes'
<1>1. phase' \in {"Planning", "GameOver"} /\ currentRound' \in Nat
  BY DEF RoomTypes, EndRound
<1>2. mobile' \in [Nodes -> Nat] /\ pendingMoves' \in Seq(Orders)
      /\ Sum(pendingMoves') <= MaxUnitsPerPlayer
  <2>1. CASE UNCHANGED <<mobile, pendingMoves>>
    BY <2>1 DEF RoomTypes
  <2>2. CASE mobile' \in Deployments /\ pendingMoves' = <<>>
    <3>1. <<>> \in Seq(Orders) /\ Sum(<<>>) = 0
      BY EmptySeq, SumFacts
    <3>. QED  BY <2>2, <3>1, BoardBounds DEF Deployments
  <2>. QED  BY <2>1, <2>2 DEF EndRound
<1>3. down' \in Seq(Messages)
  <2>1. /\ <<Event("RoundResolved")>> \in Seq(Messages)
        /\ <<Event("RoundResolved"), Event("GameOver")>> \in Seq(Messages)
        /\ <<Event("GameOver")>> \in Seq(Messages)
    BY MessageFacts
  <2>2. PICK news \in Seq(Messages) : down' = down \o news
    BY <2>1 DEF EndRound
  <2>. QED  BY <2>2, ConcatProperties DEF WireTypes
<1>. QED
  BY <1>1, <1>2, <1>3 DEF RoomTypes, WireTypes, EndRound, server

(* A request is handled: the state is due, and an order may be added. *)
LEMMA ProcessTypes ==
  ASSUME RoomTypes, WireTypes, Process
  PROVE  /\ RoomTypes' /\ WireTypes'
         /\ \/ UNCHANGED room
            \/ /\ phase = "Planning" /\ UNCHANGED <<phase, currentRound, mobile>>
               /\ answer' = Due
               /\ \E x \in Orders : pendingMoves' = Append(pendingMoves, x)
         /\ Head(up).type = "get_state" => answer' = Due
<1> DEFINE m == Head(up)
           count == Min({m.count, Remaining})
<1>1. m \in Requests /\ Tail(up) \in Seq(Requests)
  BY HeadTailProperties DEF WireTypes, Process
<1>2. up' = Tail(up) /\ UNCHANGED <<phase, currentRound, mobile, down, push>>
  BY DEF Process
<1>3. CASE m.type = "get_state"
  <2>1. pendingMoves' = pendingMoves /\ answer' = Due
    BY <1>3 DEF Process
  <2>. QED
    BY <1>1, <1>2, <2>1 DEF RoomTypes, WireTypes, room
<1>4. CASE /\ m.type # "get_state" /\ Accepted(m, count) /\ answer' = Due
           /\ pendingMoves' = Append(pendingMoves, [m EXCEPT !.count = count])
  <2>1. m \in Orders
    BY <1>1, <1>4, MessageFacts
  <2>2. Remaining \in Nat /\ Sum(pendingMoves) \in Nat
    BY SumFacts, BoardBounds DEF RoomTypes, Remaining
  <2>3. m.count \in Nat
    BY <2>1 DEF Orders
  <2>4. count \in Nat /\ count <= Remaining
    BY <2>2, <2>3, MinOfTwo
  <2> DEFINE x == [m EXCEPT !.count = count]
  <2>5. x \in Orders /\ x.count = count
    BY <2>1, <2>4 DEF Orders
  <2>6. pendingMoves' = Append(pendingMoves, x) /\ answer' = Due /\ phase = "Planning"
    BY <1>4 DEF Accepted
  <2> HIDE DEF x, m, count
  <2>7. Sum(pendingMoves') = Sum(pendingMoves) + count
    BY <2>5, <2>6, SumFacts DEF RoomTypes
  <2>8. Sum(pendingMoves') <= MaxUnitsPerPlayer
    BY <2>2, <2>4, <2>7, BoardBounds DEF Remaining
  <2>9. pendingMoves' \in Seq(Orders)
    BY <2>5, <2>6, AppendProperties DEF RoomTypes
  <2>10. WireTypes'
    BY <1>1, <1>2, <2>6 DEF WireTypes
  <2>11. RoomTypes'
    BY <1>2, <2>8, <2>9 DEF RoomTypes
  <2>12. Head(up).type # "get_state"
    BY <1>4 DEF m
  <2>. QED
    BY <1>2, <2>5, <2>6, <2>10, <2>11, <2>12
<1>5. CASE m.type # "get_state" /\ pendingMoves' = pendingMoves /\ answer' = answer
  BY <1>1, <1>2, <1>5 DEF RoomTypes, WireTypes, room
<1>6. \/ m.type = "get_state"
      \/ /\ m.type # "get_state" /\ Accepted(m, count) /\ answer' = Due
         /\ pendingMoves' = Append(pendingMoves, [m EXCEPT !.count = count])
      \/ m.type # "get_state" /\ pendingMoves' = pendingMoves /\ answer' = answer
  BY DEF Process
<1>. QED  BY <1>3, <1>4, <1>5, <1>6

(* The server reads and sends views of the room. *)
LEMMA ServerTypes ==
  ASSUME RoomTypes, WireTypes, Read \/ Send \/ Push \/ SendPush
  PROVE  RoomTypes' /\ WireTypes'
<1>1. RoomTypes'
  BY DEF Read, Send, Push, SendPush, room, RoomTypes
<1>2. \A v \in {View, None} : ToSend(v) \in Ready
  BY ViewIsOpen DEF Ready, ToSend
<1>3. CASE Read
  <2>1. answer' \in Ready /\ UNCHANGED <<up, down, push>>
    BY <1>2, <1>3 DEF Read
  <2>. QED  BY <1>1, <2>1 DEF WireTypes
<1>4. CASE Push
  <2>1. push' \in Ready /\ UNCHANGED <<up, down, answer>>
    BY <1>2, <1>4 DEF Push
  <2>. QED  BY <1>1, <2>1 DEF WireTypes
<1>5. CASE Send
  <2>2. answer \in Ready
    BY <1>5 DEF Send, WireTypes, Nothing, Due
  <2>3. down' = Append(down, Message("state_update", answer.view))
        /\ answer' = Nothing /\ UNCHANGED <<up, push>>
    BY <1>5 DEF Send
  <2>4. Message("state_update", answer.view) \in Messages
    BY <2>2, MessageFacts DEF Ready, Messages
  <2>5. down' \in Seq(Messages)
    BY <2>3, <2>4, AppendProperties DEF WireTypes
  <2>. QED  BY <1>1, <2>3, <2>5 DEF WireTypes
<1>6. CASE SendPush
  <2>1. push \in Ready
    BY <1>6 DEF SendPush, WireTypes
  <2>2. down' = Append(down, Message("state_update", push.view))
        /\ push' = Nothing /\ UNCHANGED <<up, answer>>
    BY <1>6 DEF SendPush
  <2>3. Message("state_update", push.view) \in Messages
    BY <2>1, MessageFacts DEF Ready, Messages
  <2>4. down' \in Seq(Messages)
    BY <2>2, <2>3, AppendProperties DEF WireTypes
  <2>. QED  BY <1>1, <2>2, <2>4 DEF WireTypes
<1>. QED  BY <1>3, <1>4, <1>5, <1>6

-----------------------------------------------------------------------------
(* The board.                                                              *)
LEMMA SuffixOfOrders ==
  ASSUME NEW q \in Seq(Orders), NEW young \in Suffixes(q)
  PROVE  young \in Seq(Orders)
<1>1. CASE young = <<>>
  BY <1>1, EmptySeq
<1>2. CASE \E l \in 1..Len(q) : young = SubSeq(q, l, Len(q))
  <2>1. PICK l \in 1..Len(q) : young = SubSeq(q, l, Len(q))
    BY <1>2
  <2>2. Len(q) \in Nat /\ \A i \in l..Len(q) : q[i] \in Orders
    BY LenProperties, ElementOfSeq
  <2>. QED  BY <2>1, <2>2, SubSeqProperties
<1>. QED  BY <1>1, <1>2 DEF Suffixes

(* The units that may be selected are a number. *)
LEMMA SelectableIsNat ==
  ASSUME NEW state \in OpenViews, NEW n \in Nodes
  PROVE  Selectable(state, n) \in Nat
<1>1. state.mobile[n] \in Nat /\ state.myPendingMoves \in Seq(Orders)
  BY DEF OpenViews, Views
<1>2. From(state.myPendingMoves, n) \in Seq(Orders)
  BY <1>1, PickedOrders DEF From, Filtered
<1>3. Sum(From(state.myPendingMoves, n)) \in Nat
  BY <1>2, SumFacts
<1>. QED  BY <1>1, <1>3 DEF Selectable, Minus

(* However many optimistic moves are left, the buttons stay within what    *)
(* the view leaves. *)
LEMMA ShownWithin ==
  ASSUME NEW state \in OpenViews, NEW moves \in Seq(Orders), ShowState(state, moves)
  PROVE  /\ stateView' = state
         /\ seen' = IF Newer(state, seen) THEN state ELSE seen
         /\ optimisticMoves' \in Seq(Orders)
         /\ enabled' \in Nat /\ enabled' <= stateView'.myRemainingUnits
<1>1. optimisticMoves' = Unconfirmed(state, moves)
  BY DEF ShowState
<1>2. optimisticMoves' \in Seq(Orders)
  BY <1>1, PickedOrders DEF Unconfirmed, Filtered
<1>3. Sum(optimisticMoves') \in Nat
  BY <1>2, SumFacts
<1>4. state.myRemainingUnits \in Nat
  BY DEF OpenViews, Views
<1>5. /\ stateView' = state /\ seen' = IF Newer(state, seen) THEN state ELSE seen
      /\ enabled' = Minus(state.myRemainingUnits, Sum(optimisticMoves'))
  BY DEF ShowState
<1>. QED  BY <1>2, <1>3, <1>4, <1>5 DEF Minus

(* An order is sent and shown as sent, and nothing is selected any more.   *)
LEMMA MoveWithin ==
  ASSUME BoardTypes, NEW to \in Nodes, NEW count \in Nat, ExecuteMoveTo(to, count),
         WithinInv, selectedFrom # None
  PROVE  /\ BoardTypes' /\ WithinInv'
         /\ \E order \in Orders : up' = Append(up, order)
         /\ seen' = IF Newer(stateView, seen) THEN stateView ELSE seen
         /\ stateView # None
<1> DEFINE order == Order(selectedFrom, to, count)
<1>1. order \in Orders
  BY DEF Order, Orders, BoardTypes
<1>2. stateView \in OpenViews
  BY DEF WithinInv, BoardTypes
<1>3. PICK young \in Suffixes(optimisticMoves) : ShowState(stateView, Append(young, order))
  BY DEF ExecuteMoveTo
<1>4. /\ up' = Append(up, order)
      /\ selectedFrom' = None /\ selectedTo' = None /\ selectedUnits' = 0
  BY DEF ExecuteMoveTo
<1> HIDE DEF order
<1>5. Append(young, order) \in Seq(Orders)
  BY <1>1, SuffixOfOrders, AppendProperties DEF BoardTypes
<1>6. /\ stateView' = stateView
      /\ seen' = IF Newer(stateView, seen) THEN stateView ELSE seen
      /\ optimisticMoves' \in Seq(Orders)
      /\ enabled' \in Nat /\ enabled' <= stateView'.myRemainingUnits
  BY <1>2, <1>3, <1>5, ShownWithin
<1>7. BoardTypes'
  BY <1>2, <1>4, <1>6 DEF BoardTypes
<1>8. stateView'.myRemainingUnits \in Nat
  BY <1>2, <1>6 DEF OpenViews, Views
<1>9. WithinInv'
  BY <1>4, <1>6, <1>8 DEF WithinInv, SelectionWithinRemaining
<1>10. stateView # None
  BY DEF WithinInv
<1>. QED  BY <1>1, <1>4, <1>6, <1>7, <1>9, <1>10

(* A new view ends a selection that it leaves no units for. *)
LEMMA UpdateWithin ==
  ASSUME WireTypes, BoardTypes, WithinInv, HandleStateUpdate
  PROVE  /\ BoardTypes' /\ WithinInv' /\ WireTypes'
         /\ \/ Head(down).view = None /\ UNCHANGED browser
            \/ /\ stateView' = Head(down).view /\ stateView' \in OpenViews
               /\ seen' = IF Newer(stateView', seen) THEN stateView' ELSE seen
               /\ UNCHANGED gameOverShown
<1>1. down # <<>> /\ Head(down).type = "state_update"
  BY DEF HandleStateUpdate
<1>2. Head(down) \in Messages /\ Tail(down) \in Seq(Messages)
  BY <1>1, HeadTailProperties DEF WireTypes
<1>3. down' = Tail(down) /\ UNCHANGED <<up, answer, push>> /\ WireTypes'
  BY <1>2 DEF HandleStateUpdate, server, WireTypes
<1>4. CASE Head(down).view = None /\ UNCHANGED browser
  BY <1>3, <1>4 DEF browser, selection, BoardTypes, WithinInv, SelectionWithinRemaining
<1>5. CASE Head(down).view # None
  <2>1. PICK v \in OpenViews : v = Head(down).view
    BY <1>1, <1>2, <1>5, MessageFacts
  <2>2. PICK young \in Suffixes(optimisticMoves) : ShowState(v, young)
    BY <1>5, <2>1 DEF HandleStateUpdate
  <2>3. young \in Seq(Orders)
    BY SuffixOfOrders DEF BoardTypes
  <2>4. /\ stateView' = v /\ seen' = IF Newer(v, seen) THEN v ELSE seen
        /\ optimisticMoves' \in Seq(Orders)
        /\ enabled' \in Nat /\ enabled' <= stateView'.myRemainingUnits
    BY <2>2, <2>3, ShownWithin
  <2>5. /\ selectedUnits' = UnitsWithin(enabled')
        /\ UNCHANGED <<selectedFrom, selectedTo, gameOverShown>>
    BY <1>5 DEF HandleStateUpdate
  <2>6. selectedUnits' \in Nat /\ selectedUnits' <= enabled'
    BY <2>4, <2>5 DEF UnitsWithin, BoardTypes
  <2>7. BoardTypes'
    BY <2>4, <2>5, <2>6 DEF BoardTypes
  <2>8. stateView'.myRemainingUnits \in Nat /\ stateView' # None
    BY <2>4, NoneIsNoView DEF OpenViews, Views
  <2>9. WithinInv'
    BY <2>4, <2>6, <2>8 DEF WithinInv, SelectionWithinRemaining
  <2>. QED  BY <1>3, <2>1, <2>4, <2>5, <2>7, <2>9
<1>. QED  BY <1>4, <1>5 DEF HandleStateUpdate

(* An event changes no order and no view. *)
LEMMA EventTypes ==
  ASSUME WireTypes, HandleGameEvent
  PROVE  WireTypes'
<1>1. Head(down) \in Messages /\ Tail(down) \in Seq(Messages)
  BY HeadTailProperties DEF WireTypes, HandleGameEvent
<1>2. Append(up, GetState) \in Seq(Requests)
  BY MessageFacts, AppendProperties DEF WireTypes
<1>. QED  BY <1>1, <1>2 DEF WireTypes, HandleGameEvent, server

(* The nodes and numbers a player clicks. *)
LEMMA SelectFromWithin ==
  ASSUME BoardTypes, WithinInv, NEW n \in Nodes, SelectFrom(n)
  PROVE  BoardTypes' /\ WithinInv'
<1> DEFINE most == Min({stateView.myRemainingUnits, Selectable(stateView, n)})
<1>1. /\ stateView # None /\ ~ stateView.isMyPlanningComplete
      /\ Selectable(stateView, n) > 0
  BY DEF SelectFrom, MayPlan
<1>2. stateView \in OpenViews /\ stateView.myRemainingUnits \in Nat
      /\ stateView.myRemainingUnits > 0
  BY <1>1 DEF BoardTypes, OpenViews, Views
<1>3. Selectable(stateView, n) \in Nat
  BY <1>2, SelectableIsNat
<1>4. most \in Nat /\ most <= stateView.myRemainingUnits
  BY <1>2, <1>3, MinOfTwo
<1>5. /\ selectedFrom' = n /\ enabled' = most
      /\ selectedUnits' = IF selectedUnits \in 1..most THEN selectedUnits ELSE 1
      /\ UNCHANGED <<stateView, optimisticMoves, selectedTo, seen>>
  BY DEF SelectFrom
<1> HIDE DEF most
<1>6. selectedUnits' \in Nat /\ selectedUnits' <= stateView.myRemainingUnits
  BY <1>2, <1>4, <1>5
<1>7. BoardTypes'
  BY <1>4, <1>5, <1>6 DEF BoardTypes
<1>8. WithinInv'
  BY <1>1, <1>4, <1>5, <1>6 DEF WithinInv, SelectionWithinRemaining
<1>. QED  BY <1>7, <1>8

(* A selection is given up. *)
LEMMA DeselectWithin ==
  ASSUME BoardTypes, WithinInv, Deselect
  PROVE  BoardTypes' /\ WithinInv'
<1>1. stateView # None
  BY DEF Deselect, MayPlan
<1>2. stateView.myRemainingUnits \in Nat
  BY <1>1 DEF BoardTypes, OpenViews, Views
<1>3. /\ selectedFrom' = None /\ selectedTo' = None /\ selectedUnits' = 0
      /\ enabled' = stateView.myRemainingUnits
      /\ UNCHANGED <<stateView, optimisticMoves, seen>>
  BY DEF Deselect
<1>. QED  BY <1>1, <1>2, <1>3 DEF BoardTypes, WithinInv, SelectionWithinRemaining

(* What clicks change outside the selection: an order more may be sent,    *)
(* and the shown view is shown again. *)
ClickFrame ==
  /\ UNCHANGED <<room, down, answer, push, gameOverShown, stateView, refused, pushes>>
  /\ \/ up' = up
     \/ \E order \in Orders : up' = Append(up, order)
  /\ \/ seen' = seen
     \/ seen' = stateView /\ stateView # None /\ Newer(stateView, seen)

(* A click that sends nothing leaves the server and the wires alone.       *)
LEMMA QuietClick ==
  ASSUME UNCHANGED <<room, up, down, server, stateView, gameOverShown, seen,
                     refused, pushes>>
  PROVE  ClickFrame
<1>1. UNCHANGED <<answer, push>>
  BY DEF server
<1>2. UNCHANGED room
      /\ UNCHANGED <<down, answer, push, gameOverShown, stateView, refused, pushes>>
  BY <1>1
<1>3. UNCHANGED <<room, down, answer, push, gameOverShown, stateView, refused, pushes>>
  BY <1>2
<1>4. up' = up /\ seen' = seen
  OBVIOUS
<1>. QED  BY Zenon, <1>3, <1>4 DEF ClickFrame

(* A click that sends an order adds it to what is on the way.              *)
LEMMA MoveClick ==
  ASSUME WireTypes, BoardTypes, WithinInv, NEW to \in Nodes, NEW count \in Nat,
         ExecuteMoveTo(to, count), selectedFrom # None,
         UNCHANGED <<room, down, server, gameOverShown, refused, pushes>>
  PROVE  BoardTypes' /\ WithinInv' /\ ClickFrame
<1>1. /\ BoardTypes' /\ WithinInv'
      /\ \E order \in Orders : up' = Append(up, order)
      /\ seen' = IF Newer(stateView, seen) THEN stateView ELSE seen
      /\ stateView # None
  BY MoveWithin
<1>2. UNCHANGED stateView
  BY DEF ExecuteMoveTo, ShowState
<1>. QED  BY <1>1, <1>2 DEF ClickFrame, server

(* A click on a second node. *)
LEMMA SelectToWithin ==
  ASSUME WireTypes, BoardTypes, WithinInv, NEW n \in Nodes, SelectTo(n)
  PROVE  BoardTypes' /\ WithinInv' /\ ClickFrame
<1>1. selectedFrom # None
  BY DEF SelectTo
<1>2. CASE selectedUnits > 0
  <2>1. ExecuteMoveTo(n, selectedUnits)
        /\ UNCHANGED <<room, down, server, gameOverShown, refused, pushes>>
    BY <1>2 DEF SelectTo
  <2>. QED  BY <1>1, <2>1, MoveClick DEF BoardTypes
<1>3. CASE ~ (selectedUnits > 0)
  <2>1. /\ selectedTo' = n
        /\ UNCHANGED <<room, up, down, server, stateView, optimisticMoves,
                       selectedFrom, selectedUnits, enabled, gameOverShown, seen,
                       refused, pushes>>
    BY <1>3 DEF SelectTo
  <2>2. BoardTypes' /\ WithinInv'
    BY <2>1 DEF BoardTypes, WithinInv, SelectionWithinRemaining
  <2>. QED  BY <2>1, <2>2, QuietClick
<1>. QED  BY <1>2, <1>3

(* A number of units is chosen. *)
LEMMA SelectUnitsWithin ==
  ASSUME WireTypes, BoardTypes, WithinInv, NEW count \in Counts, SelectUnits(count)
  PROVE  BoardTypes' /\ WithinInv' /\ ClickFrame
<1>1. count \in Nat /\ count <= enabled
  BY BoardBounds DEF Counts, SelectUnits
<1>2. CASE selectedFrom # None /\ selectedTo # None
  <2>1. ExecuteMoveTo(selectedTo, count)
        /\ UNCHANGED <<room, down, server, gameOverShown, refused, pushes>>
    BY <1>2 DEF SelectUnits
  <2>2. selectedTo \in Nodes
    BY <1>2 DEF BoardTypes
  <2>. QED  BY <1>1, <1>2, <2>1, <2>2, MoveClick
<1>3. CASE ~ (selectedFrom # None /\ selectedTo # None)
  <2>1. /\ selectedUnits' = count
        /\ UNCHANGED <<room, up, down, server, stateView, optimisticMoves,
                       selectedFrom, selectedTo, enabled, gameOverShown, seen,
                       refused, pushes>>
    BY <1>3 DEF SelectUnits
  <2>2. BoardTypes' /\ ClickFrame
    BY <1>1, <2>1, QuietClick DEF BoardTypes
  <2>3. stateView # None => stateView.myRemainingUnits \in Nat
    BY DEF BoardTypes, OpenViews, Views
  <2>4. WithinInv'
    BY <1>1, <2>1, <2>3 DEF WithinInv, SelectionWithinRemaining, BoardTypes
  <2>. QED  BY <2>2, <2>4
<1>. QED  BY <1>2, <1>3

(* So every click leaves the selection within what remains. *)
LEMMA ClickWithin ==
  ASSUME RoomTypes, WireTypes, BoardTypes, WithinInv,
         \/ \E n \in Nodes : SelectFrom(n) \/ SelectTo(n)
         \/ Deselect
         \/ \E count \in Counts : SelectUnits(count)
  PROVE  BoardInv' /\ ClickFrame
<1>1. BoardTypes' /\ WithinInv' /\ ClickFrame
  <2>1. ASSUME NEW n \in Nodes, SelectFrom(n) PROVE BoardTypes' /\ WithinInv' /\ ClickFrame
    <3>1. ClickFrame
      BY <2>1, QuietClick DEF SelectFrom
    <3>. QED  BY <2>1, <3>1, SelectFromWithin
  <2>2. ASSUME Deselect PROVE BoardTypes' /\ WithinInv' /\ ClickFrame
    <3>1. ClickFrame
      BY <2>2, QuietClick DEF Deselect
    <3>. QED  BY <2>2, <3>1, DeselectWithin
  <2>. QED  BY <2>1, <2>2, SelectToWithin, SelectUnitsWithin
<1>2. RoomTypes'
  BY <1>1 DEF ClickFrame, RoomTypes, room
<1>3. WireTypes'
  <2>1. \A order \in Orders : Append(up, order) \in Seq(Requests)
    BY AppendProperties DEF WireTypes, Requests
  <2>. QED  BY <1>1, <2>1 DEF ClickFrame, WireTypes
<1>. QED  BY <1>1, <1>2, <1>3 DEF BoardInv

(* It holds at first. *)
LEMMA BoardInvInit == Init => BoardInv
<1> SUFFICES ASSUME Init PROVE BoardInv
  OBVIOUS
<1>1. <<>> \in Seq(Orders) /\ Sum(<<>>) = 0
  BY EmptySeq, SumFacts
<1>2. RoomTypes
  BY <1>1, BoardBounds DEF Init, RoomTypes
<1>3. WireTypes
  <2>1. <<GetState>> \in Seq(Requests) /\ <<>> \in Seq(Messages)
    BY MessageFacts, EmptySeq
  <2>. QED  BY <2>1 DEF Init, WireTypes
<1>4. BoardTypes /\ WithinInv
  BY <1>1, BoardBounds DEF Init, BoardTypes, WithinInv, SelectionWithinRemaining
<1>. QED  BY <1>2, <1>3, <1>4 DEF BoardInv

(* And every step preserves it. *)
LEMMA BoardInvNext == BoardInv /\ [Next]_vars => BoardInv'
<1> SUFFICES ASSUME BoardInv, [Next]_vars PROVE BoardInv'
  OBVIOUS
<1>1. RoomTypes /\ WireTypes /\ BoardTypes /\ WithinInv
  BY DEF BoardInv
<1>2. UNCHANGED browser => BoardTypes' /\ WithinInv'
  BY <1>1 DEF browser, selection, BoardTypes, WithinInv, SelectionWithinRemaining
<1>3. CASE EndRound \/ Process \/ Read \/ Send \/ Push \/ SendPush
  <2>1. RoomTypes' /\ WireTypes'
    BY <1>1, <1>3, EndRoundTypes, ProcessTypes, ServerTypes
  <2>2. UNCHANGED browser
    BY <1>3 DEF EndRound, Process, Read, Send, Push, SendPush
  <2>. QED  BY <1>2, <2>1, <2>2 DEF BoardInv
<1>4. CASE HandleStateUpdate
  <2>1. BoardTypes' /\ WithinInv' /\ WireTypes'
    BY <1>1, <1>4, UpdateWithin
  <2>2. RoomTypes'
    BY <1>1, <1>4 DEF HandleStateUpdate, room, RoomTypes
  <2>. QED  BY <2>1, <2>2 DEF BoardInv
<1>5. CASE HandleGameEvent
  <2>1. WireTypes'
    BY <1>1, <1>5, EventTypes
  <2>2. RoomTypes' /\ BoardTypes' /\ WithinInv'
    BY <1>1, <1>5 DEF HandleGameEvent, room, RoomTypes, selection, BoardTypes,
       WithinInv, SelectionWithinRemaining
  <2>. QED  BY <2>1, <2>2 DEF BoardInv
<1>6. CASE \/ \E n \in Nodes : SelectFrom(n) \/ SelectTo(n)
           \/ Deselect
           \/ \E count \in Counts : SelectUnits(count)
  BY <1>1, <1>6, ClickWithin
<1>7. CASE UNCHANGED vars
  <2>1. UNCHANGED browser /\ RoomTypes' /\ WireTypes'
    BY <1>1, <1>7 DEF vars, room, server, RoomTypes, WireTypes
  <2>. QED  BY <1>2, <2>1 DEF BoardInv
<1>. QED  BY <1>3, <1>4, <1>5, <1>6, <1>7 DEF Next

(* Whatever comes between two clicks -- a view, the end of a round, older  *)
(* views after newer ones -- no order asks for more units than the view    *)
(* the player has leaves him (SelectionWithinRemaining, gameUI.js:43-55,   *)
(* 123-221, 279-417). *)
THEOREM OrdersStayWithin == Spec => []SelectionWithinRemaining
<1>1. BoardInv => SelectionWithinRemaining
  BY DEF BoardInv, WithinInv
<1>. QED  BY <1>1, BoardInvInit, BoardInvNext, PTL DEF Spec

-----------------------------------------------------------------------------
(* Every view was a view of the room: it is the one of now, or the one of  *)
(* now is newer. *)
AsOld(v, w) == v = w \/ Newer(w, v)

OldViews ==
  /\ \A m \in Range(down) : m.view # None => AsOld(m.view, View)
  /\ answer.view # None => AsOld(answer.view, View)
  /\ push.view # None => AsOld(push.view, View)
  /\ stateView # None => AsOld(stateView, View)
  /\ seen # None => AsOld(seen, View)

(* Who has not seen the view of now will be sent it, or told to ask, or    *)
(* was refused it when he asked last.                                      *)
WillSee ==
  \/ seen = View
  \/ refused
  \/ answer = Due
  \/ answer.view = View
  \/ \E m \in Range(up) : m.type = "get_state"
  \/ \E m \in Range(down) :
       \/ m.type = "RoundResolved"
       \/ m.view = View

EndWillShow ==
  \/ gameOverShown
  \/ \E m \in Range(down) : m.type = "GameOver"

ToldInv ==
  /\ OldViews
  /\ phase = "Planning" => WillSee
  /\ phase = "GameOver" => EndWillShow

(* Newer orders the views. *)
LEMMA NewerFacts ==
  ASSUME NEW v \in Views, NEW w \in Views
  PROVE  /\ ~ Newer(v, v)
         /\ ~ (Newer(v, w) /\ Newer(w, v))
         /\ \A x \in Views : AsOld(v, w) /\ AsOld(w, x) => AsOld(v, x)
<1>1. \A x \in Views : /\ x.currentRound \in Nat /\ Len(x.myPendingMoves) \in Nat
                       /\ x # None /\ x.phase \in {"Planning", "GameOver"}
  BY NoneIsNoView, LenProperties DEF Views
<1>2. ~ Newer(v, v) /\ ~ (Newer(v, w) /\ Newer(w, v))
  BY <1>1 DEF Newer
<1>3. ASSUME NEW x \in Views, Newer(w, v), Newer(x, w) PROVE Newer(x, v)
  BY <1>1, <1>3 DEF Newer
<1>. QED  BY <1>2, <1>3 DEF AsOld

(* The view a player has been shown last does not give way to an older one.*)
LEMMA NewestStays ==
  ASSUME NEW v \in Views, NEW s \in Views \cup {None}, NEW w \in Views,
         AsOld(v, w), s # None => AsOld(s, w)
  PROVE  /\ s = w => ~ Newer(v, s)
         /\ v = w => (IF Newer(v, s) THEN v ELSE s) = w
<1>1. s = w => ~ Newer(v, s)
  BY NewerFacts DEF AsOld
<1>2. v = w /\ s = None => Newer(v, s)
  BY DEF Newer
<1>. QED  BY <1>1, <1>2 DEF AsOld

(* The room moves on: by a round, to the end, or by an order.              *)
LEMMA RoomMovesOn ==
  ASSUME BoardInv, BoardInv', [Next]_vars
  PROVE  /\ View \in OpenViews /\ View' \in OpenViews
         /\ AsOld(View, View')
<1>1. RoomTypes /\ WireTypes /\ RoomTypes'
  BY DEF BoardInv
<1>2. View \in OpenViews
  BY <1>1, ViewIsOpen
<1>3. (RoomTypes => View \in OpenViews)'
  BY ViewIsOpen, PTL
<1>4. View' \in OpenViews
  BY <1>1, <1>3
<1>5. UNCHANGED room => View' = View
  BY DEF room, View, Remaining
<1>6. /\ View.phase = phase /\ View.currentRound = currentRound
      /\ View.myPendingMoves = pendingMoves
      /\ View'.phase = phase' /\ View'.currentRound = currentRound'
      /\ View'.myPendingMoves = pendingMoves'
  BY DEF View
<1>7. CASE EndRound
  <2>1. /\ phase = "Planning"
        /\ \/ currentRound' = currentRound + 1
           \/ currentRound' = currentRound /\ phase' = "GameOver"
    BY <1>7 DEF EndRound
  <2>2. Newer(View', View)
    BY <1>1, <1>6, <2>1 DEF Newer, RoomTypes
  <2>. QED  BY <1>2, <1>4, <2>2 DEF AsOld
<1>8. CASE Process
  <2>1. \/ UNCHANGED room
        \/ /\ phase = "Planning" /\ UNCHANGED <<phase, currentRound, mobile>>
           /\ \E x \in Orders : pendingMoves' = Append(pendingMoves, x)
    BY <1>1, <1>8, ProcessTypes
  <2>2. ASSUME NEW x \in Orders, pendingMoves' = Append(pendingMoves, x),
               phase = "Planning", UNCHANGED <<phase, currentRound, mobile>>
        PROVE  Newer(View', View)
    <3>1. Len(pendingMoves') = Len(pendingMoves) + 1 /\ Len(pendingMoves) \in Nat
      BY <1>1, <2>2, AppendProperties, LenProperties DEF RoomTypes
    <3>. QED  BY <1>1, <1>6, <2>2, <3>1 DEF Newer, RoomTypes
  <2>. QED  BY <1>2, <1>4, <1>5, <2>1, <2>2 DEF AsOld
<1>9. CASE ~ EndRound /\ ~ Process
  <2>1. UNCHANGED room
    <3>1. CASE HandleStateUpdate \/ HandleGameEvent
      BY <3>1 DEF HandleStateUpdate, HandleGameEvent
    <3>2. CASE \/ \E n \in Nodes : SelectFrom(n) \/ SelectTo(n)
               \/ Deselect
               \/ \E count \in Counts : SelectUnits(count)
      BY <3>2, ClickWithin DEF BoardInv, ClickFrame
    <3>3. CASE Read \/ Send \/ Push \/ SendPush \/ UNCHANGED vars
      BY <3>3 DEF Read, Send, Push, SendPush, vars
    <3>. QED  BY <1>9, <3>1, <3>2, <3>3 DEF Next
  <2>. QED  BY <1>2, <1>4, <1>5, <2>1 DEF AsOld
<1>. QED  BY <1>2, <1>4, <1>7, <1>8, <1>9

(* So the views there are stay old ones; what is to be shown of the old    *)
(* and the new ones is told apart step by step. *)
LEMMA OldViewsNext ==
  ASSUME BoardInv, BoardInv', OldViews, [Next]_vars,
         \A m \in Range(down') :
           m.view # None => m \in Range(down) \/ AsOld(m.view, View),
         answer'.view \in {None, View, answer.view},
         push'.view \in {None, View, push.view},
         stateView' \in {None, stateView} \/ AsOld(stateView', View),
         seen' \in {None, seen} \/ AsOld(seen', View)
  PROVE  OldViews'
<1>1. /\ View \in Views /\ View' \in Views /\ View' # None
      /\ AsOld(View, View') /\ AsOld(View, View)
  BY RoomMovesOn, NoneIsNoView DEF OpenViews, AsOld
<1>2. ASSUME NEW v \in Views, AsOld(v, View) PROVE AsOld(v, View')
  BY <1>1, <1>2, NewerFacts
<1>3. /\ \A m \in Range(down') : m.view # None => m.view \in Views
      /\ answer'.view # None => answer'.view \in Views
      /\ push'.view # None => push'.view \in Views
      /\ stateView' # None => stateView' \in Views
      /\ seen' # None => seen' \in Views
  <2>1. WireTypes' /\ BoardTypes'
    BY DEF BoardInv
  <2>2. \A m \in Range(down') : m.view # None => m.view \in Views
    BY <2>1, RangeFacts, MessageFacts DEF WireTypes, OpenViews
  <2>3. answer' \in {Nothing, Due} \cup Ready /\ push' \in {Nothing} \cup Ready
    BY <2>1 DEF WireTypes
  <2>4. /\ answer'.view # None => answer'.view \in Views
        /\ push'.view # None => push'.view \in Views
    <3>1. Nothing.view = None /\ Due.view = None
      BY DEF Nothing, Due
    <3>2. \A x \in Ready : x.view # None => x.view \in Views
      BY DEF Ready, OpenViews
    <3>. QED  BY <2>3, <3>1, <3>2
  <2>5. stateView' \in OpenViews \cup {None} /\ seen' \in OpenViews \cup {None}
    BY <2>1 DEF BoardTypes
  <2>. QED
    BY <2>2, <2>4, <2>5 DEF OpenViews
<1>4. /\ \A m \in Range(down') : m.view # None => AsOld(m.view, View)
      /\ answer'.view # None => AsOld(answer'.view, View)
      /\ push'.view # None => AsOld(push'.view, View)
      /\ stateView' # None => AsOld(stateView', View)
      /\ seen' # None => AsOld(seen', View)
  BY <1>1 DEF OldViews
<1>. QED  BY <1>2, <1>3, <1>4 DEF OldViews

(* A round ends: its event and a view are due. *)
LEMMA ToldEndRound ==
  ASSUME BoardInv, ToldInv, EndRound, OldViews'
  PROVE  ToldInv'
<1>1. PICK news \in Seq(Messages) :
        /\ down' = down \o news
        /\ phase' = "Planning" => \E m \in Range(news) : m.type = "RoundResolved"
        /\ phase' = "GameOver" => \E m \in Range(news) : m.type = "GameOver"
  <2>1. /\ <<Event("RoundResolved")>> \in Seq(Messages)
        /\ <<Event("RoundResolved"), Event("GameOver")>> \in Seq(Messages)
        /\ <<Event("GameOver")>> \in Seq(Messages)
    BY MessageFacts
  <2>2. /\ Event("RoundResolved") \in Range(<<Event("RoundResolved")>>)
        /\ Event("GameOver") \in Range(<<Event("RoundResolved"), Event("GameOver")>>)
        /\ Event("GameOver") \in Range(<<Event("GameOver")>>)
    BY DEF Range
  <2>3. Event("RoundResolved").type = "RoundResolved" /\ Event("GameOver").type = "GameOver"
    BY DEF Event, Message
  <2>4. PICK end \in {"round", "game", "forced"} :
          /\ phase' = IF end = "round" THEN "Planning" ELSE "GameOver"
          /\ down' = down \o
               CASE end = "round" -> <<Event("RoundResolved")>>
                 [] end = "game" -> <<Event("RoundResolved"), Event("GameOver")>>
                 [] end = "forced" -> <<Event("GameOver")>>
    BY DEF EndRound
  <2>5. CASE end = "round"
    BY <2>1, <2>2, <2>3, <2>4, <2>5
  <2>6. CASE end = "game"
    BY <2>1, <2>2, <2>3, <2>4, <2>6
  <2>7. CASE end = "forced"
    BY <2>1, <2>2, <2>3, <2>4, <2>7
  <2>. QED  BY <2>4, <2>5, <2>6, <2>7
<1>2. Range(down') = Range(down) \cup Range(news)
  BY <1>1, RangeConcatenation DEF BoardInv, WireTypes
<1>. QED  BY <1>1, <1>2 DEF ToldInv, WillSee, EndWillShow

(* A view on its way out goes on: more is sent, nothing is taken back.     *)
LEMMA ToldSending ==
  ASSUME ToldInv, OldViews', View' = View, phase' = phase,
         gameOverShown => gameOverShown',
         \A m \in Range(up) : m.type = "get_state" => m \in Range(up') \/ answer' = Due,
         \A m \in Range(down) : m \in Range(down'),
         seen = View => seen' = View,
         refused => refused' \/ answer'.view = View,
         answer = Due => answer' = Due \/ answer'.view = View \/ refused',
         answer.view = View =>
           answer'.view = View \/ \E m \in Range(down') : m.view = View
  PROVE  ToldInv'
<1>1. phase = "Planning" => WillSee'
  BY DEF ToldInv, WillSee
<1>2. phase = "GameOver" => EndWillShow'
  BY DEF ToldInv, EndWillShow
<1>. QED  BY <1>1, <1>2 DEF ToldInv

(* A request is handled: a view is due. *)
LEMMA ToldProcess ==
  ASSUME BoardInv, BoardInv', ToldInv, Process, OldViews'
  PROVE  ToldInv'
<1>1. up \in Seq(Requests) /\ up # <<>> /\ up' = Tail(up)
      /\ UNCHANGED <<phase, down, push, browser, refused>> /\ answer = Nothing
  BY DEF BoardInv, WireTypes, Process
<1>2. UNCHANGED <<gameOverShown, seen>>
  BY <1>1 DEF browser
<1>3. /\ \/ UNCHANGED room
         \/ phase = "Planning" /\ answer' = Due
      /\ Head(up).type = "get_state" => answer' = Due
  BY ProcessTypes DEF BoardInv
<1>4. CASE answer' = Due
  BY <1>1, <1>2, <1>4 DEF ToldInv, WillSee, EndWillShow
<1>5. CASE answer' # Due
  <2>1. UNCHANGED room
    BY <1>3, <1>5
  <2>2. View' = View
    BY <2>1 DEF room, View, Remaining
  <2>3. Range(up) = {Head(up)} \cup Range(Tail(up))
    BY <1>1, RangeFacts
  <2>4. View # None /\ Nothing # Due
    BY ViewIsOpen, NoneIsNoView DEF BoardInv, OpenViews, Nothing, Due
  <2>5. answer.view # View
    BY <1>1, <2>4 DEF Nothing
  <2>. QED
    BY <1>1, <1>2, <1>3, <2>2, <2>3, <2>4, <2>5, ToldSending
<1>. QED  BY <1>4, <1>5

(* A view that is read is as new as the room, or another one is due. *)
LEMMA ToldServer ==
  ASSUME BoardInv, ToldInv, Read \/ Send \/ Push \/ SendPush, OldViews'
  PROVE  ToldInv'
<1>1. UNCHANGED <<room, up, browser>>
  BY DEF Read, Send, Push, SendPush, browser
<1>2. View' = View
  BY <1>1 DEF room, View, Remaining
<1>3. UNCHANGED <<phase, gameOverShown, seen>>
  BY <1>1 DEF room, browser
<1>4. down \in Seq(Messages)
  BY DEF BoardInv, WireTypes
<1>5. CASE Read
  <2>1. PICK v \in {View, None} : answer' = ToSend(v) /\ refused' = (v = None)
    BY <1>5 DEF Read
  <2>2. answer = Due /\ down' = down /\ answer'.view = v /\ View # Due.view
    BY <1>5, <2>1, ViewIsOpen, NoneIsNoView
       DEF Read, ToSend, Due, BoardInv, OpenViews
  <2>3. answer'.view = View \/ refused'
    BY <2>1, <2>2
  <2>. QED  BY <1>1, <1>2, <1>3, <2>2, <2>3, ToldSending
<1>6. CASE Push
  BY <1>1, <1>2, <1>3, <1>6, ToldSending DEF Push
<1>7. CASE Send
  <2>1. /\ answer.step = "sending" /\ answer' = Nothing /\ refused' = refused
        /\ down' = Append(down, Message("state_update", answer.view))
    BY <1>7 DEF Send
  <2>2. answer \in Ready /\ answer # Due
    BY <2>1 DEF BoardInv, WireTypes, Nothing, Due
  <2>3. Message("state_update", answer.view) \in Messages
    BY <2>2, MessageFacts DEF Ready, Messages
  <2>4. Range(down') = Range(down) \cup {Message("state_update", answer.view)}
    BY <1>4, <2>1, <2>3, RangeFacts
  <2>5. Message("state_update", answer.view).view = answer.view
    BY DEF Message
  <2>. QED  BY <1>1, <1>2, <1>3, <2>1, <2>2, <2>4, <2>5, ToldSending
<1>8. CASE SendPush
  <2>1. /\ push # Nothing /\ answer' = answer /\ refused' = refused
        /\ down' = Append(down, Message("state_update", push.view))
    BY <1>8 DEF SendPush
  <2>2. push \in Ready
    BY <2>1 DEF BoardInv, WireTypes
  <2>3. Message("state_update", push.view) \in Messages
    BY <2>2, MessageFacts DEF Ready, Messages
  <2>4. Range(down') = Range(down) \cup {Message("state_update", push.view)}
    BY <1>4, <2>1, <2>3, RangeFacts
  <2>. QED  BY <1>1, <1>2, <1>3, <2>1, <2>4, ToldSending
<1>. QED  BY <1>5, <1>6, <1>7, <1>8

(* A view arrives: it is the one that is shown, or an older one. *)
LEMMA ToldUpdate ==
  ASSUME BoardInv, BoardInv', ToldInv, HandleStateUpdate, OldViews'
  PROVE  ToldInv'
<1> DEFINE v == Head(down).view
<1>1. /\ down # <<>> /\ Head(down).type = "state_update" /\ down' = Tail(down)
      /\ UNCHANGED <<room, up, server, refused>>
  BY DEF HandleStateUpdate
<1>2. UNCHANGED <<phase, answer>> /\ View' = View
  BY <1>1 DEF room, server, View, Remaining
<1>3. Range(down) = {Head(down)} \cup Range(Tail(down)) /\ Head(down) \in Messages
  BY <1>1, RangeFacts DEF BoardInv, WireTypes
<1>4. /\ gameOverShown' = gameOverShown
      /\ \/ v = None /\ seen' = seen
         \/ v \in OpenViews /\ seen' = IF Newer(v, seen) THEN v ELSE seen
  BY UpdateWithin DEF BoardInv, browser
<1>5. /\ seen \in Views \cup {None} /\ View \in Views /\ View # None
      /\ seen # None => AsOld(seen, View)
      /\ v # None => AsOld(v, View)
  <2>1. v # None => AsOld(v, View)
    BY <1>3 DEF ToldInv, OldViews
  <2>2. View \in Views /\ seen \in Views \cup {None}
    BY ViewIsOpen DEF BoardInv, BoardTypes, OpenViews
  <2>. QED
    BY <2>1, <2>2, NoneIsNoView DEF ToldInv, OldViews
<1> HIDE DEF v
<1>6. (seen = View => seen' = View) /\ (v = View => seen' = View)
  <2>1. CASE v = None /\ seen' = seen
    BY <1>5, <2>1
  <2>2. CASE v \in OpenViews /\ seen' = IF Newer(v, seen) THEN v ELSE seen
    <3>1. v \in Views /\ AsOld(v, View)
      BY <1>5, <2>2, NoneIsNoView DEF OpenViews
    <3>2. /\ seen = View => ~ Newer(v, seen)
          /\ v = View => (IF Newer(v, seen) THEN v ELSE seen) = View
      BY <1>5, <3>1, NewestStays
    <3>. QED  BY <2>2, <3>2
  <2>. QED  BY <1>4, <2>1, <2>2
<1>7. phase = "Planning" => WillSee'
  <2> SUFFICES ASSUME WillSee PROVE WillSee'
    BY DEF ToldInv
  <2>1. CASE \E m \in Range(down) : m.view = View
    <3>1. PICK m \in Range(down) : m.view = View
      BY <2>1
    <3>2. CASE m = Head(down)
      BY <1>2, <1>6, <3>1, <3>2 DEF v, WillSee
    <3>3. CASE m \in Range(Tail(down))
      BY <1>1, <1>2, <3>1, <3>3 DEF WillSee
    <3>. QED  BY <1>3, <3>1, <3>2, <3>3
  <2>2. CASE \E m \in Range(down) : m.type = "RoundResolved"
    <3>1. \E m \in Range(Tail(down)) : m.type = "RoundResolved"
      BY <1>1, <1>3, <2>2
    <3>. QED  BY <1>1, <3>1 DEF WillSee
  <2>. QED  BY <1>1, <1>2, <1>6, <2>1, <2>2 DEF WillSee
<1>8. phase = "GameOver" => EndWillShow'
  BY <1>1, <1>3, <1>4 DEF ToldInv, EndWillShow
<1>. QED  BY <1>2, <1>7, <1>8 DEF ToldInv

(* An event arrives: the browser asks for the state. *)
LEMMA ToldEvent ==
  ASSUME BoardInv, ToldInv, HandleGameEvent, OldViews'
  PROVE  ToldInv'
<1>1. /\ down # <<>> /\ Head(down).type # "state_update" /\ down' = Tail(down)
      /\ up' = IF Head(down).type = "RoundResolved" THEN Append(up, GetState) ELSE up
      /\ gameOverShown' = (gameOverShown \/ Head(down).type = "GameOver")
      /\ UNCHANGED <<room, server, seen, refused>>
  BY DEF HandleGameEvent
<1>2. UNCHANGED <<phase, answer>> /\ View' = View
  BY <1>1 DEF room, server, View, Remaining
<1>3. Range(down) = {Head(down)} \cup Range(Tail(down))
  BY <1>1, RangeFacts DEF BoardInv, WireTypes
<1>. Head(down).view # View
  <2>1. Head(down).view = None
    BY <1>1, RangeFacts, MessageFacts DEF BoardInv, WireTypes
  <2>. QED  BY <2>1, ViewIsOpen, NoneIsNoView DEF BoardInv, OpenViews
<1>4. /\ Head(down).type = "RoundResolved" => \E m \in Range(up') : m.type = "get_state"
      /\ Range(up) \subseteq Range(up')
  <2>1. GetState \in Requests /\ GetState.type = "get_state"
    BY MessageFacts DEF GetState
  <2>2. Range(Append(up, GetState)) = Range(up) \cup {GetState}
    BY <2>1, RangeFacts DEF BoardInv, WireTypes
  <2>. QED  BY <1>1, <2>1, <2>2
<1>5. phase = "Planning" => WillSee'
  <2> SUFFICES ASSUME WillSee PROVE WillSee'
    BY DEF ToldInv
  <2>1. CASE \E m \in Range(down) : \/ m.type = "RoundResolved"
                                    \/ m.view = View
    BY <1>1, <1>2, <1>3, <1>4, <2>1 DEF WillSee
  <2>. QED  BY <1>1, <1>2, <1>4, <2>1 DEF WillSee
<1>6. phase = "GameOver" => EndWillShow'
  BY <1>1, <1>3 DEF ToldInv, EndWillShow
<1>. QED  BY <1>2, <1>5, <1>6 DEF ToldInv

(* A click sends at most an order, for which a view will be due. *)
LEMMA ToldClick ==
  ASSUME BoardInv, ToldInv, ClickFrame, OldViews'
  PROVE  ToldInv'
<1>1. /\ UNCHANGED <<room, down, answer, gameOverShown, refused>>
      /\ up' = up \/ \E order \in Orders : up' = Append(up, order)
      /\ \/ seen' = seen
         \/ seen' = stateView /\ stateView # None /\ Newer(stateView, seen)
  BY DEF ClickFrame
<1>2. UNCHANGED phase /\ View' = View
  BY <1>1 DEF room, View, Remaining
<1>3. Range(up) \subseteq Range(up')
  <2>1. \A order \in Orders : Range(Append(up, order)) = Range(up) \cup {order}
    BY RangeFacts DEF BoardInv, WireTypes, Requests
  <2>. QED  BY <1>1, <2>1
<1>4. seen = View => seen' = View
  <2> SUFFICES ASSUME seen = View, stateView # None PROVE ~ Newer(stateView, seen)
    BY <1>1
  <2>1. stateView \in Views /\ View \in Views /\ AsOld(stateView, View)
    BY ViewIsOpen DEF BoardInv, BoardTypes, OpenViews, ToldInv, OldViews
  <2>. QED  BY <2>1, NewerFacts DEF AsOld
<1>. QED  BY <1>1, <1>2, <1>3, <1>4, ToldSending

(* So every step preserves it. *)
LEMMA ToldNext == BoardInv /\ BoardInv' /\ ToldInv /\ [Next]_vars => ToldInv'
<1> SUFFICES ASSUME BoardInv, BoardInv', ToldInv, [Next]_vars PROVE ToldInv'
  OBVIOUS
<1>1. OldViews
  BY DEF ToldInv
<1>2. CASE EndRound
  <2>1. \A m \in Range(down') :
          m.view # None => m \in Range(down) \/ AsOld(m.view, View)
    <3>1. /\ <<Event("RoundResolved")>> \in Seq(Messages)
          /\ <<Event("RoundResolved"), Event("GameOver")>> \in Seq(Messages)
          /\ <<Event("GameOver")>> \in Seq(Messages)
      BY MessageFacts
    <3>2. /\ \A m \in Range(<<Event("RoundResolved")>>) : m.view = None
          /\ \A m \in Range(<<Event("RoundResolved"), Event("GameOver")>>) :
               m.view = None
          /\ \A m \in Range(<<Event("GameOver")>>) : m.view = None
      BY DEF Range, Event, Message
    <3>3. PICK news \in Seq(Messages) :
            down' = down \o news /\ \A m \in Range(news) : m.view = None
      BY <1>2, <3>1, <3>2 DEF EndRound
    <3>4. Range(down') = Range(down) \cup Range(news)
      BY <3>3, RangeConcatenation DEF BoardInv, WireTypes
    <3>. QED  BY <3>3, <3>4
  <2>2. UNCHANGED <<answer, push, stateView, seen>>
    BY <1>2 DEF EndRound, server, browser
  <2>. QED  BY <1>1, <1>2, <2>1, <2>2, OldViewsNext, ToldEndRound
<1>3. CASE Process
  <2>1. UNCHANGED <<down, push, stateView, seen>> /\ answer' \in {answer, Due}
    BY <1>3 DEF Process, browser
  <2>. QED  BY <1>1, <1>3, <2>1, OldViewsNext, ToldProcess DEF Due
<1>4. CASE Read \/ Send \/ Push \/ SendPush
  <2>1. UNCHANGED <<stateView, seen>>
    BY <1>4 DEF Read, Send, Push, SendPush, browser
  <2>2. Nothing.view = None /\ \A v : ToSend(v).view = v
    BY DEF Nothing, ToSend
  <2>3. answer'.view \in {None, View, answer.view} /\ push'.view \in {None, View, push.view}
    BY <1>4, <2>2 DEF Read, Send, Push, SendPush
  <2>4. \A m \in Range(down') :
          m.view # None => m \in Range(down) \/ AsOld(m.view, View)
    <3>1. CASE UNCHANGED down
      BY <3>1
    <3>2. CASE Send
      <4>1. /\ answer.step = "sending"
            /\ down' = Append(down, Message("state_update", answer.view))
        BY <3>2 DEF Send
      <4>2. answer \in Ready
        BY <4>1 DEF BoardInv, WireTypes, Nothing, Due
      <4>3. Message("state_update", answer.view) \in Messages
        BY <4>2, MessageFacts DEF Ready, Messages
      <4>4. Range(down') = Range(down) \cup {Message("state_update", answer.view)}
        BY <4>1, <4>3, RangeFacts DEF BoardInv, WireTypes
      <4>5. answer.view # None => AsOld(answer.view, View)
        BY <1>1 DEF OldViews
      <4>. QED  BY <4>4, <4>5 DEF Message
    <3>3. CASE SendPush
      <4>1. /\ push # Nothing
            /\ down' = Append(down, Message("state_update", push.view))
        BY <3>3 DEF SendPush
      <4>2. push \in Ready
        BY <4>1 DEF BoardInv, WireTypes
      <4>3. Message("state_update", push.view) \in Messages
        BY <4>2, MessageFacts DEF Ready, Messages
      <4>4. Range(down') = Range(down) \cup {Message("state_update", push.view)}
        BY <4>1, <4>3, RangeFacts DEF BoardInv, WireTypes
      <4>5. push.view # None => AsOld(push.view, View)
        BY <1>1 DEF OldViews
      <4>. QED  BY <4>4, <4>5 DEF Message
    <3>. QED  BY <1>4, <3>1, <3>2, <3>3 DEF Read, Push
  <2>. QED  BY <1>1, <1>4, <2>1, <2>3, <2>4, OldViewsNext, ToldServer
<1>5. CASE HandleStateUpdate
  <2>1. /\ UNCHANGED <<answer, push>> /\ down' = Tail(down) /\ down # <<>>
        /\ Head(down).type = "state_update"
    BY <1>5 DEF HandleStateUpdate, server
  <2>2. Range(down) = {Head(down)} \cup Range(Tail(down))
    BY <2>1, RangeFacts DEF BoardInv, WireTypes
  <2>3. \/ UNCHANGED <<stateView, seen>>
        \/ /\ stateView' = Head(down).view /\ stateView' # None
           /\ seen' \in {stateView', seen}
    BY <1>5, UpdateWithin, NoneIsNoView DEF BoardInv, browser, OpenViews
  <2>4. stateView' = None \/ AsOld(stateView', View)
    BY <1>1, <2>1, <2>2, <2>3 DEF OldViews
  <2>5. seen' = seen \/ AsOld(seen', View)
    BY <2>3, <2>4
  <2>6. OldViews'
    BY <1>1, <2>1, <2>2, <2>4, <2>5, OldViewsNext
  <2>. QED  BY <1>5, <2>6, ToldUpdate
<1>6. CASE HandleGameEvent
  <2>1. UNCHANGED <<answer, push, stateView, seen>> /\ down' = Tail(down) /\ down # <<>>
    BY <1>6 DEF HandleGameEvent, server
  <2>2. Range(down) = {Head(down)} \cup Range(Tail(down))
    BY <2>1, RangeFacts DEF BoardInv, WireTypes
  <2>. QED  BY <1>1, <1>6, <2>1, <2>2, OldViewsNext, ToldEvent
<1>7. CASE \/ \E n \in Nodes : SelectFrom(n) \/ SelectTo(n)
           \/ Deselect
           \/ \E count \in Counts : SelectUnits(count)
  <2>1. ClickFrame
    BY <1>7, ClickWithin DEF BoardInv
  <2>2. UNCHANGED <<down, answer, push, stateView>> /\ seen' \in {seen, stateView}
    BY <2>1 DEF ClickFrame
  <2>3. stateView = None \/ AsOld(stateView, View)
    BY <1>1 DEF OldViews
  <2>. QED  BY <1>1, <2>1, <2>2, <2>3, OldViewsNext, ToldClick
<1>8. CASE UNCHANGED vars
  <2>1. UNCHANGED <<room, up, down, answer, push, stateView, seen, gameOverShown,
                    refused>>
    BY <1>8 DEF vars, server, browser
  <2>2. UNCHANGED phase /\ View' = View
    BY <2>1 DEF room, View, Remaining
  <2>. QED  BY <2>1, <2>2 DEF ToldInv, OldViews, WillSee, EndWillShow
<1>. QED  BY <1>2, <1>3, <1>4, <1>5, <1>6, <1>7, <1>8 DEF Next

(* It holds at first. *)
LEMMA ToldInit == Init => ToldInv
<1> SUFFICES ASSUME Init PROVE ToldInv
  OBVIOUS
<1>1. GetState \in Range(<<GetState>>) /\ Range(<<>>) = {} /\ GetState.type = "get_state"
  BY DEF Range, GetState
<1>2. OldViews
  BY <1>1 DEF Init, OldViews, Nothing
<1>3. WillSee /\ phase = "Planning"
  BY <1>1 DEF Init, WillSee
<1>. QED  BY <1>2, <1>3 DEF ToldInv

(* As long as the opponent's handler has pushed nothing, views come in the *)
(* order in which they were read, and the one that is shown is the newest. *)
Follows(v, w) == v # None /\ w # None => AsOld(v, w)

InOrder ==
  /\ push = Nothing
  /\ seen = stateView
  /\ Follows(stateView, answer.view)
  /\ \A i \in 1..Len(down) :
       /\ Follows(stateView, down[i].view)
       /\ Follows(down[i].view, answer.view)
       /\ \A j \in i..Len(down) : Follows(down[i].view, down[j].view)

OrderInv == pushes \in Nat /\ (pushes = 0 => InOrder)

(* What is put in line behind the others, and is newer. *)
LEMMA LaterFollows ==
  ASSUME BoardInv, InOrder, NEW m \in Messages,
         Follows(stateView, m.view), Follows(m.view, m.view),
         \A i \in 1..Len(down) : Follows(down[i].view, m.view),
         down' = Append(down, m), answer'.view = None,
         UNCHANGED <<push, stateView, seen>>
  PROVE  InOrder'
<1>1. /\ Len(down) \in Nat /\ Len(down') = Len(down) + 1
      /\ down'[Len(down) + 1] = m
      /\ \A i \in 1..Len(down) : down'[i] = down[i]
  BY AppendProperties, LenProperties DEF BoardInv, WireTypes
<1>2. \A v : Follows(v, answer'.view)
  BY DEF Follows
<1>3. ASSUME NEW i \in 1..Len(down')
      PROVE  /\ Follows(stateView', down'[i].view)
             /\ \A j \in i..Len(down') : Follows(down'[i].view, down'[j].view)
  <2>1. CASE i = Len(down) + 1
    <3>1. down'[i] = m /\ \A j \in i..Len(down') : j = i
      BY <1>1, <2>1
    <3>. QED  BY <3>1
  <2>2. CASE i \in 1..Len(down)
    <3>1. down'[i] = down[i] /\ Follows(stateView, down[i].view)
      BY <1>1, <2>2 DEF InOrder
    <3>2. ASSUME NEW j \in i..Len(down') PROVE Follows(down[i].view, down'[j].view)
      <4>1. j = Len(down) + 1 \/ (j \in i..Len(down) /\ j \in 1..Len(down))
        BY <1>1, <2>2
      <4>. QED  BY <1>1, <2>2, <4>1 DEF InOrder
    <3>. QED  BY <3>1, <3>2
  <2>. QED  BY <1>1, <2>1, <2>2
<1>. QED  BY <1>2, <1>3 DEF InOrder

(* Events have no view, and so no place in that order. *)
LEMMA EventsFollow ==
  ASSUME BoardInv, InOrder, NEW news \in Seq(Messages),
         \A i \in 1..Len(news) : news[i].view = None, down' = down \o news,
         UNCHANGED <<answer, push, stateView, seen>>
  PROVE  InOrder'
<1>1. /\ Len(down) \in Nat /\ Len(news) \in Nat /\ Len(down') = Len(down) + Len(news)
      /\ \A i \in 1..Len(down') :
           down'[i] = IF i <= Len(down) THEN down[i] ELSE news[i - Len(down)]
  BY ConcatProperties, LenProperties DEF BoardInv, WireTypes
<1>2. \A v : Follows(v, None) /\ Follows(None, v)
  BY DEF Follows
<1>3. ASSUME NEW i \in 1..Len(down')
      PROVE  (i \in 1..Len(down) /\ down'[i] = down[i]) \/ down'[i].view = None
  <2>1. CASE i <= Len(down)
    BY <1>1, <2>1
  <2>2. CASE i > Len(down)
    <3>1. i - Len(down) \in 1..Len(news) /\ down'[i] = news[i - Len(down)]
      BY <1>1, <2>2
    <3>. QED  BY <3>1
  <2>. QED  BY <1>1, <2>1, <2>2
<1>4. ASSUME NEW i \in 1..Len(down')
      PROVE  /\ Follows(stateView', down'[i].view)
             /\ Follows(down'[i].view, answer'.view)
             /\ \A j \in i..Len(down') : Follows(down'[i].view, down'[j].view)
  <2>1. CASE down'[i].view = None
    BY <1>2, <2>1
  <2>2. CASE i \in 1..Len(down) /\ down'[i] = down[i]
    <3>1. ASSUME NEW j \in i..Len(down') PROVE Follows(down[i].view, down'[j].view)
      <4>1. j \in 1..Len(down') /\ j >= i
        BY <1>1, <2>2
      <4>2. CASE down'[j].view = None
        BY <1>2, <4>2
      <4>3. CASE j \in 1..Len(down) /\ down'[j] = down[j]
        <5>1. j \in i..Len(down)
          BY <1>1, <4>1, <4>3
        <5>. QED  BY <2>2, <4>3, <5>1 DEF InOrder
      <4>. QED  BY <1>3, <4>1, <4>2, <4>3
    <3>. QED  BY <2>2, <3>1 DEF InOrder
  <2>. QED  BY <1>3, <2>1, <2>2
<1>. QED  BY <1>4 DEF InOrder

(* The first message is taken: if it has a view, it is shown. *)
LEMMA FirstIsTaken ==
  ASSUME BoardInv, InOrder, down # <<>>, down' = Tail(down),
         UNCHANGED <<push, answer>>, seen' = stateView',
         stateView' \in {stateView, Head(down).view}
  PROVE  InOrder'
<1>1. /\ Len(down) \in Nat /\ Len(down) > 0 /\ Len(down') = Len(down) - 1
      /\ Head(down) = down[1]
      /\ \A i \in 1..Len(down') : down'[i] = down[i + 1]
  BY HeadTailProperties, LenProperties, EmptySeq DEF BoardInv, WireTypes
<1>2. Follows(stateView', answer'.view)
  BY <1>1 DEF InOrder
<1>3. ASSUME NEW i \in 1..Len(down')
      PROVE  /\ Follows(stateView', down'[i].view)
             /\ Follows(down'[i].view, answer'.view)
             /\ \A j \in i..Len(down') : Follows(down'[i].view, down'[j].view)
  <2>1. /\ i + 1 \in 1..Len(down) /\ down'[i] = down[i + 1]
        /\ 1 \in 1..Len(down) /\ i + 1 \in 1..Len(down)
    BY <1>1
  <2>2. Follows(down[1].view, down[i + 1].view) /\ Follows(stateView, down[i + 1].view)
        /\ Follows(down[i + 1].view, answer.view)
    BY <2>1 DEF InOrder
  <2>3. ASSUME NEW j \in i..Len(down') PROVE Follows(down'[i].view, down'[j].view)
    <3>1. j \in 1..Len(down') /\ j + 1 \in (i + 1)..Len(down)
      BY <1>1
    <3>. QED  BY <1>1, <2>1, <3>1 DEF InOrder
  <2>. QED  BY <1>1, <2>1, <2>2, <2>3
<1>. QED  BY <1>2, <1>3 DEF InOrder

(* What is shown or on its way is no newer than what is read now. *)
LEMMA ReadFollows ==
  ASSUME BoardInv, InOrder, OldViews, answer'.view \in {None, View, answer.view},
         UNCHANGED <<down, push, stateView, seen>>
  PROVE  InOrder'
<1>1. \A i \in 1..Len(down) : down[i] \in Range(down)
  BY LenProperties DEF Range, BoardInv, WireTypes
<1>2. \A v : Follows(v, None)
  BY DEF Follows
<1>3. \A i \in 1..Len(down) : Follows(down[i].view, View)
  BY <1>1 DEF OldViews, Follows
<1>4. Follows(stateView, View)
  BY DEF OldViews, Follows
<1>. QED  BY <1>2, <1>3, <1>4 DEF InOrder

(* So no step of the player's own breaks the order. *)
LEMMA OrderNext == BoardInv /\ BoardInv' /\ OldViews /\ OrderInv /\ [Next]_vars => OrderInv'
<1> SUFFICES ASSUME BoardInv, BoardInv', OldViews, OrderInv, [Next]_vars PROVE OrderInv'
  OBVIOUS
<1> pushes \in Nat
  BY DEF OrderInv
<1>1. CASE EndRound
  <2>1. UNCHANGED <<pushes, answer, push, stateView, seen>>
    BY <1>1 DEF EndRound, server, browser
  <2> SUFFICES ASSUME pushes = 0, InOrder PROVE InOrder'
    BY <2>1 DEF OrderInv
  <2>2. PICK news \in Seq(Messages) :
          down' = down \o news /\ \A i \in 1..Len(news) : news[i].view = None
    <3>1. \A type : Event(type).view = None
      BY DEF Event, Message
    <3>2. /\ <<Event("RoundResolved")>> \in Seq(Messages)
          /\ <<Event("RoundResolved"), Event("GameOver")>> \in Seq(Messages)
          /\ <<Event("GameOver")>> \in Seq(Messages)
      BY MessageFacts
    <3>3. /\ \A i \in 1..Len(<<Event("RoundResolved")>>) :
               <<Event("RoundResolved")>>[i].view = None
          /\ \A i \in 1..Len(<<Event("RoundResolved"), Event("GameOver")>>) :
               <<Event("RoundResolved"), Event("GameOver")>>[i].view = None
          /\ \A i \in 1..Len(<<Event("GameOver")>>) : <<Event("GameOver")>>[i].view = None
      BY <3>1
    <3>. QED  BY <1>1, <3>2, <3>3 DEF EndRound
  <2>. QED  BY <2>1, <2>2, EventsFollow
<1>2. CASE Process \/ Read
  <2>1. UNCHANGED <<pushes, down, push, stateView, seen>>
    BY <1>2 DEF Process, Read, browser
  <2>2. answer'.view \in {None, View, answer.view}
    BY <1>2 DEF Process, Read, Due, ToSend
  <2>. QED  BY <2>1, <2>2, ReadFollows DEF OrderInv
<1>3. CASE Send
  <2>1. /\ UNCHANGED <<pushes, push, stateView, seen>>
        /\ answer.step = "sending" /\ answer' = Nothing
        /\ down' = Append(down, Message("state_update", answer.view))
    BY <1>3 DEF Send, browser
  <2>2. answer \in Ready
    BY <2>1 DEF BoardInv, WireTypes, Nothing, Due
  <2>3. Message("state_update", answer.view) \in Messages
        /\ Message("state_update", answer.view).view = answer.view
    BY <2>2, MessageFacts DEF Ready, Messages, Message
  <2>4. Nothing.view = None /\ Follows(answer.view, answer.view)
    BY DEF Nothing, Follows, AsOld
  <2> SUFFICES ASSUME pushes = 0, InOrder PROVE InOrder'
    BY <2>1 DEF OrderInv
  <2>5. /\ Follows(stateView, answer.view)
        /\ \A i \in 1..Len(down) : Follows(down[i].view, answer.view)
    BY DEF InOrder
  <2>. QED  BY <2>1, <2>3, <2>4, <2>5, LaterFollows
<1>4. CASE Push
  BY <1>4 DEF Push, OrderInv
<1>5. CASE SendPush
  BY <1>5 DEF SendPush, OrderInv, InOrder
<1>6. CASE HandleStateUpdate \/ HandleGameEvent
  <2>1. UNCHANGED <<pushes, answer, push>> /\ down # <<>> /\ down' = Tail(down)
    BY <1>6 DEF HandleStateUpdate, HandleGameEvent, server
  <2> SUFFICES ASSUME pushes = 0, InOrder PROVE InOrder'
    BY <2>1 DEF OrderInv
  <2>2. seen = stateView
    BY DEF InOrder
  <2>3. \/ UNCHANGED <<stateView, seen>>
        \/ /\ stateView' = Head(down).view /\ stateView' \in OpenViews
           /\ seen' = IF Newer(stateView', seen) THEN stateView' ELSE seen
    BY <1>6, UpdateWithin DEF HandleGameEvent, BoardInv, browser
  <2>4. CASE /\ stateView' = Head(down).view /\ stateView' \in OpenViews
             /\ seen' = IF Newer(stateView', seen) THEN stateView' ELSE seen
    <3>1. Head(down) = down[1] /\ 1 \in 1..Len(down)
      BY <2>1, HeadTailProperties, LenProperties, EmptySeq DEF BoardInv, WireTypes
    <3>2. Follows(seen, stateView') /\ stateView' # None
      BY <2>2, <2>4, <3>1, NoneIsNoView DEF InOrder, OpenViews
    <3>3. seen' = stateView'
      BY <2>4, <3>2 DEF Follows, AsOld, Newer
    <3>. QED  BY <2>1, <2>4, <3>3, FirstIsTaken
  <2>5. CASE UNCHANGED <<stateView, seen>>
    BY <2>1, <2>2, <2>5, FirstIsTaken
  <2>. QED  BY <2>3, <2>4, <2>5
<1>7. CASE \/ \E n \in Nodes : SelectFrom(n) \/ SelectTo(n)
           \/ Deselect
           \/ \E count \in Counts : SelectUnits(count)
  <2>1. ClickFrame
    BY <1>7, ClickWithin DEF BoardInv
  <2>2. UNCHANGED <<pushes, down, answer, push, stateView>> /\ seen' \in {seen, stateView}
    BY <2>1 DEF ClickFrame
  <2>. QED  BY <2>2 DEF OrderInv, InOrder
<1>8. CASE UNCHANGED vars
  <2>1. UNCHANGED <<pushes, down, answer, push, stateView, seen>>
    BY <1>8 DEF vars, server, browser
  <2>. QED  BY <2>1 DEF OrderInv, InOrder
<1>. QED  BY <1>1, <1>2, <1>3, <1>4, <1>5, <1>6, <1>7, <1>8 DEF Next

(* It holds at first. *)
LEMMA OrderInit == Init => OrderInv
BY DEF Init, OrderInv, InOrder, Nothing, Follows

(* When nothing is on its way any more, the player has been shown the room *)
(* as it is, or the end of the game, unless the last view due to him was   *)
(* refused; without pushes of the opponent's handler it is also what the   *)
(* browser shows last (SeenWhenQuiet, GameWebSocketHandler.cs:183-333,     *)
(* gameClient.js:128-207, gameUI.js:111-142): every change he does not     *)
(* know of leaves something that will tell him, however views and events   *)
(* overtake each other. *)
THEOREM PlayersAreToldEverything == Spec => []SeenWhenQuiet
<1>1. BoardInv /\ ToldInv /\ OrderInv => SeenWhenQuiet
  <2> SUFFICES ASSUME BoardInv, ToldInv, OrderInv, Quiet
               PROVE  IF phase = "GameOver" THEN gameOverShown
                      ELSE refused \/ (seen = View /\ (pushes = 0 => stateView = View))
    BY DEF SeenWhenQuiet
  <2>1. Range(<<>>) = {}
    BY DEF Range
  <2>2. up = <<>> /\ down = <<>> /\ answer = Nothing
    BY DEF Quiet
  <2>3. View # None /\ Nothing # Due /\ Nothing.view = None
    BY ViewIsOpen, NoneIsNoView DEF BoardInv, OpenViews, Nothing, Due
  <2>4. phase \in {"Planning", "GameOver"}
    BY DEF BoardInv, RoomTypes
  <2>5. pushes = 0 => seen = stateView
    BY DEF OrderInv, InOrder
  <2>. QED
    BY <2>1, <2>2, <2>3, <2>4, <2>5 DEF ToldInv, WillSee, EndWillShow
<1>2. ToldInv => OldViews
  BY DEF ToldInv
<1>. QED
  BY <1>1, <1>2, BoardInvInit, BoardInvNext, ToldInit, ToldNext, OrderInit, OrderNext,
     PTL DEF Spec
=============================================================================
