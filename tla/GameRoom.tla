------------------------------ MODULE GameRoom ------------------------------
(***************************************************************************)
(* The GameRoom aggregate (Entities/GameRoom.cs, GameRoom.Events.cs) and   *)
(* the calls the session makes on it (Sessions/GameSession.cs).  Each      *)
(* action is one call of ExecuteOnGameRoomAsync that returns normally: the *)
(* session runs it under the room's lock, so it is atomic here (RoomAccess *)
(* opens that box).  A call that throws changes nothing and is no action.  *)
(***************************************************************************)
EXTENDS Edge

CONSTANTS
  NodeIds,             \* the nodes of the map
  NodeType,            \* [NodeIds -> NodeTypes]
  EdgeMap,             \* the edges in creation order, [from, to, distance]
  StartNode,           \* [Side -> NodeIds]
  InitialUnits,        \* units AddPlayer gives a side (3 in the code)
  MaxUnitsPerPlayer,   \* units a side may move in a round (3 in the code)
  MaxRounds            \* 20 in the code

EdgeIds == DOMAIN EdgeMap

(* Real maps have distances 1 and 2; no method is meaningful below 1. *)
ASSUME MapAssumption ==
  /\ IsFiniteSet(NodeIds)
  /\ NodeType \in [NodeIds -> NodeTypes]
  /\ EdgeMap \in Seq([from : NodeIds, to : NodeIds, distance : {1, 2}])
  /\ StartNode \in [Side -> NodeIds]
(* AddPlayer puts units on a start node without looking at what is there,  *)
(* and gives no garrison. *)
ASSUME StartAssumption ==
  /\ StartNode["A"] # StartNode["B"]
  /\ \A side \in Side : NodeType[StartNode[side]] # "SupplyLine"
ASSUME BoundsAssumption ==
  /\ InitialUnits \in Nat \ {0}
  /\ MaxUnitsPerPlayer \in Nat \ {0}
  /\ MaxRounds \in Nat \ {0}

VARIABLES
  phase,               \* GamePhase: Resolution is passed within a call
  currentRound,
  players,             \* the sides that have joined, in order A, B
  nodes,               \* [NodeIds -> NodeStates]
  edges,               \* the travelling groups of every edge
  unitUsed,            \* UnitUsedThisRound
  pendingMoves,        \* _pendingMoves: a sequence of moves per side
  pendingEncounters,   \* PendingEncounters
  gameOver             \* the GameOver event raised last, or NoGameOver

vars == <<phase, currentRound, players, nodes, edges, unitUsed, pendingMoves,
          pendingEncounters, gameOver>>

NoGameOver == [winner |-> "none", reason |-> "none"]
Undecided == "undecided"
Decisions == {"Advance", "Retreat"}

-----------------------------------------------------------------------------
(* InitializeMap, CreateSessionAsync *)
Init ==
  /\ phase = "WaitingForPlayers"
  /\ currentRound = 0
  /\ players = {}
  /\ nodes = [n \in NodeIds |-> NewNode(NodeType[n])]
  /\ edges = [e \in EdgeIds |-> EmptyEdge(EdgeMap[e].distance)]
  /\ unitUsed = [s \in Side |-> 0]
  /\ pendingMoves = [s \in Side |-> <<>>]
  /\ pendingEncounters = <<>>
  /\ gameOver = NoGameOver

(* AddPlayer: no guard on the phase. *)
AddPlayer(side) ==
  /\ side = IF players = {} THEN "A" ELSE "B"
  /\ players # Side
  /\ players' = players \cup {side}
  /\ nodes' = [nodes EXCEPT ![StartNode[side]] =
                 PlaceStartingUnits(@, side, InitialUnits)]
  /\ IF players' = Side
     THEN phase' = "Planning" /\ currentRound' = 1
     ELSE UNCHANGED <<phase, currentRound>>
  /\ UNCHANGED <<edges, unitUsed, pendingMoves, pendingEncounters, gameOver>>

-----------------------------------------------------------------------------
(* EdgeId is the same in both directions. *)
IsEdge(e, from, to) == {EdgeMap[e].from, EdgeMap[e].to} = {from, to}
Opposite(e, n) == IF n = EdgeMap[e].from THEN EdgeMap[e].to ELSE EdgeMap[e].from

(* Fault: every move is checked on its own. *)
NothingCommitted(side, from) == 0

AlreadyCommitted(side, from) ==
  FoldLeft(LAMBDA sum, m : IF m.from = from THEN sum + m.count ELSE sum,
           0, pendingMoves[side])

(* HandleMoveUnitsAsync and MoveUnits: the request is cut to the units the *)
(* side may still move in this round, and then has to be available whole.  *)
MoveUnits(side, e, from, to, requested) ==
  LET remaining == MaxUnitsPerPlayer - unitUsed[side]
      actual == IF requested < remaining THEN requested ELSE remaining
  IN  /\ phase = "Planning"
      /\ IsEdge(e, from, to)
      /\ actual > 0
      /\ nodes[from].mobile[side] - AlreadyCommitted(side, from) >= actual
      /\ pendingMoves' = [pendingMoves EXCEPT ![side] =
           Append(@, [edge |-> e, from |-> from, to |-> to, count |-> actual])]
      /\ unitUsed' = [unitUsed EXCEPT ![side] = @ + actual]
      /\ UNCHANGED <<phase, currentRound, players, nodes, edges,
                     pendingEncounters, gameOver>>

-----------------------------------------------------------------------------
(* PendingEncounter *)
PendingEncounter(e, encounter) ==
  [edge |-> e, groups |-> encounter.groups, remaining |-> encounter.remaining,
   decision |-> [s \in Side |-> Undecided]]
HasDecided(pending, side) == pending.decision[side] # Undecided
BothDecided(pending) == \A side \in Side : HasDecided(pending, side)

(* ResolveEncounter takes the first encounter on the edge, and throws when *)
(* that one is decided. *)
FirstOn(pending, e) == SelectInSeq(pending, LAMBDA p : p.edge = e)
MayDecide(pending, e, side) ==
  FirstOn(pending, e) # 0 /\ ~ HasDecided(pending[FirstOn(pending, e)], side)

(* What the decision does to b, the edges and the pending encounters: a    *)
(* retreating group turns round and starts again from the other end.       *)
Decide(b, e, side, decision) ==
  LET i == FirstOn(b.pending, e)
      decided == [b.pending[i] EXCEPT !.decision[side] = decision]
      group == decided.groups[side]
  IN  [edges |->
         IF decision = "Retreat"
         THEN [b.edges EXCEPT ![e] =
                 StartTravel(RemoveTravelingGroup(@, side), EdgeMap[e].distance,
                             side, group.count, Opposite(e, group.destination))]
         ELSE b.edges,
       pending |->
         IF BothDecided(decided) THEN RemoveAt(b.pending, i)
         ELSE [b.pending EXCEPT ![i] = decided]]

Board == [edges |-> edges, pending |-> pendingEncounters]

(* HandleEncounterDecisionAsync *)
ResolveEncounter(side, e, decision) ==
  LET after == Decide(Board, e, side, decision)
  IN  /\ phase = "Planning"
      /\ MayDecide(pendingEncounters, e, side)
      /\ edges' = after.edges
      /\ pendingEncounters' = after.pending
      /\ UNCHANGED <<phase, currentRound, players, nodes, unitUsed,
                     pendingMoves, gameOver>>

(* The timeout decides every open encounter by Retreat, first those of A.  *)
RetreatUndecided(b, side) ==
  FoldLeft(LAMBDA c, p : Decide(c, p.edge, side, "Retreat"), b,
           Filtered(b.pending, LAMBDA p : ~ HasDecided(p, side)))

(* Fault: the timeout leaves the open encounters open. *)
LeaveUndecided(b) == b

AutoRetreat(b) == RetreatUndecided(RetreatUndecided(b, "A"), "B")

-----------------------------------------------------------------------------
(* ResolveRound, stage 1: the moves of A leave, then those of B. *)
Depart(w, side) ==
  FoldLeft(LAMBDA v, m :
             [nodes |-> [v.nodes EXCEPT ![m.from] =
                           DepartMobileUnits(@, side, m.count)],
              edges |-> [v.edges EXCEPT ![m.edge] =
                           StartTravel(@, EdgeMap[m.edge].distance,
                                       side, m.count, m.to)]],
           w, pendingMoves[side])

(* Stage 2: the groups at the end of an edge, in the order of the edges.   *)
Arrivals(E) ==
  FlattenSeq([e \in EdgeIds |->
    [i \in DOMAIN Arrived(E[e]) |-> [group |-> Arrived(E[e])[i], via |-> e]]])

(* Stage 3: the encounters between the groups that stay on an edge. *)
Encounters(E) ==
  FlattenSeq([e \in EdgeIds |->
    LET found == FindAllEncounters(E[e])
    IN  [i \in DOMAIN found |-> PendingEncounter(e, found[i])]])

(* Stage 4: GetBlockedUnits lists groups by their content, and an arriving *)
(* group with the content of a blocked one is left out of the arrivals.    *)
Blocked(encounters) ==
  UNION {{[group |-> p.groups[s], via |-> p.edge] : s \in Side} :
           p \in ToSet(encounters)}

Arrive(N, arrivals) ==
  FoldLeft(LAMBDA v, a :
             [v EXCEPT ![a.group.destination] =
                ArriveMobileUnits(@, a.group.side, a.group.count)],
           N, arrivals)

(* CheckGameOver, GetWinner *)
OwnedBy(N, side) == {n \in NodeIds : N[n].ownership = side}
AllNodesCaptured(N) ==
  \E side \in Side :
    \A n \in NodeIds : NodeType[n] # "Headquarters" => N[n].ownership = side
Winner(N) ==
  LET a == Cardinality(OwnedBy(N, "A"))
      b == Cardinality(OwnedBy(N, "B"))
  IN  IF a > b THEN "A" ELSE IF b > a THEN "B" ELSE "draw"

(* Fault: one round too many. *)
OneRoundMore == currentRound > MaxRounds
RoundsAreOver == currentRound + 1 > MaxRounds

(* ResolveRound from the edges E and the pending encounters left over. *)
ResolveRound(E, leftover) ==
  LET left == Depart(Depart([nodes |-> nodes, edges |-> E], "A"), "B")
      moved == [e \in EdgeIds |-> AdvanceRound(left.edges[e])]
      met == Encounters(moved)
      blocked == Blocked(met)
      arriving == Filtered(Arrivals(left.edges), LAMBDA a : a \notin blocked)
      board == Arrive(left.nodes, arriving)
      ended == AllNodesCaptured(board) \/ RoundsAreOver
  IN  /\ nodes' = board
      /\ edges' = moved
      /\ pendingEncounters' = leftover \o met
      /\ pendingMoves' = [s \in Side |-> <<>>]
      /\ unitUsed' = [s \in Side |-> 0]
      /\ currentRound' = currentRound + 1
      /\ phase' = IF ended THEN "GameOver" ELSE "Planning"
      /\ gameOver' =
           IF ended
           THEN [winner |-> Winner(board),
                 reason |-> IF RoundsAreOver
                            THEN "MaxRoundsReached" ELSE "AllNodesCaptured"]
           ELSE gameOver
      /\ UNCHANGED players

(* IsMoveCommandCompleted: the side has no move left, or no unit on a node. *)
(* The flag MoveCommandCompleted of the session says the former again when *)
(* one server serves the room. *)
MoveCommandCompleted(side) ==
  \/ unitUsed[side] >= MaxUnitsPerPlayer
  \/ \A n \in NodeIds : nodes[n].mobile[side] = 0

(* CheckAndResolveIfReadyAsync, when both sides are ready. *)
CheckAndResolveIfReady ==
  /\ phase = "Planning"
  /\ \A i \in DOMAIN pendingEncounters : BothDecided(pendingEncounters[i])
  /\ \A side \in Side : MoveCommandCompleted(side)
  /\ ResolveRound(edges, pendingEncounters)

(* OnPlanningTimeoutAsync and OnBackupPlanningTimeoutAsync. *)
PlanningTimeout ==
  LET b == AutoRetreat(Board)
  IN  /\ phase = "Planning"
      /\ ResolveRound(b.edges, b.pending)

(* Fault: no look at the phase. *)
ForceGameOverAnyway(winner) ==
  /\ phase' = "GameOver"
  /\ gameOver' = [winner |-> winner, reason |-> "PlayerDisconnected"]
  /\ UNCHANGED <<currentRound, players, nodes, edges, unitUsed, pendingMoves,
                 pendingEncounters>>

(* ForceGameOverAsync when a player stays disconnected: any side may be    *)
(* the one still connected.  No guard but the phase. *)
ForceGameOver(winner) ==
  /\ phase # "GameOver"
  /\ phase' = "GameOver"
  /\ gameOver' = [winner |-> winner, reason |-> "PlayerDisconnected"]
  /\ UNCHANGED <<currentRound, players, nodes, edges, unitUsed, pendingMoves,
                 pendingEncounters>>

Next ==
  \/ \E side \in Side : AddPlayer(side)
  \/ \E side \in Side, e \in EdgeIds, from, to \in NodeIds,
        requested \in 1..MaxUnitsPerPlayer : MoveUnits(side, e, from, to, requested)
  \/ \E side \in Side, e \in EdgeIds, decision \in Decisions :
       ResolveEncounter(side, e, decision)
  \/ CheckAndResolveIfReady
  \/ PlanningTimeout
  \/ \E winner \in Side : ForceGameOver(winner)

Spec == Init /\ [][Next]_vars

-----------------------------------------------------------------------------
(* The units of a side on the nodes and on the edges, garrisons excluded.  *)
UnitsOnNodes(side) == SumFunction([n \in NodeIds |-> nodes[n].mobile[side]])
UnitsIn(groups, side) ==
  SumFunction([i \in DOMAIN groups |-> IF groups[i].side = side THEN groups[i].count ELSE 0])
UnitsOnEdge(t, side) == SumFunction([k \in DOMAIN t |-> UnitsIn(t[k], side)])
UnitsOnEdges(side) == SumFunction([e \in EdgeIds |-> UnitsOnEdge(edges[e], side)])
UnitsOf(side) == UnitsOnNodes(side) + UnitsOnEdges(side)

Groups ==
  [side : Side, count : 1..MaxUnitsPerPlayer, destination : NodeIds]
Moves ==
  [edge : EdgeIds, from : NodeIds, to : NodeIds, count : 1..MaxUnitsPerPlayer]

(* The types of the variables. *)
TypeOK ==
  /\ phase \in {"WaitingForPlayers", "Planning", "GameOver"}
  /\ currentRound \in 0..MaxRounds + 1
  /\ players \in SUBSET Side
  /\ nodes \in [NodeIds -> NodeStates]
  /\ \A e \in EdgeIds :
       /\ DOMAIN edges[e] = 1..EdgeMap[e].distance
       /\ \A k \in DOMAIN edges[e] : edges[e][k] \in Seq(Groups)
  /\ unitUsed \in [Side -> 0..MaxUnitsPerPlayer]
  /\ \A s \in Side : pendingMoves[s] \in Seq(Moves)
  /\ \A i \in DOMAIN pendingEncounters :
       pendingEncounters[i] \in
         [edge : EdgeIds, groups : [Side -> Groups], remaining : {1},
          decision : [Side -> Decisions \cup {Undecided}]]
  /\ gameOver = NoGameOver \/ gameOver \in
       [winner : Side \cup {"draw"},
        reason : {"MaxRoundsReached", "AllNodesCaptured", "PlayerDisconnected"}]

(* The units that the moves take from a node. *)
Reserved(moves, from) ==
  SumFunctionOnSet([i \in DOMAIN moves |-> moves[i].count],
                   {i \in DOMAIN moves : moves[i].from = from})

(* No double spending: the moves a side has reserved from a node never     *)
(* exceed the units it has there, whatever the order of its commands, so   *)
(* every reserved move departs whole (ResolveRound puts move.Count on the  *)
(* edge whatever DepartMobileUnits returned). *)
NoDoubleSpending ==
  \A side \in Side, n \in NodeIds : Reserved(pendingMoves[side], n) <= nodes[n].mobile[side]

(* Departures, retreats and arrivals never give a side more units than it  *)
(* was given when it joined. *)
NoUnitFromNothing ==
  \A side \in Side :
    UnitsOf(side) <= IF side \in players THEN InitialUnits ELSE 0

(* An encounter a side has still to decide, or has decided by advancing,   *)
(* is about a group that still stands on that edge where the encounter     *)
(* found it: neither a decision of the enemy nor a round that ends in      *)
(* between leaves a decision about a group that is gone.  And an edge has  *)
(* one pending encounter at most, so FirstOrDefault finds the right one.   *)
EncountersAreCurrent ==
  /\ \A i, j \in DOMAIN pendingEncounters :
       pendingEncounters[i].edge = pendingEncounters[j].edge => i = j
  /\ \A i \in DOMAIN pendingEncounters, side \in Side :
       LET p == pendingEncounters[i]
       IN  p.decision[side] # "Retreat" =>
             Contains(edges[p.edge][p.remaining], p.groups[side])

(* What Node.cs promises of one node holds of every node of the board      *)
(* after a whole round: owners outnumber the enemy, garrisons stand for    *)
(* the owners of supply lines. *)
NodesAreConsistent ==
  \A n \in NodeIds, s \in Side :
    /\ nodes[n].ownership = s =>
         GetTotalCount(nodes[n], s) > GetTotalCount(nodes[n], Enemy(s))
    /\ nodes[n].garrison[s] = 1 <=>
         nodes[n].type = "SupplyLine" /\ nodes[n].ownership = s

(* Planning happens in rounds 1 to MaxRounds only, and the last round ends *)
(* the game. *)
RoundsWithinLimit ==
  /\ phase = "Planning" => currentRound \in 1..MaxRounds
  /\ gameOver.reason = "MaxRoundsReached" => currentRound = MaxRounds + 1

(* Owning a node takes a unit there, or the garrison of a supply line: a   *)
(* game cannot end by conquest on a map with more nodes than a side has    *)
(* units and supply lines (the map of InitializeMap is one: five nodes     *)
(* against three units and one supply line). *)
ConquestNeedsUnits ==
  gameOver.reason = "AllNodesCaptured" =>
    Cardinality({n \in NodeIds : NodeType[n] # "Headquarters"}) <=
      InitialUnits + Cardinality({n \in NodeIds : NodeType[n] = "SupplyLine"})

(* A game that had begun and is over stays as it is. *)
StartedGameEndsForGood ==
  [][phase = "GameOver" /\ players = Side => UNCHANGED vars]_vars

-----------------------------------------------------------------------------
(* GameRoom.Events.cs, stage 4: the units without an encounter arrive.  So *)
(* a round that decides no encounter keeps all the units. *)
RoundKeepsUnits ==
  [][pendingEncounters = <<>> /\ currentRound' > currentRound /\ phase = "Planning" =>
       \A side \in Side : UnitsOf(side)' = UnitsOf(side)]_vars
=============================================================================
