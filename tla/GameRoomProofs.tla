--------------------------- MODULE GameRoomProofs ---------------------------
(***************************************************************************)
(* What can be said of a room for every map, every allowance and every     *)
(* number of rounds: the phases and the rounds; the board after any number *)
(* of departures, encounters, retreats and arrivals.  The loops of         *)
(* ResolveRound are folds; of each there is a lemma that follows it step   *)
(* by step, or proves by induction what it leaves alone.                   *)
(***************************************************************************)
EXTENDS GameRoom, OperatorLemmas

Phases == {"WaitingForPlayers", "Planning", "GameOver"}

(* The control part of the room's type. *)
ControlType ==
  /\ phase \in Phases
  /\ currentRound \in 0..MaxRounds + 1
  /\ players \in SUBSET Side
  /\ unitUsed \in [Side -> 0..MaxUnitsPerPlayer]

(* A game is planned only between two players and within the rounds; the   *)
(* rounds start when both have joined.  The reason MaxRoundsReached is     *)
(* therefore that of a started game, which no later call can change.       *)
ControlInv ==
  /\ ControlType
  /\ phase = "Planning" => players = Side /\ currentRound \in 1..MaxRounds
  /\ players # Side => currentRound = 0 /\ gameOver.reason # "MaxRoundsReached"
  /\ gameOver.reason = "MaxRoundsReached" =>
       phase = "GameOver" /\ currentRound = MaxRounds + 1

(* It holds at first. *)
LEMMA ControlInit == Init => ControlInv
BY BoundsAssumption
DEF Init, ControlInv, ControlType, Phases, NoGameOver, Side

(* A player joins; the second one starts the game. *)
LEMMA ControlAddPlayer ==
  ASSUME ControlInv, NEW side \in Side, AddPlayer(side)
  PROVE  ControlInv'
<1>1. /\ players' \in SUBSET Side /\ players # Side /\ currentRound = 0
      /\ unitUsed' = unitUsed /\ gameOver' = gameOver
      /\ gameOver.reason # "MaxRoundsReached"
  BY DEF AddPlayer, ControlInv, ControlType
<1>2. CASE players' = Side
  BY <1>1, <1>2, BoundsAssumption DEF AddPlayer, ControlInv, ControlType, Phases
<1>3. CASE players' # Side
  BY <1>1, <1>3 DEF AddPlayer, ControlInv, ControlType, Phases
<1>4. QED
  BY <1>2, <1>3

(* The request is cut to what is left of the allowance. *)
LEMMA ControlMoveUnits ==
  ASSUME ControlInv, NEW side \in Side, NEW e \in EdgeIds, NEW from \in NodeIds,
         NEW to \in NodeIds, NEW requested \in 1..MaxUnitsPerPlayer,
         MoveUnits(side, e, from, to, requested)
  PROVE  ControlInv'
<1> DEFINE remaining == MaxUnitsPerPlayer - unitUsed[side]
           actual == IF requested < remaining THEN requested ELSE remaining
<1>1. unitUsed[side] \in 0..MaxUnitsPerPlayer
  BY DEF ControlInv, ControlType
<1>2. actual > 0 /\ unitUsed' = [unitUsed EXCEPT ![side] = @ + actual]
  BY DEF MoveUnits
<1>3. unitUsed[side] + actual \in 0..MaxUnitsPerPlayer
  BY <1>1, <1>2, BoundsAssumption
<1>4. unitUsed' \in [Side -> 0..MaxUnitsPerPlayer]
  BY <1>2, <1>3 DEF ControlInv, ControlType
<1>5. UNCHANGED <<phase, currentRound, players, gameOver>>
  BY DEF MoveUnits
<1>6. QED
  BY <1>4, <1>5 DEF ControlInv, ControlType

(* A decision about an encounter; the last one ends the round. *)
LEMMA ControlResolveEncounter ==
  ASSUME ControlInv, NEW side \in Side, NEW e \in EdgeIds, NEW decision \in Decisions,
         ResolveEncounter(side, e, decision)
  PROVE  ControlInv'
<1>1. UNCHANGED <<phase, currentRound, players, unitUsed, gameOver>>
  BY DEF ResolveEncounter
<1>2. QED
  BY <1>1 DEF ControlInv, ControlType

(* A round that is resolved either ends the game or leaves one more. *)
LEMMA ControlResolveRound ==
  ASSUME ControlInv, phase = "Planning", NEW E, NEW leftover, ResolveRound(E, leftover)
  PROVE  ControlInv'
<1>1. /\ currentRound' = currentRound + 1 /\ players' = players
      /\ unitUsed' = [s \in Side |-> 0]
      /\ phase' \in {"GameOver", "Planning"}
      /\ phase' = "Planning" => ~ (currentRound + 1 > MaxRounds) /\ gameOver' = gameOver
      /\ phase' = "GameOver" =>
           gameOver'.reason = IF currentRound + 1 > MaxRounds
                              THEN "MaxRoundsReached" ELSE "AllNodesCaptured"
  BY DEF ResolveRound, RoundsAreOver
<1>2. players = Side /\ currentRound \in 1..MaxRounds /\ gameOver.reason # "MaxRoundsReached"
  BY DEF ControlInv
<1>3. ControlType'
  BY <1>1, <1>2, BoundsAssumption DEF ControlInv, ControlType, Phases
<1>4. CASE phase' = "Planning"
  BY <1>1, <1>2, <1>3, <1>4, BoundsAssumption DEF ControlInv
<1>5. CASE phase' = "GameOver"
  BY <1>1, <1>2, <1>3, <1>5, BoundsAssumption DEF ControlInv
<1>6. QED
  BY <1>1, <1>4, <1>5

(* A player gives the game up. *)
LEMMA ControlForceGameOver ==
  ASSUME ControlInv, NEW winner \in Side, ForceGameOver(winner)
  PROVE  ControlInv'
<1>1. /\ phase' = "GameOver" /\ gameOver'.reason = "PlayerDisconnected"
      /\ UNCHANGED <<currentRound, players, unitUsed>>
  BY DEF ForceGameOver
<1>2. QED
  BY <1>1 DEF ControlInv, ControlType, Phases

(* So every step preserves it. *)
LEMMA ControlNext == ControlInv /\ [Next]_vars => ControlInv'
<1> SUFFICES ASSUME ControlInv, [Next]_vars PROVE ControlInv'
  OBVIOUS
<1>1. CASE \E side \in Side : AddPlayer(side)
  BY <1>1, ControlAddPlayer
<1>2. CASE \E side \in Side, e \in EdgeIds, from, to \in NodeIds,
              requested \in 1..MaxUnitsPerPlayer : MoveUnits(side, e, from, to, requested)
  BY <1>2, ControlMoveUnits
<1>3. CASE \E side \in Side, e \in EdgeIds, decision \in Decisions :
              ResolveEncounter(side, e, decision)
  BY <1>3, ControlResolveEncounter
<1>4. CASE CheckAndResolveIfReady
  BY <1>4, ControlResolveRound DEF CheckAndResolveIfReady
<1>5. CASE PlanningTimeout
  BY <1>5, ControlResolveRound DEF PlanningTimeout
<1>6. CASE \E winner \in Side : ForceGameOver(winner)
  BY <1>6, ControlForceGameOver
<1>7. CASE UNCHANGED vars
  BY <1>7 DEF vars, ControlInv, ControlType
<1>8. QED
  BY <1>1, <1>2, <1>3, <1>4, <1>5, <1>6, <1>7 DEF Next

(* The control part of the room keeps its type: in particular no side ever *)
(* uses more than its allowance. *)
THEOREM RoomControlCorrect == Spec => []ControlInv
<1>1. QED
  BY ControlInit, ControlNext, PTL DEF Spec

(* Planning happens in rounds 1 to MaxRounds, and a game over for its      *)
(* rounds has played them all. *)
THEOREM RoundsAreLimited == Spec => []RoundsWithinLimit
<1>1. ControlInv => RoundsWithinLimit
  BY DEF ControlInv, RoundsWithinLimit
<1>2. QED
  BY <1>1, RoomControlCorrect, PTL

(* A game that two players began ends for good: every call but AddPlayer   *)
(* is guarded by the phase, and AddPlayer by the full room. *)
THEOREM StartedGameIsOver == Spec => StartedGameEndsForGood
<1>1. [Next]_vars => [phase = "GameOver" /\ players = Side => UNCHANGED vars]_vars
  BY ZenonT(60) DEF Next, AddPlayer, MoveUnits, ResolveEncounter, CheckAndResolveIfReady,
         PlanningTimeout, ForceGameOver
<1>2. QED
  BY <1>1, PTL DEF Spec, StartedGameEndsForGood

-----------------------------------------------------------------------------
(* The board: nodes that satisfy the invariant of a node, and groups of     *)
(* units on the edges. *)
Boards ==
  {N \in [NodeIds -> NodeStates] :
     \A n \in NodeIds : NodeInv(N[n]) /\ N[n].type = NodeType[n]}

Traffic ==
  {E \in [EdgeIds -> [{1} -> Seq(Groups)] \cup [{1, 2} -> Seq(Groups)]] :
     \A e \in EdgeIds : DOMAIN E[e] = 1..EdgeMap[e].distance}

Pendings ==
  [edge : EdgeIds, groups : [Side -> Groups], remaining : {1},
   decision : [Side -> Decisions \cup {Undecided}]]

(* The edges are numbered, and lead from node to node in one or two steps. *)
LEMMA EdgeFacts ==
  /\ \E m \in Nat : EdgeIds = 1..m
  /\ \A e \in EdgeIds : /\ EdgeMap[e].from \in NodeIds /\ EdgeMap[e].to \in NodeIds
                        /\ EdgeMap[e].distance \in {1, 2}
<1> DEFINE R == [from : NodeIds, to : NodeIds, distance : {1, 2}]
<1>1. EdgeMap \in Seq(R)
  BY MapAssumption
<1> HIDE DEF R
<1>2. Len(EdgeMap) \in Nat /\ EdgeIds = 1..Len(EdgeMap) /\ EdgeMap \in [1..Len(EdgeMap) -> R]
  BY <1>1, LenProperties DEF EdgeIds
<1>3. \A e \in EdgeIds : EdgeMap[e] \in R
  BY <1>2
<1>. QED  BY <1>2, <1>3 DEF R

(* One edge at a time. *)
LEMMA TrafficFacts ==
  ASSUME NEW E
  PROVE  /\ E \in Traffic <=>
              /\ E = [e \in EdgeIds |-> E[e]]
              /\ \A e \in EdgeIds : E[e] \in [1..EdgeMap[e].distance -> Seq(Groups)]
<1> DEFINE One == [{1} -> Seq(Groups)]
           Two == [{1, 2} -> Seq(Groups)]
<1>1. ASSUME NEW e \in EdgeIds, NEW t
      PROVE  t \in One \cup Two /\ DOMAIN t = 1..EdgeMap[e].distance
               <=> t \in [1..EdgeMap[e].distance -> Seq(Groups)]
  <2>1. 1..1 = {1} /\ 1..2 = {1, 2} /\ {1} # {1, 2}
    OBVIOUS
  <2>2. CASE EdgeMap[e].distance = 1
    BY <2>1, <2>2
  <2>3. CASE EdgeMap[e].distance = 2
    BY <2>1, <2>3
  <2>. QED  BY <2>2, <2>3, EdgeFacts
<1>2. ASSUME E \in Traffic
      PROVE  /\ E = [e \in EdgeIds |-> E[e]]
             /\ \A e \in EdgeIds : E[e] \in [1..EdgeMap[e].distance -> Seq(Groups)]
  <2>1. E \in [EdgeIds -> One \cup Two] /\ \A e \in EdgeIds : DOMAIN E[e] = 1..EdgeMap[e].distance
    BY <1>2 DEF Traffic
  <2> HIDE DEF One, Two
  <2>. QED  BY <1>1, <2>1
<1>3. ASSUME E = [e \in EdgeIds |-> E[e]],
             \A e \in EdgeIds : E[e] \in [1..EdgeMap[e].distance -> Seq(Groups)]
      PROVE  E \in Traffic
  <2>1. E \in [EdgeIds -> One \cup Two] /\ \A e \in EdgeIds : DOMAIN E[e] = 1..EdgeMap[e].distance
    <3> HIDE DEF One, Two
    <3>. QED  BY <1>1, <1>3
  <2>. QED  BY <2>1 DEF Traffic
<1>. QED  BY <1>2, <1>3

(* A group that sets out. *)
LEMMA StartTravelTyped ==
  ASSUME NEW E \in Traffic, NEW e \in EdgeIds, NEW side \in Side,
         NEW count \in 1..MaxUnitsPerPlayer, NEW destination \in NodeIds
  PROVE  [E EXCEPT ![e] = StartTravel(@, EdgeMap[e].distance, side, count, destination)]
           \in Traffic
<1> DEFINE g == Group(side, count, destination)
           d == EdgeMap[e].distance
           t == StartTravel(E[e], d, side, count, destination)
<1>1. g \in Groups
  BY DEF Group, Groups
<1>2. E = [x \in EdgeIds |-> E[x]] /\ \A x \in EdgeIds : E[x] \in [1..EdgeMap[x].distance -> Seq(Groups)]
  BY TrafficFacts
<1>3. d \in 1..d
  BY EdgeFacts
<1>4. t \in [1..d -> Seq(Groups)]
  <2>1. E[e] \in [1..d -> Seq(Groups)] /\ E[e][d] \in Seq(Groups)
    BY <1>2, <1>3
  <2>2. Append(E[e][d], g) \in Seq(Groups)
    BY <1>1, <2>1, AppendProperties
  <2>3. t = [E[e] EXCEPT ![d] = Append(E[e][d], g)]
    BY DEF StartTravel
  <2> HIDE DEF d, t, g
  <2>. QED  BY <2>1, <2>2, <2>3
<1> DEFINE F == [E EXCEPT ![e] = t]
<1>5. F = [x \in EdgeIds |-> F[x]] /\ F[e] = t /\ \A x \in EdgeIds : x # e => F[x] = E[x]
  <2> HIDE DEF t
  <2>. QED  BY <1>2
<1>6. \A x \in EdgeIds : F[x] \in [1..EdgeMap[x].distance -> Seq(Groups)]
  <2> HIDE DEF F, t
  <2>. QED  BY <1>2, <1>4, <1>5
<1>7. F \in Traffic
  <2> HIDE DEF F
  <2>. QED  BY <1>5, <1>6, TrafficFacts
<1>. QED  BY <1>7

(* Stage 1 for one side.  (Op is the body of the fold, Body that of the     *)
(* function in its definition.) *)
Worlds == {[nodes |-> N, edges |-> E] : N \in Boards, E \in Traffic}

DepartOne(v, side, m) ==
  [nodes |-> [v.nodes EXCEPT ![m.from] = DepartMobileUnits(@, side, m.count)],
   edges |-> [v.edges EXCEPT ![m.edge] =
                StartTravel(@, EdgeMap[m.edge].distance, side, m.count, m.to)]]

(* One move leaves a world of nodes and edges. *)
LEMMA DepartOneTyped ==
  ASSUME NEW v \in Worlds, NEW side \in Side, NEW m \in Moves
  PROVE  DepartOne(v, side, m) \in Worlds
<1>1. v.nodes \in Boards /\ v.edges \in Traffic
  BY DEF Worlds
<1>2. /\ m.from \in NodeIds /\ m.to \in NodeIds /\ m.edge \in EdgeIds
      /\ m.count \in 1..MaxUnitsPerPlayer /\ m.count \in Nat
  BY BoundsAssumption DEF Moves
<1> DEFINE old == v.nodes[m.from]
           after == DepartMobileUnits(old, side, m.count)
           N == [v.nodes EXCEPT ![m.from] = after]
           E == [v.edges EXCEPT ![m.edge] =
                   StartTravel(@, EdgeMap[m.edge].distance, side, m.count, m.to)]
<1>3. NodeInv(old) /\ old.type = NodeType[m.from]
  BY <1>1, <1>2 DEF Boards
<1>4. NodeInv(after) /\ after.type = NodeType[m.from] /\ after \in NodeStates
  <2> HIDE DEF old
  <2>1. NodeInv(after) /\ after.type = NodeType[m.from]
    BY ZenonT(60), <1>2, <1>3, DepartEstablishes
  <2>. QED  BY <2>1 DEF NodeInv
<1>5. N \in Boards
  <2> HIDE DEF after
  <2>. QED  BY <1>1, <1>2, <1>4 DEF Boards
<1>6. E \in Traffic
  BY <1>1, <1>2, StartTravelTyped
<1>7. DepartOne(v, side, m) = [nodes |-> N, edges |-> E]
  BY DEF DepartOne
<1>. QED  BY <1>5, <1>6, <1>7 DEF Worlds

(* The fold of Depart, one move after another. *)
LEMMA DepartRun ==
  ASSUME NEW w \in Worlds, NEW side \in Side, pendingMoves[side] \in Seq(Moves)
  PROVE  \E run \in [0..Len(pendingMoves[side]) -> Worlds] :
           /\ run[0] = w
           /\ \A i \in 1..Len(pendingMoves[side]) :
                run[i] = DepartOne(run[i - 1], side, pendingMoves[side][i])
           /\ Depart(w, side) = run[Len(pendingMoves[side])]
<1> DEFINE s == pendingMoves[side]
           Op(v, m) == DepartOne(v, side, m)
           Body(f) == [K \in SUBSET (DOMAIN s) |->
                         IF K = {} THEN w ELSE Op(f[K \ {Max(K)}], s[Max(K)])]
           h == CHOOSE f : f = Body(f)
<1>0. PICK n \in Nat : n = Len(s)
  BY LenProperties
<1>1. DOMAIN s = 1..n /\ \A i \in 1..n : s[i] \in Moves
  BY <1>0, LenProperties, ElementOfSeq
<1>3. Depart(w, side) = h[DOMAIN s]
  BY Zenon DEF Depart, DepartOne, FoldLeft, MapThenFoldSet
<1> HIDE DEF s
<1>2. h = Body(h)
  <2> DEFINE Step == [i \in 1..n |-> [v \in Worlds |-> Op(v, s[i])]]
  <2>1. Step \in [1..n -> [Worlds -> Worlds]]
    BY <1>1, DepartOneTyped
  <2>2. PICK g \in [SUBSET (1..n) -> Worlds] : IsFold(w, n, Step, g)
    <3> HIDE DEF Step, Body, h
    <3>. QED  BY <2>1, FoldExists
  <2>3. \A K \in SUBSET (1..n) :
          g[K] = IF K = {} THEN w ELSE Op(g[K \ {Max(K)}], s[Max(K)])
    <3>1. ASSUME NEW K \in SUBSET (1..n), K # {}
          PROVE  Step[Max(K)][g[K \ {Max(K)}]] = Op(g[K \ {Max(K)}], s[Max(K)])
      <4>1. Max(K) \in 1..n
        BY <3>1, MaxOfFinite
      <4>2. g[K \ {Max(K)}] \in Worlds
        OBVIOUS
      <4>. QED  BY <4>1, <4>2
    <3> HIDE DEF Step, Op
    <3>. QED  BY <2>2, <3>1 DEF IsFold
  <2>4. g = Body(g)
    <3> HIDE DEF Op
    <3>. QED  BY <1>1, <2>3
  <2> HIDE DEF Body
  <2>. QED  BY <2>4, Zenon
<1> HIDE DEF h, Op
<1>4. ASSUME NEW i \in 1..n PROVE h[1..i] = Op(h[1..(i - 1)], s[i])
  <2>1. 1..i \in SUBSET (1..n) /\ i \in Nat /\ i > 0
    OBVIOUS
  <2>2. Max(1..i) = i /\ (1..i) \ {Max(1..i)} = 1..(i - 1) /\ 1..i # {}
    BY <2>1, IntervalMax
  <2>. QED  BY <1>1, <1>2, <2>1, <2>2
<1> DEFINE run == [i \in 0..n |-> h[1..i]]
<1>5. run[0] = w
  <2>1. 1..0 = {} /\ {} \in SUBSET (1..n)
    OBVIOUS
  <2>. QED  BY <1>1, <1>2, <2>1
<1>6. ASSUME NEW i \in 1..n PROVE run[i] = DepartOne(run[i - 1], side, s[i])
  BY <1>4 DEF Op
<1>7. run = [i \in 0..n |-> run[i]] /\ run[n] = h[1..n]
  OBVIOUS
<1> HIDE DEF run, Body
<1>8. \A i \in 0..n : run[i] \in Worlds
  <2>1. \A i \in 1..n : run[i - 1] \in Worlds => run[i] \in Worlds
    BY <1>1, <1>6, DepartOneTyped
  <2>. QED  BY <1>5, <2>1, RunStays
<1>9. run \in [0..n -> Worlds] /\ Depart(w, side) = run[n]
  BY <1>1, <1>3, <1>7, <1>8
<1>. QED  BY <1>0, <1>5, <1>6, <1>9 DEF s

(* So do all moves of a side. *)
LEMMA DepartTyped ==
  ASSUME NEW w \in Worlds, NEW side \in Side, pendingMoves[side] \in Seq(Moves)
  PROVE  Depart(w, side) \in Worlds
<1>1. Len(pendingMoves[side]) \in 0..Len(pendingMoves[side])
  BY LenProperties
<1>. QED  BY <1>1, DepartRun

(* Stage 4. *)
Arrivings == [group : Groups, via : EdgeIds]

ArriveOne(N, a) ==
  [N EXCEPT ![a.group.destination] =
     ArriveMobileUnits(@, a.group.side, a.group.count)]

(* One arrival leaves a board of consistent nodes. *)
LEMMA ArriveOneTyped ==
  ASSUME NEW N \in Boards, NEW a \in Arrivings
  PROVE  ArriveOne(N, a) \in Boards
<1> DEFINE x == a.group.destination
           after == ArriveMobileUnits(N[x], a.group.side, a.group.count)
<1>1. a.group \in Groups
  BY DEF Arrivings
<1>2. x \in NodeIds /\ a.group.side \in Side /\ a.group.count \in Nat
  BY <1>1, BoundsAssumption DEF Groups
<1>3. NodeInv(N[x]) /\ N[x].type = NodeType[x]
  BY <1>2 DEF Boards
<1>4. NodeInv(after) /\ after.type = NodeType[x] /\ after \in NodeStates
  <2> HIDE DEF x
  <2>1. NodeInv(after) /\ after.type = NodeType[x]
    BY ZenonT(60), <1>2, <1>3, ArriveEstablishes
  <2>. QED  BY <2>1 DEF NodeInv
<1>5. ArriveOne(N, a) = [N EXCEPT ![x] = after]
  BY DEF ArriveOne
<1> HIDE DEF x, after
<1>6. [N EXCEPT ![x] = after] \in Boards
  BY <1>2, <1>4 DEF Boards
<1>. QED  BY <1>5, <1>6

(* The arrivals are applied one after the other. *)
LEMMA ArriveRun ==
  ASSUME NEW N \in Boards, NEW s \in Seq(Arrivings)
  PROVE  \E run \in [0..Len(s) -> Boards] :
           /\ run[0] = N
           /\ \A i \in 1..Len(s) : run[i] = ArriveOne(run[i - 1], s[i])
           /\ Arrive(N, s) = run[Len(s)]
<1> DEFINE Op(v, a) == ArriveOne(v, a)
           Body(f) == [K \in SUBSET (DOMAIN s) |->
                         IF K = {} THEN N ELSE Op(f[K \ {Max(K)}], s[Max(K)])]
           h == CHOOSE f : f = Body(f)
<1>0. PICK n \in Nat : n = Len(s)
  BY LenProperties
<1>1. DOMAIN s = 1..n /\ \A i \in 1..n : s[i] \in Arrivings
  BY <1>0, LenProperties, ElementOfSeq
<1>3. Arrive(N, s) = h[DOMAIN s]
  BY Zenon DEF Arrive, ArriveOne, FoldLeft, MapThenFoldSet
<1> DEFINE Step == [i \in 1..n |-> [v \in Boards |-> Op(v, s[i])]]
<1>2. PICK g \in [SUBSET (1..n) -> Boards] : IsFold(N, n, Step, g)
  <2>1. Step \in [1..n -> [Boards -> Boards]]
    BY <1>1, ArriveOneTyped
  <2> HIDE DEF Step, Body, h
  <2>. QED  BY <2>1, FoldExists
<1>4. \A K \in SUBSET (1..n) :
        g[K] = IF K = {} THEN N ELSE Op(g[K \ {Max(K)}], s[Max(K)])
  <2>1. ASSUME NEW K \in SUBSET (1..n), K # {}
        PROVE  Step[Max(K)][g[K \ {Max(K)}]] = Op(g[K \ {Max(K)}], s[Max(K)])
    <3>1. Max(K) \in 1..n
      BY <2>1, MaxOfFinite
    <3>2. g[K \ {Max(K)}] \in Boards
      OBVIOUS
    <3>. QED  BY <3>1, <3>2
  <2> HIDE DEF Step, Op
  <2>. QED  BY <1>2, <2>1 DEF IsFold
<1>5. h = Body(h)
  <2>1. g = Body(g)
    <3> HIDE DEF Op
    <3>. QED  BY <1>1, <1>4
  <2> HIDE DEF Body
  <2>. QED  BY <2>1, Zenon
<1> HIDE DEF h, Op, Step
<1>6. ASSUME NEW i \in 1..n PROVE h[1..i] = Op(h[1..(i - 1)], s[i])
  <2>1. 1..i \in SUBSET (1..n) /\ i \in Nat /\ i > 0
    OBVIOUS
  <2>2. Max(1..i) = i /\ (1..i) \ {Max(1..i)} = 1..(i - 1) /\ 1..i # {}
    BY <2>1, IntervalMax
  <2>. QED  BY <1>1, <1>5, <2>1, <2>2
<1> DEFINE run == [i \in 0..n |-> h[1..i]]
<1>7. run[0] = N
  <2>1. 1..0 = {} /\ {} \in SUBSET (1..n)
    OBVIOUS
  <2>. QED  BY <1>1, <1>5, <2>1
<1>8. \A i \in 1..n : run[i] = ArriveOne(run[i - 1], s[i])
  BY <1>6 DEF Op
<1>9. run = [i \in 0..n |-> run[i]] /\ run[n] = h[1..n]
  OBVIOUS
<1> HIDE DEF run, Body
<1>10. \A i \in 0..n : run[i] \in Boards
  <2>1. \A i \in 1..n : run[i - 1] \in Boards => run[i] \in Boards
    BY <1>1, <1>8, ArriveOneTyped
  <2>. QED  BY <1>7, <2>1, RunStays
<1>11. run \in [0..n -> Boards] /\ Arrive(N, s) = run[n]
  BY <1>1, <1>3, <1>9, <1>10
<1>. QED  BY <1>0, <1>7, <1>8, <1>11

(* So all arrivals leave a board of consistent nodes. *)
LEMMA ArriveTyped ==
  ASSUME NEW N \in Boards, NEW s \in Seq(Arrivings)
  PROVE  Arrive(N, s) \in Boards
<1>1. Len(s) \in 0..Len(s)
  BY LenProperties
<1>. QED  BY <1>1, ArriveRun

-----------------------------------------------------------------------------
(* A sequence given by its elements. *)
LEMMA SeqByElements ==
  ASSUME NEW n \in Nat, NEW S, NEW q, q = [i \in 1..n |-> q[i]], \A i \in 1..n : q[i] \in S
  PROVE  q \in Seq(S) /\ Len(q) = n
<1>1. q \in [1..n -> S]
  OBVIOUS
<1>. QED  BY <1>1, SeqDef, LenProperties

(* The groups that arrive, with the edge they come from. *)
LEMMA ArrivalsTyped ==
  ASSUME NEW E \in Traffic
  PROVE  Arrivals(E) \in Seq(Arrivings)
<1> DEFINE on(e) == [i \in DOMAIN Arrived(E[e]) |-> [group |-> Arrived(E[e])[i], via |-> e]]
           seqs == [e \in EdgeIds |-> on(e)]
<1>1. PICK m \in Nat : EdgeIds = 1..m
  BY EdgeFacts
<1>2. ASSUME NEW e \in EdgeIds PROVE on(e) \in Seq(Arrivings)
  <2>1. Arrived(E[e]) \in Seq(Groups)
    <3>1. E[e] \in [1..EdgeMap[e].distance -> Seq(Groups)] /\ 1 \in 1..EdgeMap[e].distance
      BY TrafficFacts, EdgeFacts
    <3>. QED  BY <3>1 DEF Arrived
  <2> DEFINE q == Arrived(E[e])
  <2>2. Len(q) \in Nat /\ DOMAIN q = 1..Len(q) /\ \A i \in 1..Len(q) : q[i] \in Groups
    BY <2>1, LenProperties, ElementOfSeq
  <2> HIDE DEF q
  <2>3. \A i \in 1..Len(q) : [group |-> q[i], via |-> e] \in Arrivings
    BY <2>2 DEF Arrivings
  <2>4. on(e) = [i \in 1..Len(q) |-> [group |-> q[i], via |-> e]]
    BY <2>2 DEF q
  <2> HIDE DEF on
  <2>5. on(e) = [i \in 1..Len(q) |-> on(e)[i]] /\ \A i \in 1..Len(q) : on(e)[i] \in Arrivings
    BY <2>3, <2>4
  <2>. QED  BY <2>2, <2>5, SeqByElements
<1> HIDE DEF on
<1>3. seqs \in Seq(Seq(Arrivings))
  <2>1. seqs = [e \in 1..m |-> seqs[e]] /\ \A e \in 1..m : seqs[e] \in Seq(Arrivings)
    BY <1>1, <1>2
  <2> HIDE DEF seqs
  <2>. QED  BY <2>1, SeqByElements
<1>4. Arrivals(E) = FlattenSeq(seqs)
  BY DEF Arrivals, on
<1>. QED  BY <1>3, <1>4, FlattenElements

(* After a round nobody has the whole distance ahead of him. *)
Moved(E) == [e \in EdgeIds |-> AdvanceRound(E[e])]

(* Groups that move on stay on their edge, and its far end is free then. *)
LEMMA MovedTyped ==
  ASSUME NEW E \in Traffic
  PROVE  /\ Moved(E) \in Traffic
         /\ \A e \in EdgeIds : Moved(E)[e][EdgeMap[e].distance] = <<>>
<1>1. ASSUME NEW e \in EdgeIds
      PROVE  /\ AdvanceRound(E[e]) \in [1..EdgeMap[e].distance -> Seq(Groups)]
             /\ AdvanceRound(E[e])[EdgeMap[e].distance] = <<>>
  <2> DEFINE d == EdgeMap[e].distance
  <2>1. PICK T : T = Seq(Groups)
    OBVIOUS
  <2>2. PICK empty \in T : empty = <<>>
    BY <2>1, EmptySeq
  <2>3. d \in {1, 2} /\ E[e] \in [1..d -> T]
    BY <2>1, TrafficFacts, EdgeFacts
  <2> HIDE DEF d
  <2>4. AdvanceRound(E[e]) = [k \in 1..d |-> IF k + 1 \in 1..d THEN E[e][k + 1] ELSE empty]
    BY <2>2, <2>3 DEF AdvanceRound
  <2>5. AdvanceRound(E[e]) \in [1..d -> T] /\ AdvanceRound(E[e])[d] = empty
    BY <2>3, <2>4
  <2>. QED  BY <2>1, <2>2, <2>5 DEF d
<1> DEFINE F == Moved(E)
<1>2. F = [e \in EdgeIds |-> F[e]] /\ \A e \in EdgeIds : F[e] = AdvanceRound(E[e])
  BY DEF Moved
<1> HIDE DEF F
<1>3. F \in Traffic
  <2>1. \A e \in EdgeIds : F[e] \in [1..EdgeMap[e].distance -> Seq(Groups)]
    BY <1>1, <1>2
  <2>. QED  BY <1>2, <2>1, TrafficFacts
<1>. QED  BY <1>1, <1>2, <1>3 DEF F

-----------------------------------------------------------------------------
(* The groups of a side. *)
LEMMA GroupsOfFacts ==
  ASSUME NEW s \in Seq(Groups), NEW side \in Side
  PROVE  /\ GroupsOf(s, side) \in Seq(Groups)
         /\ \A j \in 1..Len(GroupsOf(s, side)) :
              /\ GroupsOf(s, side)[j].side = side
              /\ Contains(s, GroupsOf(s, side)[j])
<1> DEFINE K == {i \in 1..Len(s) : s[i].side = side}
<1>1. GroupsOf(s, side) = Picked(s, K)
  BY DEF GroupsOf, Filtered
<1>2. K \in SUBSET (1..Len(s)) /\ \A k \in K : s[k].side = side /\ k \in 1..Len(s)
  OBVIOUS
<1> HIDE DEF K
<1>3. /\ Picked(s, K) \in Seq(Groups)
      /\ \A j \in 1..Len(Picked(s, K)) : \E k \in K : Picked(s, K)[j] = s[k]
  BY <1>2, PickedElements
<1>. QED  BY <1>1, <1>2, <1>3 DEF Contains

(* An edge has one encounter at most: between groups with one round left,   *)
(* since nobody has two. *)
LEMMA FoundOnEdge ==
  ASSUME NEW E \in Traffic, NEW e \in EdgeIds, E[e][EdgeMap[e].distance] = <<>>
  PROVE  LET found == FindAllEncounters(E[e])
         IN  /\ Len(found) \in {0, 1} /\ DOMAIN found = 1..Len(found)
             /\ \A i \in DOMAIN found :
                  /\ found[i].remaining = 1
                  /\ found[i].groups \in [Side -> Groups]
                  /\ \A side \in Side : /\ Contains(E[e][1], found[i].groups[side])
                                          /\ found[i].groups[side].side = side
<1> DEFINE t == E[e]
           all == [k \in DOMAIN t |-> k]
           K == {i \in 1..Len(all) : HasEncounter(t[all[i]])}
           keys == Filtered(all, LAMBDA k : HasEncounter(t[k]))
           found == FindAllEncounters(t)
<1>1. PICK d \in {1, 2} : d = EdgeMap[e].distance
  BY EdgeFacts
<1>2. t \in [1..d -> Seq(Groups)] /\ t[d] = <<>>
  BY <1>1, TrafficFacts
<1> HIDE DEF t
<1>3. all = [k \in 1..d |-> k] /\ all \in Seq(1..d) /\ Len(all) = d
  <2>1. all = [k \in 1..d |-> k]
    BY <1>2
  <2> HIDE DEF all
  <2>2. all = [k \in 1..d |-> all[k]] /\ \A k \in 1..d : all[k] \in 1..d
    BY <2>1
  <2>. QED  BY <2>1, <2>2, SeqByElements
<1>4. keys = Picked(all, K)
  BY DEF Filtered
<1>5. ASSUME NEW k \in 1..d, HasEncounter(t[k]) PROVE k = 1 /\ d = 2
  <2>1. t[k] # <<>>
    <3> SUFFICES ASSUME t[k] = <<>> PROVE FALSE
      OBVIOUS
    <3>1. "A" \in Side /\ <<>> \in Seq(Groups) /\ Len(<<>>) = 0
      BY EmptySeq DEF Side
    <3>2. GroupsOf(<<>>, "A") # <<>>
      BY <1>5, <3>1 DEF HasEncounter
    <3>3. /\ GroupsOf(<<>>, "A") \in Seq(Groups)
          /\ \A j \in 1..Len(GroupsOf(<<>>, "A")) : Contains(<<>>, GroupsOf(<<>>, "A")[j])
      BY <3>1, GroupsOfFacts
    <3>4. 1 \in 1..Len(GroupsOf(<<>>, "A"))
      BY <3>2, <3>3, EmptySeq
    <3>. QED  BY <3>1, <3>3, <3>4 DEF Contains
  <2>. QED  BY <1>2, <2>1
<1>6. K \in SUBSET (1..Len(all)) /\ \A k \in K : k = 1 /\ all[k] = 1 /\ HasEncounter(t[1])
  <2>1. K \in SUBSET (1..Len(all)) /\ \A k \in K : k \in 1..d /\ all[k] = k /\ HasEncounter(t[k])
    BY <1>3
  <2>. QED  BY <1>5, <2>1
<1> HIDE DEF all, K, keys
<1>7. keys \in Seq(1..d) /\ \E place : IsPlacing(all, K, Len(all), keys, place)
  BY <1>3, <1>4, <1>6, PickedPlaces
<1>8. /\ Len(keys) \in {0, 1} /\ DOMAIN keys = 1..Len(keys)
      /\ \A i \in 1..Len(keys) : keys[i] = 1 /\ HasEncounter(t[1])
  <2>1. PICK place : IsPlacing(all, K, Len(all), keys, place)
    BY <1>7
  <2>2. Len(keys) \in Nat /\ DOMAIN keys = 1..Len(keys)
    BY <1>7, LenProperties
  <2>3. \A i \in 1..Len(keys) : place[i] = 1 /\ keys[i] = 1 /\ HasEncounter(t[1])
    BY <1>6, <2>1 DEF IsPlacing
  <2>4. ~ (Len(keys) > 1)
    <3> SUFFICES ASSUME Len(keys) > 1 PROVE FALSE
      OBVIOUS
    <3>1. 1 \in 1..Len(keys) /\ 2 \in 1..Len(keys) /\ 1 < 2
      BY <2>2
    <3>2. place[1] < place[2]
      BY <2>1, <3>1 DEF IsPlacing
    <3>. QED  BY <2>3, <3>1, <3>2
  <2>. QED  BY <2>2, <2>3, <2>4
<1>9. found = [i \in 1..Len(keys) |->
                 [groups |-> [side \in Side |-> GroupsOf(t[keys[i]], side)[1]],
                  remaining |-> keys[i]]]
  BY <1>8 DEF FindAllEncounters, keys, all
<1>10. ASSUME NEW i \in 1..Len(keys), NEW side \in Side
       PROVE  /\ GroupsOf(t[1], side)[1] \in Groups
              /\ Contains(t[1], GroupsOf(t[1], side)[1])
              /\ GroupsOf(t[1], side)[1].side = side
  <2>1. t[1] \in Seq(Groups) /\ GroupsOf(t[1], side) # <<>>
    BY <1>1, <1>2, <1>8 DEF HasEncounter
  <2>2. /\ GroupsOf(t[1], side) \in Seq(Groups)
        /\ \A j \in 1..Len(GroupsOf(t[1], side)) :
             Contains(t[1], GroupsOf(t[1], side)[j]) /\ GroupsOf(t[1], side)[j].side = side
    BY <2>1, GroupsOfFacts
  <2>3. 1 \in 1..Len(GroupsOf(t[1], side))
    BY <2>1, <2>2, EmptySeq
  <2>. QED  BY <2>2, <2>3, ElementOfSeq
<1>11. ASSUME NEW i \in 1..Len(keys)
       PROVE  /\ found[i].remaining = 1
              /\ found[i].groups = [side \in Side |-> GroupsOf(t[1], side)[1]]
  BY <1>8, <1>9
<1>12. Len(found) = Len(keys) /\ DOMAIN found = 1..Len(keys)
  <2>1. Len(keys) \in Nat /\ found = [i \in 1..Len(keys) |-> found[i]]
    BY <1>8, <1>9
  <2> HIDE DEF found
  <2>2. \A i \in 1..Len(keys) : found[i] \in {found[j] : j \in 1..Len(keys)}
    OBVIOUS
  <2>. QED  BY <2>1, <2>2, SeqByElements
<1>13. ASSUME NEW i \in 1..Len(keys), NEW side \in Side
       PROVE  found[i].groups[side] = GroupsOf(t[1], side)[1]
  <2> HIDE DEF found
  <2>. QED  BY <1>11
<1> HIDE DEF found
<1>14. ASSUME NEW i \in 1..Len(keys)
       PROVE  /\ found[i].groups \in [Side -> Groups]
              /\ \A side \in Side : /\ Contains(t[1], found[i].groups[side])
                                    /\ found[i].groups[side].side = side
  <2>1. found[i].groups \in [Side -> Groups]
    BY <1>10, <1>11
  <2>2. \A side \in Side : /\ Contains(t[1], found[i].groups[side])
                           /\ found[i].groups[side].side = side
    BY <1>10, <1>13
  <2>. QED  BY <2>1, <2>2
<1>. QED  BY <1>8, <1>11, <1>12, <1>14 DEF t, found

-----------------------------------------------------------------------------
(* The pending encounters: one per edge; somebody has still to decide; and  *)
(* the groups of whoever has not turned round still stand where they met.   *)
Current(P, E) ==
  /\ P \in Seq(Pendings)
  /\ \A i, j \in 1..Len(P) : P[i].edge = P[j].edge => i = j
  /\ \A i \in 1..Len(P) : ~ BothDecided(P[i])
  /\ \A i \in 1..Len(P), side \in Side :
       /\ P[i].groups[side].side = side
       /\ P[i].decision[side] # "Retreat" => Contains(E[P[i].edge][1], P[i].groups[side])

(* The encounters that are found are about groups that meet on the edges. *)
LEMMA EncountersCurrent ==
  ASSUME NEW E \in Traffic, \A e \in EdgeIds : E[e][EdgeMap[e].distance] = <<>>
  PROVE  Current(Encounters(E), E)
<1> DEFINE on(e) == LET found == FindAllEncounters(E[e])
                    IN  [i \in DOMAIN found |-> PendingEncounter(e, found[i])]
           seqs == [e \in EdgeIds |-> on(e)]
           New == {p \in Pendings :
                     /\ \A side \in Side : p.decision[side] = Undecided
                     /\ \A side \in Side : /\ Contains(E[p.edge][1], p.groups[side])
                                             /\ p.groups[side].side = side}
           P == Encounters(E)
<1>1. PICK m \in Nat : EdgeIds = 1..m
  BY EdgeFacts
<1>2. ASSUME NEW e \in EdgeIds
      PROVE  /\ on(e) \in Seq(New) /\ Len(on(e)) \in {0, 1}
             /\ \A i \in 1..Len(on(e)) : on(e)[i].edge = e
  <2> DEFINE found == FindAllEncounters(E[e])
             q == on(e)
  <2>1. /\ Len(found) \in {0, 1} /\ DOMAIN found = 1..Len(found)
        /\ \A i \in DOMAIN found :
             /\ found[i].remaining = 1
             /\ found[i].groups \in [Side -> Groups]
             /\ \A side \in Side : /\ Contains(E[e][1], found[i].groups[side])
                                     /\ found[i].groups[side].side = side
    BY FoundOnEdge
  <2>2. q = [i \in 1..Len(found) |-> PendingEncounter(e, found[i])]
    BY <2>1
  <2> HIDE DEF found, on
  <2>3. ASSUME NEW i \in 1..Len(found)
        PROVE  PendingEncounter(e, found[i]) \in New /\ PendingEncounter(e, found[i]).edge = e
    BY <2>1 DEF PendingEncounter, Pendings
  <2>4. q = [i \in 1..Len(found) |-> q[i]] /\ \A i \in 1..Len(found) : q[i] \in New /\ q[i].edge = e
    BY <2>2, <2>3
  <2> HIDE DEF New
  <2>5. q \in Seq(New) /\ Len(q) = Len(found)
    BY <2>1, <2>4, SeqByElements
  <2>. QED  BY <2>1, <2>4, <2>5
<1> HIDE DEF on
<1>3. seqs \in Seq(Seq(New)) /\ Len(seqs) = m /\ \A e \in EdgeIds : seqs[e] = on(e)
  <2>1. seqs = [e \in 1..m |-> seqs[e]] /\ \A e \in EdgeIds : seqs[e] = on(e)
    BY <1>1
  <2>2. \A e \in 1..m : seqs[e] \in Seq(New)
    BY <1>1, <1>2, <2>1
  <2> HIDE DEF seqs, New
  <2>. QED  BY <2>1, <2>2, SeqByElements
<1>4. P = FlattenSeq(seqs)
  BY DEF Encounters, on
<1> HIDE DEF seqs, P
<1>5. P \in Seq(New) /\ \E origin : IsOrigin(seqs, m, P, origin)
  <2> HIDE DEF New
  <2>. QED  BY <1>3, <1>4, FlattenElements
<1>6. PICK origin : IsOrigin(seqs, m, P, origin)
  BY <1>5
<1>7. \A i \in 1..Len(P) : P[i] \in New
  BY <1>5, ElementOfSeq
<1>8. ASSUME NEW i \in 1..Len(P)
      PROVE  /\ origin[i][1] \in EdgeIds /\ origin[i][2] = 1 /\ P[i].edge = origin[i][1]
  <2>1. /\ origin[i][1] \in EdgeIds /\ origin[i][2] \in 1..Len(on(origin[i][1]))
        /\ P[i] = on(origin[i][1])[origin[i][2]]
    BY <1>1, <1>3, <1>6 DEF IsOrigin
  <2> DEFINE e == origin[i][1]
  <2>2. Len(on(e)) \in {0, 1} /\ on(e)[origin[i][2]].edge = e
    BY <1>2, <2>1
  <2>3. origin[i][2] = 1
    BY <2>1, <2>2
  <2>. QED  BY <2>1, <2>2, <2>3
<1>9. \A i, j \in 1..Len(P) : P[i].edge = P[j].edge => i = j
  <2>1. ASSUME NEW i \in 1..Len(P), NEW j \in 1..Len(P), P[i].edge = P[j].edge
        PROVE  i = j
    <3>1. origin[i][1] = origin[j][1] /\ origin[i][2] = origin[j][2]
      BY <1>8, <2>1
    <3>. QED  BY <1>6, <3>1 DEF IsOrigin
  <2>. QED  BY <2>1
<1>10. P \in Seq(Pendings)
  <2>1. New \subseteq Pendings /\ DOMAIN P = 1..Len(P) /\ Len(P) \in Nat /\ P \in [1..Len(P) -> New]
    BY <1>5, LenProperties
  <2>2. P = [i \in 1..Len(P) |-> P[i]] /\ \A i \in 1..Len(P) : P[i] \in Pendings
    BY <1>7, <2>1
  <2>. QED  BY <2>1, <2>2, SeqByElements
<1>11. \A i \in 1..Len(P) : ~ BothDecided(P[i])
  BY <1>7 DEF BothDecided, HasDecided, Side
<1>. QED  BY <1>7, <1>9, <1>10, <1>11 DEF Current, P

(* The first pending encounter on an edge is the one on that edge. *)
LEMMA FirstOnFacts ==
  ASSUME NEW P \in Seq(Pendings), NEW e
  PROVE  /\ FirstOn(P, e) = 0 \/ (FirstOn(P, e) \in 1..Len(P) /\ P[FirstOn(P, e)].edge = e)
         /\ (\E i \in 1..Len(P) : P[i].edge = e) => FirstOn(P, e) # 0
<1> DEFINE I == {i \in 1..Len(P) : P[i].edge = e}
<1>1. FirstOn(P, e) = IF I # {} THEN Min(I) ELSE 0
  BY DEF FirstOn, SelectInSeq
<1>2. Len(P) \in Nat
  BY LenProperties
<1>3. ASSUME I # {} PROVE Min(I) \in I
  BY <1>2, <1>3, MinOfFinite
<1>4. \A i \in I : i \in 1..Len(P) /\ i # 0 /\ P[i].edge = e
  BY <1>2
<1> HIDE DEF I
<1>5. CASE I = {}
  <2>1. ~ \E i \in 1..Len(P) : P[i].edge = e
    BY <1>5 DEF I
  <2>. QED  BY <1>1, <1>5, <2>1
<1>6. CASE I # {}
  BY <1>1, <1>3, <1>4, <1>6
<1>. QED  BY <1>5, <1>6

(* A retreat takes the groups of the side off the edge and puts one on;     *)
(* those of the other side stay where they are. *)
Retreated(E, e, side, group) ==
  [E EXCEPT ![e] = StartTravel(RemoveTravelingGroup(@, side), EdgeMap[e].distance,
                               side, group.count, Opposite(e, group.destination))]

(* A retreat changes one edge, and no group of the other side. *)
LEMMA RetreatFacts ==
  ASSUME NEW E \in Traffic, NEW e \in EdgeIds, NEW side \in Side, NEW group \in Groups
  PROVE  LET F == Retreated(E, e, side, group)
         IN  /\ F \in Traffic
             /\ \A x \in EdgeIds : x # e => F[x] = E[x]
             /\ \A g \in Groups : g.side # side /\ Contains(E[e][1], g) => Contains(F[e][1], g)
<1> DEFINE d == EdgeMap[e].distance
           t == RemoveTravelingGroup(E[e], side)
           back == Opposite(e, group.destination)
           M == [E EXCEPT ![e] = t]
           F == Retreated(E, e, side, group)
<1>1. /\ E = [x \in EdgeIds |-> E[x]] /\ \A x \in EdgeIds : E[x] \in [1..EdgeMap[x].distance -> Seq(Groups)]
      /\ E[e] \in [1..d -> Seq(Groups)]
  BY TrafficFacts
<1>2. ASSUME NEW k \in 1..d
      PROVE  /\ t[k] \in Seq(Groups)
             /\ \A g \in Groups : g.side # side /\ Contains(E[e][k], g) => Contains(t[k], g)
  <2> DEFINE s == E[e][k]
             K == {i \in 1..Len(s) : s[i].side # side}
  <2>1. s \in Seq(Groups)
    BY <1>1
  <2>2. t[k] = Picked(s, K)
    BY <1>1 DEF RemoveTravelingGroup, Filtered
  <2> HIDE DEF s, t
  <2>3. /\ Picked(s, K) \in Seq(Groups)
        /\ \A i \in K : \E j \in 1..Len(Picked(s, K)) : Picked(s, K)[j] = s[i]
    <3>1. K \in SUBSET (1..Len(s))
      OBVIOUS
    <3> HIDE DEF K
    <3>. QED  BY <2>1, <3>1, PickedElements
  <2>4. ASSUME NEW g \in Groups, g.side # side, Contains(s, g) PROVE Contains(t[k], g)
    <3>1. PICK i \in 1..Len(s) : s[i] = g
      BY <2>4 DEF Contains
    <3>2. i \in K
      BY <2>4, <3>1
    <3> HIDE DEF K
    <3>. QED  BY <2>2, <2>3, <3>1, <3>2 DEF Contains
  <2>. QED  BY <2>2, <2>3, <2>4 DEF s
<1>3. t \in [1..d -> Seq(Groups)]
  <2>1. t = [k \in 1..d |-> t[k]]
    BY <1>1 DEF RemoveTravelingGroup
  <2> HIDE DEF t
  <2>. QED  BY <1>2, <2>1
<1>4. M \in Traffic /\ M[e] = t /\ \A x \in EdgeIds : x # e => M[x] = E[x]
  <2>1. M = [x \in EdgeIds |-> M[x]] /\ M[e] = t /\ \A x \in EdgeIds : x # e => M[x] = E[x]
    <3> HIDE DEF t
    <3>. QED  BY <1>1
  <2>2. \A x \in EdgeIds : M[x] \in [1..EdgeMap[x].distance -> Seq(Groups)]
    <3> HIDE DEF M, t
    <3>. QED  BY <1>1, <1>3, <2>1
  <2> HIDE DEF M, t
  <2>. QED  BY <2>1, <2>2, TrafficFacts
<1>5. /\ group.count \in 1..MaxUnitsPerPlayer /\ back \in NodeIds
  BY EdgeFacts DEF Groups, Opposite
<1>6. F = [M EXCEPT ![e] = StartTravel(@, d, side, group.count, back)]
  <2>1. F = [E EXCEPT ![e] = StartTravel(t, d, side, group.count, back)]
    BY DEF Retreated
  <2>2. [M EXCEPT ![e] = StartTravel(@, d, side, group.count, back)]
          = [E EXCEPT ![e] = StartTravel(t, d, side, group.count, back)]
    <3> HIDE DEF t, d, back
    <3>. QED  BY <1>1
  <2>. QED  BY <2>1, <2>2
<1> HIDE DEF F, M, back
<1>7. F \in Traffic
  BY <1>4, <1>5, <1>6, StartTravelTyped
<1>8. /\ F[e] = StartTravel(t, d, side, group.count, back)
      /\ \A x \in EdgeIds : x # e => F[x] = E[x]
  <2>1. M = [x \in EdgeIds |-> M[x]]
    BY <1>4, TrafficFacts
  <2> HIDE DEF d, t
  <2>. QED  BY <1>4, <1>6, <2>1
<1>9. ASSUME NEW g \in Groups, g.side # side, Contains(E[e][1], g) PROVE Contains(F[e][1], g)
  <2>1. d \in {1, 2} /\ 1 \in 1..d
    BY EdgeFacts
  <2>2. t[1] \in Seq(Groups) /\ Contains(t[1], g)
    BY <1>2, <1>9, <2>1
  <2> HIDE DEF d, t
  <2> DEFINE new == Group(side, group.count, back)
  <2>3. F[e] = [t EXCEPT ![d] = Append(t[d], new)]
    BY <1>8 DEF StartTravel
  <2>4. CASE d = 1
    <3>1. F[e][1] = Append(t[1], new)
      BY <1>3, <2>1, <2>3, <2>4
    <3>2. PICK i \in 1..Len(t[1]) : t[1][i] = g
      BY <2>2 DEF Contains
    <3>3. new \in Groups
      BY <1>5 DEF Group, Groups
    <3> HIDE DEF new
    <3>4. Len(Append(t[1], new)) = Len(t[1]) + 1 /\ Append(t[1], new)[i] = t[1][i]
      BY <2>2, <3>2, <3>3, AppendProperties
    <3>5. Len(t[1]) \in Nat
      BY <2>2, LenProperties
    <3>6. i \in 1..Len(Append(t[1], new))
      BY <3>4, <3>5
    <3>. QED  BY <3>1, <3>2, <3>4, <3>6 DEF Contains
  <2>5. CASE d = 2
    <3>1. F[e][1] = t[1]
      BY <1>3, <2>1, <2>3, <2>5
    <3>. QED  BY <2>2, <3>1
  <2>. QED  BY <2>1, <2>4, <2>5
<1>. QED  BY <1>7, <1>8, <1>9 DEF F

-----------------------------------------------------------------------------
(* The mobile units of a node are a number. *)
LEMMA MobileIsNat ==
  ASSUME NEW N \in Boards, NEW n \in NodeIds, NEW side \in Side
  PROVE  N[n].mobile[side] \in Nat
<1>1. N[n] \in NodeStates
  BY DEF Boards
<1>. QED  BY <1>1 DEF NodeStates

(* The units that a group has of a side. *)
CountOf(side) == [g \in Groups |-> IF g.side = side THEN g.count ELSE 0]

OnNodes(N, side) == SumFunction([n \in NodeIds |-> N[n].mobile[side]])
OnEdges(E, side) == SumFunction([e \in EdgeIds |-> UnitsOnEdge(E[e], side)])

(* What a group weighs for a side. *)
LEMMA CountOfFacts ==
  ASSUME NEW side
  PROVE  /\ CountOf(side) \in [Groups -> Nat]
         /\ \A g \in Groups : CountOf(side)[g] = IF g.side = side THEN g.count ELSE 0
<1>1. \A g \in Groups : g.count \in Nat
  BY BoundsAssumption DEF Groups
<1>. QED  BY <1>1 DEF CountOf

(* The units of a list of groups are its weight. *)
LEMMA UnitsInIsWeight ==
  ASSUME NEW q \in Seq(Groups), NEW side
  PROVE  UnitsIn(q, side) = Weight(q, CountOf(side)) /\ UnitsIn(q, side) \in Nat
<1>1. PICK n \in Nat : n = Len(q) /\ DOMAIN q = 1..n /\ \A i \in 1..n : q[i] \in Groups
  BY LenProperties, ElementOfSeq
<1> DEFINE f == [i \in 1..n |-> IF q[i].side = side THEN q[i].count ELSE 0]
           g == [i \in 1..n |-> CountOf(side)[q[i]]]
<1>2. \A i \in 1..n : CountOf(side)[q[i]] = IF q[i].side = side THEN q[i].count ELSE 0
  BY <1>1, CountOfFacts
<1>3. f = g
  BY <1>2
<1>4. UnitsIn(q, side) = SumFunctionOnSet(f, 1..n)
  BY <1>1 DEF UnitsIn, SumFunction
<1>5. Weight(q, CountOf(side)) = SumFunctionOnSet(g, 1..n)
  BY <1>1 DEF Weight
<1> HIDE DEF f, g
<1>6. Weight(q, CountOf(side)) \in Nat
  BY CountOfFacts, WeightIsNat
<1>. QED  BY <1>3, <1>4, <1>5, <1>6

(* The units of a list that grows, or is picked from, or holds a group. *)
LEMMA UnitsInFacts ==
  ASSUME NEW q \in Seq(Groups), NEW side
  PROVE  /\ UnitsIn(<<>>, side) = 0
         /\ \A g \in Groups : UnitsIn(Append(q, g), side)
                                = UnitsIn(q, side) + (IF g.side = side THEN g.count ELSE 0)
         /\ \A K \in SUBSET (1..Len(q)) : UnitsIn(Picked(q, K), side) <= UnitsIn(q, side)
         /\ (\A i \in 1..Len(q) : q[i].side # side) => UnitsIn(q, side) = 0
         /\ \A g \in Groups : g.side = side /\ Contains(q, g) => g.count <= UnitsIn(q, side)
<1>1. CountOf(side) \in [Groups -> Nat] /\ UnitsIn(q, side) = Weight(q, CountOf(side))
  BY CountOfFacts, UnitsInIsWeight
<1>2. UnitsIn(<<>>, side) = 0
  <2>1. <<>> \in Seq(Groups)
    BY EmptySeq
  <2>2. UnitsIn(<<>>, side) = Weight(<<>>, CountOf(side))
    BY <2>1, UnitsInIsWeight
  <2>. QED  BY <1>1, <2>2, WeightIsNat
<1>3. ASSUME NEW g \in Groups
      PROVE  UnitsIn(Append(q, g), side)
               = UnitsIn(q, side) + (IF g.side = side THEN g.count ELSE 0)
  <2>1. Append(q, g) \in Seq(Groups)
    BY AppendProperties
  <2>2. UnitsIn(Append(q, g), side) = Weight(Append(q, g), CountOf(side))
    BY <2>1, UnitsInIsWeight
  <2>3. Weight(Append(q, g), CountOf(side)) = Weight(q, CountOf(side)) + CountOf(side)[g]
    BY <1>1, WeightOfAppend
  <2>. QED  BY <1>1, <2>2, <2>3, CountOfFacts
<1>4. ASSUME NEW K \in SUBSET (1..Len(q))
      PROVE  UnitsIn(Picked(q, K), side) <= UnitsIn(q, side)
  <2>1. Picked(q, K) \in Seq(Groups)
    BY PickedElements
  <2>2. UnitsIn(Picked(q, K), side) = Weight(Picked(q, K), CountOf(side))
    BY <2>1, UnitsInIsWeight
  <2>. QED  BY <1>1, <2>2, WeightOfPicked
<1> DEFINE f == [i \in DOMAIN q |-> IF q[i].side = side THEN q[i].count ELSE 0]
<1>5. PICK n \in Nat : n = Len(q) /\ DOMAIN q = 1..n /\ \A i \in 1..n : q[i] \in Groups
  BY LenProperties, ElementOfSeq
<1>6. \A i \in 1..n : q[i].count \in Nat
  BY <1>5, BoundsAssumption DEF Groups
<1>7. /\ \A i \in 1..n : f[i] = (IF q[i].side = side THEN q[i].count ELSE 0) /\ f[i] \in Nat
      /\ UnitsIn(q, side) = SumFunctionOnSet(f, 1..n)
  BY <1>5, <1>6 DEF UnitsIn, SumFunction
<1>8. IsFiniteSet(1..n)
  BY FS_Interval
<1> HIDE DEF f
<1>9. ASSUME \A i \in 1..Len(q) : q[i].side # side PROVE UnitsIn(q, side) = 0
  <2>1. \A i \in 1..n : f[i] = 0
    BY <1>5, <1>7, <1>9
  <2>. QED  BY <1>7, <1>8, <2>1, SumOfZeros
<1>10. ASSUME NEW g \in Groups, g.side = side, Contains(q, g) PROVE g.count <= UnitsIn(q, side)
  <2>1. PICK i \in 1..n : q[i] = g
    BY <1>5, <1>10 DEF Contains
  <2>2. SumFunctionOnSet(f, {i}) <= SumFunctionOnSet(f, 1..n)
    BY <1>7, <1>8, SumOfPart
  <2>3. SumFunctionOnSet(f, {} \cup {i}) = SumFunctionOnSet(f, {}) + f[i]
    <3>1. IsFiniteSet({}) /\ i \notin {} /\ \A y \in {} \cup {i} : f[y] \in Nat
      BY <1>7, FS_EmptySet
    <3>. QED  BY <3>1, SumWithOneMore
  <2>4. {} \cup {i} = {i} /\ f[i] = g.count /\ g.count \in Nat /\ SumFunctionOnSet(f, {}) = 0
    BY <1>6, <1>7, <1>10, <2>1, SumOfNone
  <2>. QED  BY <1>7, <2>2, <2>3, <2>4
<1>. QED  BY <1>2, <1>3, <1>4, <1>9, <1>10

(* An edge has one or two places. *)
LEMMA UnitsOnEdgeFacts ==
  ASSUME NEW d \in {1, 2}, NEW t \in [1..d -> Seq(Groups)], NEW side
  PROVE  /\ UnitsOnEdge(t, side) \in Nat
         /\ d = 1 => UnitsOnEdge(t, side) = UnitsIn(t[1], side)
         /\ d = 2 => UnitsOnEdge(t, side) = UnitsIn(t[1], side) + UnitsIn(t[2], side)
<1> DEFINE f == [k \in DOMAIN t |-> UnitsIn(t[k], side)]
<1>1. DOMAIN t = 1..d /\ \A k \in 1..d : t[k] \in Seq(Groups) /\ UnitsIn(t[k], side) \in Nat
  BY UnitsInIsWeight
<1>2. UnitsOnEdge(t, side) = SumFunctionOnSet(f, 1..d)
  BY <1>1 DEF UnitsOnEdge, SumFunction
<1>3. \A k \in 1..d : f[k] = UnitsIn(t[k], side) /\ f[k] \in Nat
  BY <1>1
<1> HIDE DEF f
<1>4. 1 \in 1..d /\ SumFunctionOnSet(f, 1..0 + 1) = SumFunctionOnSet(f, 1..0) + f[0 + 1]
  <2>1. \A i \in 1..0 + 1 : i \in 1..d
    BY <1>1
  <2>2. \A i \in 1..0 + 1 : f[i] \in Nat
    BY <1>3, <2>1
  <2>3. 1 \in 1..d
    OBVIOUS
  <2>. QED  BY <2>2, <2>3, SumUpto
<1>5. SumFunctionOnSet(f, 1..1) = f[1]
  <2>1. 1..0 = {} /\ 0 + 1 = 1
    OBVIOUS
  <2>. QED  BY <1>3, <1>4, <2>1, SumOfNone
<1>6. CASE d = 1
  BY <1>1, <1>2, <1>3, <1>4, <1>5, <1>6
<1>7. CASE d = 2
  <2>1. SumFunctionOnSet(f, 1..1 + 1) = SumFunctionOnSet(f, 1..1) + f[1 + 1]
    <3>1. \A i \in 1..1 + 1 : i \in 1..d
      BY <1>7
    <3>. QED  BY <1>3, <3>1, SumUpto
  <2>2. 1 + 1 = 2 /\ 2 \in 1..d /\ d # 1
    BY <1>7
  <2>3. SumFunctionOnSet(f, 1..2) = f[1] + f[2]
    BY <1>5, <2>1, <2>2
  <2>. QED  BY <1>2, <1>3, <1>4, <1>7, <2>2, <2>3
<1>. QED  BY <1>6, <1>7

(* A change of one edge changes the units on all edges by as much. *)
LEMMA OnEdgesUpdated ==
  ASSUME NEW E \in Traffic, NEW F \in Traffic, NEW e \in EdgeIds, NEW side,
         \A x \in EdgeIds : x # e => F[x] = E[x]
  PROVE  OnEdges(F, side) + UnitsOnEdge(E[e], side) = OnEdges(E, side) + UnitsOnEdge(F[e], side)
<1> DEFINE f == [x \in EdgeIds |-> UnitsOnEdge(E[x], side)]
           g == [x \in EdgeIds |-> UnitsOnEdge(F[x], side)]
<1>1. \A x \in EdgeIds : UnitsOnEdge(E[x], side) \in Nat /\ UnitsOnEdge(F[x], side) \in Nat
  BY TrafficFacts, EdgeFacts, UnitsOnEdgeFacts
<1>2. /\ \A x \in EdgeIds : f[x] \in Nat /\ g[x] \in Nat
      /\ \A x \in EdgeIds : x # e => g[x] = f[x]
      /\ f[e] = UnitsOnEdge(E[e], side) /\ g[e] = UnitsOnEdge(F[e], side)
  BY <1>1
<1>3. OnEdges(E, side) = SumFunctionOnSet(f, EdgeIds) /\ OnEdges(F, side) = SumFunctionOnSet(g, EdgeIds)
  BY DEF OnEdges, SumFunction
<1>4. IsFiniteSet(EdgeIds)
  BY EdgeFacts, FS_Interval
<1> HIDE DEF f, g
<1>5. SumFunctionOnSet(g, EdgeIds) + f[e] = SumFunctionOnSet(f, EdgeIds) + g[e]
  BY <1>2, <1>4, SumUpdated
<1>. QED  BY <1>2, <1>3, <1>5

(* The units on the edges are a number. *)
LEMMA OnEdgesIsNat ==
  ASSUME NEW E \in Traffic, NEW side
  PROVE  OnEdges(E, side) \in Nat /\ \A e \in EdgeIds : UnitsOnEdge(E[e], side) \in Nat
<1> DEFINE f == [x \in EdgeIds |-> UnitsOnEdge(E[x], side)]
<1>1. \A x \in EdgeIds : UnitsOnEdge(E[x], side) \in Nat
  BY TrafficFacts, EdgeFacts, UnitsOnEdgeFacts
<1>2. \A x \in EdgeIds : f[x] \in Nat
  BY <1>1
<1>3. OnEdges(E, side) = SumFunctionOnSet(f, EdgeIds)
  BY DEF OnEdges, SumFunction
<1>4. IsFiniteSet(EdgeIds)
  BY EdgeFacts, FS_Interval
<1> HIDE DEF f
<1>. QED  BY <1>1, <1>2, <1>3, <1>4, SumIsNat

(* The units on the nodes are a number. *)
LEMMA OnNodesIsNat ==
  ASSUME NEW N \in Boards, NEW side \in Side
  PROVE  OnNodes(N, side) \in Nat
<1> DEFINE f == [n \in NodeIds |-> N[n].mobile[side]]
<1>1. \A n \in NodeIds : f[n] \in Nat
  BY MobileIsNat
<1>2. OnNodes(N, side) = SumFunctionOnSet(f, NodeIds) /\ IsFiniteSet(NodeIds)
  BY MapAssumption DEF OnNodes, SumFunction
<1> HIDE DEF f
<1>. QED  BY <1>1, <1>2, SumIsNat

(* A change of one node changes the units on all nodes by as much. *)
LEMMA OnNodesUpdated ==
  ASSUME NEW N \in Boards, NEW M \in Boards, NEW x \in NodeIds, NEW side \in Side,
         \A n \in NodeIds : n # x => M[n].mobile[side] = N[n].mobile[side]
  PROVE  /\ OnNodes(M, side) + N[x].mobile[side] = OnNodes(N, side) + M[x].mobile[side]
         /\ OnNodes(N, side) \in Nat
<1> DEFINE f == [n \in NodeIds |-> N[n].mobile[side]]
           g == [n \in NodeIds |-> M[n].mobile[side]]
<1>1. /\ \A n \in NodeIds : f[n] \in Nat /\ g[n] \in Nat
      /\ \A n \in NodeIds : n # x => g[n] = f[n]
      /\ f[x] = N[x].mobile[side] /\ g[x] = M[x].mobile[side]
  BY MobileIsNat
<1>2. OnNodes(N, side) = SumFunctionOnSet(f, NodeIds) /\ OnNodes(M, side) = SumFunctionOnSet(g, NodeIds)
  BY DEF OnNodes, SumFunction
<1>3. IsFiniteSet(NodeIds)
  BY MapAssumption
<1> HIDE DEF f, g
<1>4. SumFunctionOnSet(g, NodeIds) + f[x] = SumFunctionOnSet(f, NodeIds) + g[x]
  BY <1>1, <1>3, SumUpdated
<1>5. SumFunctionOnSet(f, NodeIds) \in Nat
  BY <1>1, <1>3, SumIsNat
<1>. QED  BY <1>1, <1>2, <1>4, <1>5

(* A group that sets out adds its units to the edge. *)
Share(count, side, owner) == IF side = owner THEN count ELSE 0

Loaded(t, u, count, side, owner) ==
  UnitsOnEdge(u, owner) = UnitsOnEdge(t, owner) + Share(count, side, owner)

(* A group that starts to travel adds its units to the track. *)
LEMMA StartTravelUnits ==
  ASSUME NEW d \in {1, 2}, NEW t \in [1..d -> Seq(Groups)], NEW side \in Side,
         NEW count \in 1..MaxUnitsPerPlayer, NEW destination \in NodeIds, NEW owner
  PROVE  Loaded(t, StartTravel(t, d, side, count, destination), count, side, owner)
<1> DEFINE g == Group(side, count, destination)
           u == StartTravel(t, d, side, count, destination)
<1>1. g \in Groups /\ g.side = side /\ g.count = count
  BY DEF Group, Groups
<1>2. d \in 1..d /\ t[d] \in Seq(Groups) /\ 1 \in 1..d
  OBVIOUS
<1>3. u = [t EXCEPT ![d] = Append(t[d], g)]
  BY DEF StartTravel
<1> HIDE DEF g, u
<1>4. Append(t[d], g) \in Seq(Groups)
  BY <1>1, <1>2, AppendProperties
<1>5. /\ u \in [1..d -> Seq(Groups)] /\ u[d] = Append(t[d], g)
      /\ \A k \in 1..d : k # d => u[k] = t[k]
  BY <1>2, <1>3, <1>4
<1>6. /\ UnitsIn(u[d], owner) = UnitsIn(t[d], owner) + Share(count, side, owner)
      /\ UnitsIn(t[d], owner) \in Nat /\ UnitsIn(t[1], owner) \in Nat
  BY <1>1, <1>2, <1>5, UnitsInFacts, UnitsInIsWeight DEF Share
<1>7. CASE d = 1
  BY <1>5, <1>6, <1>7, UnitsOnEdgeFacts DEF u, Loaded
<1>8. CASE d = 2
  <2>1. u[1] = t[1]
    BY <1>2, <1>5, <1>8
  <2>2. UnitsOnEdge(u, owner) = UnitsIn(u[1], owner) + UnitsIn(u[2], owner)
    BY <1>5, <1>8, UnitsOnEdgeFacts
  <2>3. UnitsOnEdge(t, owner) = UnitsIn(t[1], owner) + UnitsIn(t[2], owner)
    BY <1>8, UnitsOnEdgeFacts
  <2>4. Share(count, side, owner) \in Nat
    BY BoundsAssumption DEF Share
  <2>. QED  BY <1>6, <1>8, <2>1, <2>2, <2>3, <2>4 DEF u, Loaded
<1>. QED  BY <1>7, <1>8

(* And so to those on all edges. *)
LEMMA StartTravelOnEdges ==
  ASSUME NEW E \in Traffic, NEW e \in EdgeIds, NEW side \in Side,
         NEW count \in 1..MaxUnitsPerPlayer, NEW destination \in NodeIds, NEW owner
  PROVE  OnEdges([E EXCEPT ![e] = StartTravel(@, EdgeMap[e].distance, side, count, destination)], owner)
           = OnEdges(E, owner) + Share(count, side, owner)
<1> DEFINE t == StartTravel(E[e], EdgeMap[e].distance, side, count, destination)
           F == [E EXCEPT ![e] = StartTravel(@, EdgeMap[e].distance, side, count, destination)]
<1>1. F \in Traffic
  BY StartTravelTyped
<1>2. F[e] = t /\ \A x \in EdgeIds : x # e => F[x] = E[x]
  <2>1. E = [x \in EdgeIds |-> E[x]] /\ F = [E EXCEPT ![e] = t]
    BY TrafficFacts
  <2> HIDE DEF F, t
  <2>. QED  BY <2>1
<1>3. UnitsOnEdge(t, owner) = UnitsOnEdge(E[e], owner) + Share(count, side, owner)
  <2>1. PICK d \in {1, 2} : d = EdgeMap[e].distance
    BY EdgeFacts
  <2>2. PICK old \in [1..d -> Seq(Groups)] : old = E[e]
    BY <2>1, TrafficFacts
  <2>3. Loaded(old, StartTravel(old, d, side, count, destination), count, side, owner)
    BY StartTravelUnits, Zenon
  <2>. QED  BY <2>1, <2>2, <2>3 DEF Loaded
<1> HIDE DEF F, t
<1>4. OnEdges(F, owner) + UnitsOnEdge(E[e], owner) = OnEdges(E, owner) + UnitsOnEdge(t, owner)
  BY <1>1, <1>2, OnEdgesUpdated
<1>5. OnEdges(F, owner) \in Nat /\ OnEdges(E, owner) \in Nat /\ UnitsOnEdge(E[e], owner) \in Nat
  BY <1>1, OnEdgesIsNat
<1>6. Share(count, side, owner) \in Nat
  BY BoundsAssumption DEF Share
<1>7. OnEdges(F, owner) = OnEdges(E, owner) + Share(count, side, owner)
  BY <1>3, <1>4, <1>5, <1>6
<1>. QED  BY <1>7 DEF F

(* One move that is covered by the units of its node. *)
Total(v, side) == OnNodes(v.nodes, side) + OnEdges(v.edges, side)

(* A move takes units from its node and puts them on an edge: none is      *)
(* lost.                                                                   *)
LEMMA DepartOneKeeps ==
  ASSUME NEW v \in Worlds, NEW side \in Side, NEW m \in Moves,
         m.count <= v.nodes[m.from].mobile[side]
  PROVE  LET u == DepartOne(v, side, m)
         IN  /\ \A n \in NodeIds, s \in Side :
                  u.nodes[n].mobile[s] = v.nodes[n].mobile[s]
                                           - (IF n = m.from /\ s = side THEN m.count ELSE 0)
             /\ \A s \in Side : Total(u, s) = Total(v, s)
<1> DEFINE u == DepartOne(v, side, m)
           x == m.from
           old == v.nodes[x]
           after == DepartMobileUnits(old, side, m.count)
<1>1. v.nodes \in Boards /\ v.edges \in Traffic
  BY DEF Worlds
<1>2. u.nodes \in Boards /\ u.edges \in Traffic
  BY DepartOneTyped DEF Worlds
<1>3. /\ x \in NodeIds /\ m.to \in NodeIds /\ m.edge \in EdgeIds
      /\ m.count \in 1..MaxUnitsPerPlayer /\ m.count \in Nat
  BY BoundsAssumption DEF Moves
<1>4. NodeInv(old) /\ old.mobile \in [Side -> Nat]
  BY <1>1, <1>3 DEF Boards, NodeStates
<1>5. after.mobile = [old.mobile EXCEPT ![side] = IF m.count < @ THEN @ - m.count ELSE 0]
  <2> HIDE DEF old
  <2>. QED  BY <1>3, <1>4, DepartEstablishes
<1>6. \A s \in Side : after.mobile[s] = old.mobile[s] - (IF s = side THEN m.count ELSE 0)
  <2>1. m.count <= old.mobile[side]
    OBVIOUS
  <2> HIDE DEF old, after
  <2>. QED  BY <1>3, <1>4, <1>5, <2>1
<1>7. u.nodes[x] = after /\ \A n \in NodeIds : n # x => u.nodes[n] = v.nodes[n]
  <2>1. u.nodes = [v.nodes EXCEPT ![x] = after]
    BY DEF DepartOne
  <2>2. v.nodes \in [NodeIds -> NodeStates]
    BY <1>1 DEF Boards
  <2> HIDE DEF after, x, u
  <2>. QED  BY <1>3, <2>1, <2>2
<1> HIDE DEF after, u
<1>8. ASSUME NEW n \in NodeIds, NEW s \in Side
      PROVE  u.nodes[n].mobile[s] = v.nodes[n].mobile[s]
                                      - (IF n = m.from /\ s = side THEN m.count ELSE 0)
  <2>1. v.nodes[n].mobile[s] \in Nat
    BY <1>1, MobileIsNat
  <2>2. CASE n = x
    BY <1>6, <1>7, <2>2
  <2>3. CASE n # x
    BY <1>7, <2>1, <2>3
  <2>. QED  BY <2>2, <2>3
<1>9. ASSUME NEW s \in Side PROVE Total(u, s) = Total(v, s)
  <2> DEFINE k == IF side = s THEN m.count ELSE 0
  <2>1. u.edges = [v.edges EXCEPT ![m.edge] =
                     StartTravel(@, EdgeMap[m.edge].distance, side, m.count, m.to)]
    BY DEF u, DepartOne
  <2>2. OnEdges(u.edges, s) = OnEdges(v.edges, s) + Share(m.count, side, s)
    BY <1>1, <1>3, <2>1, StartTravelOnEdges
  <2>3. \A n \in NodeIds : n # x => u.nodes[n].mobile[s] = v.nodes[n].mobile[s]
    BY <1>7
  <2>4. /\ OnNodes(u.nodes, s) + v.nodes[x].mobile[s] = OnNodes(v.nodes, s) + u.nodes[x].mobile[s]
        /\ OnNodes(v.nodes, s) \in Nat /\ OnNodes(u.nodes, s) \in Nat
    BY <1>1, <1>2, <1>3, <2>3, OnNodesUpdated
  <2>5. u.nodes[x].mobile[s] = v.nodes[x].mobile[s] - k /\ k \in Nat /\ k = Share(m.count, side, s)
    BY <1>3, <1>6, <1>7 DEF Share
  <2>6. v.nodes[x].mobile[s] \in Nat /\ OnEdges(v.edges, s) \in Nat
    BY <1>1, <1>3, MobileIsNat, OnEdgesIsNat
  <2> HIDE DEF k
  <2>7. OnNodes(u.nodes, s) + k = OnNodes(v.nodes, s)
    BY <2>4, <2>5, <2>6
  <2>. QED  BY <2>2, <2>4, <2>5, <2>6, <2>7 DEF Total
<1>. QED  BY <1>8, <1>9 DEF u

-----------------------------------------------------------------------------
(* A round takes the groups with no round left off the edges. *)
LEMMA MovedUnits ==
  ASSUME NEW E \in Traffic, NEW s
  PROVE  /\ OnEdges(E, s)
              = OnEdges(Moved(E), s) + SumFunctionOnSet([e \in EdgeIds |-> UnitsIn(E[e][1], s)], EdgeIds)
         /\ \A e \in EdgeIds : E[e][1] \in Seq(Groups) /\ UnitsIn(E[e][1], s) \in Nat
<1> DEFINE F == Moved(E)
           f == [e \in EdgeIds |-> UnitsOnEdge(E[e], s)]
           g == [e \in EdgeIds |-> UnitsOnEdge(F[e], s)]
           h == [e \in EdgeIds |-> UnitsIn(E[e][1], s)]
<1>1. ASSUME NEW e \in EdgeIds
      PROVE  /\ E[e][1] \in Seq(Groups) /\ UnitsIn(E[e][1], s) \in Nat
             /\ UnitsOnEdge(F[e], s) \in Nat
             /\ UnitsOnEdge(E[e], s) = UnitsOnEdge(F[e], s) + UnitsIn(E[e][1], s)
  <2>1. PICK d \in {1, 2} : d = EdgeMap[e].distance
    BY EdgeFacts
  <2>2. PICK old \in [1..d -> Seq(Groups)] : old = E[e]
    BY <2>1, TrafficFacts
  <2>3. PICK new \in [1..d -> Seq(Groups)] : new = F[e]
    BY <2>1, MovedTyped, TrafficFacts
  <2>4. 1 \in 1..d /\ old[1] \in Seq(Groups) /\ UnitsIn(old[1], s) \in Nat
    <3>1. 1 \in 1..d
      OBVIOUS
    <3>2. old[1] \in Seq(Groups)
      BY <3>1
    <3>. QED  BY <3>1, <3>2, UnitsInIsWeight
  <2>5. new = AdvanceRound(old)
    BY <2>2, <2>3 DEF Moved
  <2>6. UnitsIn(<<>>, s) = 0
    BY <2>4, UnitsInFacts
  <2>7. UnitsOnEdge(new, s) \in Nat
    BY UnitsOnEdgeFacts
  <2>8. CASE d = 1
    <3>1. new[1] = <<>>
      BY <2>4, <2>5, <2>8 DEF AdvanceRound
    <3>2. UnitsOnEdge(old, s) = UnitsIn(old[1], s) /\ UnitsOnEdge(new, s) = 0
      BY <2>6, <2>8, <3>1, UnitsOnEdgeFacts
    <3>. QED  BY <2>2, <2>3, <2>4, <3>2
  <2>9. CASE d = 2
    <3>1. new[1] = old[2]
      BY <2>5, <2>9 DEF AdvanceRound
    <3>2. new[2] = <<>>
      BY <2>5, <2>9 DEF AdvanceRound
    <3>3. UnitsOnEdge(old, s) = UnitsIn(old[1], s) + UnitsIn(old[2], s)
      BY <2>9, UnitsOnEdgeFacts
    <3>4. UnitsOnEdge(new, s) = UnitsIn(new[1], s) + UnitsIn(new[2], s)
      BY <2>9, UnitsOnEdgeFacts
    <3>5. old[2] \in Seq(Groups)
      BY <2>9
    <3>6. UnitsIn(old[2], s) \in Nat
      BY <3>5, UnitsInIsWeight
    <3>. QED  BY <2>2, <2>3, <2>4, <2>6, <3>1, <3>2, <3>3, <3>4, <3>6
  <2>. QED  BY <2>2, <2>3, <2>4, <2>7, <2>8, <2>9
<1> HIDE DEF F
<1>2. \A e \in EdgeIds : /\ g[e] \in Nat /\ h[e] \in Nat /\ f[e] = g[e] + h[e]
  BY <1>1
<1>3. OnEdges(E, s) = SumFunctionOnSet(f, EdgeIds) /\ OnEdges(F, s) = SumFunctionOnSet(g, EdgeIds)
  BY DEF OnEdges, SumFunction
<1>4. IsFiniteSet(EdgeIds)
  BY EdgeFacts, FS_Interval
<1> HIDE DEF f, g
<1>5. SumFunctionOnSet(f, EdgeIds) = SumFunctionOnSet(g, EdgeIds) + SumFunctionOnSet(h, EdgeIds)
  <2> HIDE DEF h
  <2>. QED  BY <1>2, <1>4, SumOfSums
<1>. QED  BY <1>1, <1>3, <1>5 DEF F

(* The units that arrive are those. *)
Brings(s) == [a \in Arrivings |-> CountOf(s)[a.group]]

(* What an arrival brings a side. *)
LEMMA BringsFacts ==
  ASSUME NEW s
  PROVE  /\ Brings(s) \in [Arrivings -> Nat]
         /\ \A a \in Arrivings : Brings(s)[a] = Share(a.group.count, a.group.side, s)
<1>1. \A a \in Arrivings : a.group \in Groups
  BY DEF Arrivings
<1>2. \A a \in Arrivings : CountOf(s)[a.group] \in Nat
  BY <1>1, CountOfFacts
<1>3. Brings(s) \in [Arrivings -> Nat]
  BY <1>2 DEF Brings
<1>4. \A a \in Arrivings : CountOf(s)[a.group] = Share(a.group.count, a.group.side, s)
  BY <1>1, CountOfFacts DEF Share
<1>. QED  BY <1>3, <1>4 DEF Brings

(* The arrivals bring the units that stand at the end of their edges. *)
LEMMA ArrivalsUnits ==
  ASSUME NEW E \in Traffic, NEW s
  PROVE  Weight(Arrivals(E), Brings(s))
           = SumFunctionOnSet([e \in EdgeIds |-> UnitsIn(E[e][1], s)], EdgeIds)
<1> DEFINE on(e) == [i \in DOMAIN Arrived(E[e]) |-> [group |-> Arrived(E[e])[i], via |-> e]]
           seqs == [e \in EdgeIds |-> on(e)]
<1>1. PICK m \in Nat : EdgeIds = 1..m
  BY EdgeFacts
<1>2. ASSUME NEW e \in EdgeIds
      PROVE  /\ on(e) \in Seq(Arrivings)
             /\ Weight(on(e), Brings(s)) = UnitsIn(E[e][1], s)
  <2> DEFINE q == Arrived(E[e])
  <2>1. q \in Seq(Groups) /\ q = E[e][1]
    BY MovedUnits DEF Arrived
  <2>2. Len(q) \in Nat /\ DOMAIN q = 1..Len(q) /\ \A i \in 1..Len(q) : q[i] \in Groups
    BY <2>1, LenProperties, ElementOfSeq
  <2> HIDE DEF q
  <2>3. \A i \in 1..Len(q) : [group |-> q[i], via |-> e] \in Arrivings
    BY <2>2 DEF Arrivings
  <2>4. on(e) = [i \in 1..Len(q) |-> [group |-> q[i], via |-> e]]
    BY <2>2 DEF q
  <2> HIDE DEF on
  <2>5. /\ on(e) = [i \in 1..Len(q) |-> on(e)[i]]
        /\ \A i \in 1..Len(q) : on(e)[i] \in Arrivings /\ on(e)[i].group = q[i]
    BY <2>3, <2>4
  <2>6. on(e) \in Seq(Arrivings) /\ Len(on(e)) = Len(q)
    BY <2>2, <2>5, SeqByElements
  <2>7. \A i \in 1..Len(q) : Brings(s)[on(e)[i]] = CountOf(s)[q[i]]
    BY <2>5 DEF Brings
  <2>8. [i \in 1..Len(on(e)) |-> Brings(s)[on(e)[i]]] = [i \in 1..Len(q) |-> CountOf(s)[q[i]]]
    BY <2>6, <2>7
  <2>9. Weight(on(e), Brings(s)) = Weight(q, CountOf(s))
    BY <2>6, <2>8 DEF Weight
  <2>. QED  BY <2>1, <2>6, <2>9, UnitsInIsWeight
<1> HIDE DEF on
<1>3. seqs \in Seq(Seq(Arrivings)) /\ Len(seqs) = m
  <2>1. seqs = [e \in 1..m |-> seqs[e]] /\ \A e \in 1..m : seqs[e] \in Seq(Arrivings)
    BY <1>1, <1>2
  <2> HIDE DEF seqs
  <2>. QED  BY <2>1, SeqByElements
<1>4. Arrivals(E) = FlattenSeq(seqs)
  BY DEF Arrivals, on
<1>5. [i \in 1..Len(seqs) |-> Weight(seqs[i], Brings(s))] = [e \in EdgeIds |-> UnitsIn(E[e][1], s)]
  <2>1. \A e \in EdgeIds : Weight(seqs[e], Brings(s)) = UnitsIn(E[e][1], s)
    BY <1>2
  <2> HIDE DEF seqs
  <2>. QED  BY <1>1, <1>3, <2>1
<1> HIDE DEF seqs
<1>6. Weight(FlattenSeq(seqs), Brings(s))
        = SumFunctionOnSet([i \in 1..Len(seqs) |-> Weight(seqs[i], Brings(s))], 1..Len(seqs))
  BY <1>3, BringsFacts, WeightOfFlattened
<1>. QED  BY <1>1, <1>3, <1>4, <1>5, <1>6

(* A group that arrives adds its units to the node. *)
LEMMA ArriveOneUnits ==
  ASSUME NEW N \in Boards, NEW a \in Arrivings, NEW s \in Side
  PROVE  OnNodes(ArriveOne(N, a), s) = OnNodes(N, s) + Brings(s)[a] /\ OnNodes(N, s) \in Nat
<1> DEFINE x == a.group.destination
           M == ArriveOne(N, a)
           after == ArriveMobileUnits(N[x], a.group.side, a.group.count)
           k == Share(a.group.count, a.group.side, s)
<1>1. a.group \in Groups
  BY DEF Arrivings
<1>2. x \in NodeIds /\ a.group.side \in Side /\ a.group.count \in Nat
  BY <1>1, BoundsAssumption DEF Groups
<1>3. NodeInv(N[x]) /\ N[x] \in NodeStates /\ N \in [NodeIds -> NodeStates]
  BY <1>2 DEF Boards
<1>4. after.mobile = [N[x].mobile EXCEPT ![a.group.side] = @ + a.group.count]
  <2> HIDE DEF x
  <2>. QED  BY <1>2, <1>3, ArriveEstablishes
<1>5. N[x].mobile \in [Side -> Nat] /\ k \in Nat
  BY <1>2, <1>3 DEF NodeStates, Share
<1>6. after.mobile[s] = N[x].mobile[s] + k
  <2> HIDE DEF after, x
  <2>. QED  BY <1>2, <1>4, <1>5 DEF Share
<1>7. M[x] = after /\ \A n \in NodeIds : n # x => M[n] = N[n]
  <2>1. M = [N EXCEPT ![x] = after]
    BY DEF ArriveOne
  <2> HIDE DEF M, x, after
  <2>. QED  BY <1>2, <1>3, <2>1
<1>8. M \in Boards
  BY ArriveOneTyped
<1> HIDE DEF M, x, after
<1>9. /\ OnNodes(M, s) + N[x].mobile[s] = OnNodes(N, s) + M[x].mobile[s]
      /\ OnNodes(N, s) \in Nat /\ OnNodes(M, s) \in Nat
  BY <1>2, <1>7, <1>8, OnNodesUpdated
<1>10. N[x].mobile[s] \in Nat /\ M[x].mobile[s] = N[x].mobile[s] + k
  BY <1>2, <1>6, <1>7, MobileIsNat
<1>11. OnNodes(M, s) = OnNodes(N, s) + k
  <2> HIDE DEF k
  <2>. QED  BY <1>5, <1>9, <1>10
<1>. QED  BY <1>9, <1>11, BringsFacts DEF M

(* So do all that arrive. *)
LEMMA ArriveUnits ==
  ASSUME NEW N \in Boards, NEW q \in Seq(Arrivings), NEW s \in Side
  PROVE  OnNodes(Arrive(N, q), s) = OnNodes(N, s) + Weight(q, Brings(s))
<1>1. PICK n \in Nat : n = Len(q) /\ DOMAIN q = 1..n /\ \A i \in 1..n : q[i] \in Arrivings
  BY LenProperties, ElementOfSeq
<1>2. PICK run \in [0..n -> Boards] :
        /\ run[0] = N
        /\ \A i \in 1..n : run[i] = ArriveOne(run[i - 1], q[i])
        /\ Arrive(N, q) = run[n]
  BY <1>1, ArriveRun
<1> DEFINE f == [i \in 1..n |-> Brings(s)[q[i]]]
           I == {k \in Nat : k <= n => OnNodes(run[k], s) = OnNodes(N, s) + SumFunctionOnSet(f, 1..k)}
<1>3. \A i \in 1..n : f[i] = Brings(s)[q[i]] /\ f[i] \in Nat
  BY <1>1, BringsFacts
<1> HIDE DEF f
<1>4. OnNodes(N, s) \in Nat
  BY OnNodesIsNat
<1>5. 0 \in I
  <2>1. 1..0 = {}
    OBVIOUS
  <2>2. SumFunctionOnSet(f, 1..0) = 0
    BY <2>1, SumOfNone
  <2>. QED  BY <1>2, <1>4, <2>2
<1>6. ASSUME NEW k \in Nat, k \in I PROVE k + 1 \in I
  <2> SUFFICES ASSUME k + 1 <= n
               PROVE  OnNodes(run[k + 1], s) = OnNodes(N, s) + SumFunctionOnSet(f, 1..k + 1)
    OBVIOUS
  <2>1. k + 1 \in 1..n /\ (k + 1) - 1 = k /\ k \in 0..n /\ 1..k + 1 \subseteq 1..n /\ 1..k \subseteq 1..n
    OBVIOUS
  <2>2. OnNodes(run[k], s) = OnNodes(N, s) + SumFunctionOnSet(f, 1..k)
    BY <1>6, <2>1
  <2>3. OnNodes(run[k + 1], s) = OnNodes(run[k], s) + f[k + 1]
    <3>1. run[k + 1] = ArriveOne(run[k], q[k + 1]) /\ run[k] \in Boards /\ q[k + 1] \in Arrivings
      BY <1>1, <1>2, <2>1
    <3>2. f[k + 1] = Brings(s)[q[k + 1]]
      BY <1>3, <2>1
    <3>. QED  BY <3>1, <3>2, ArriveOneUnits
  <2>4. SumFunctionOnSet(f, 1..k + 1) = SumFunctionOnSet(f, 1..k) + f[k + 1]
    <3>1. \A i \in 1..k + 1 : f[i] \in Nat
      BY <1>3, <2>1
    <3>. QED  BY <3>1, SumUpto
  <2>5. SumFunctionOnSet(f, 1..k) \in Nat /\ f[k + 1] \in Nat
    <3>1. \A i \in 1..k : f[i] \in Nat
      BY <1>3, <2>1
    <3>2. IsFiniteSet(1..k)
      BY IntervalIsFinite
    <3>. QED  BY <1>3, <2>1, <3>1, <3>2, SumIsNat
  <2>. QED  BY <1>4, <2>2, <2>3, <2>4, <2>5
<1>7. n \in I
  <2> HIDE DEF I
  <2>. QED  BY <1>5, <1>6, NatSetInduction
<1>8. Weight(q, Brings(s)) = SumFunctionOnSet(f, 1..n)
  BY <1>1 DEF Weight, f
<1>. QED  BY <1>2, <1>7, <1>8

(* Stages 2 to 4 give a side no unit: those that meet the enemy on the way  *)
(* may even lose some, when their like is left out of the arrivals. *)
RoundEnd(v, blocked) ==
  [nodes |-> Arrive(v.nodes, Filtered(Arrivals(v.edges), LAMBDA a : a \notin blocked)),
   edges |-> Moved(v.edges)]

(* The end of a round makes no unit. *)
LEMMA RoundEndUnits ==
  ASSUME NEW v \in Worlds, NEW blocked, NEW s \in Side
  PROVE  /\ Total(RoundEnd(v, blocked), s) <= Total(v, s)
         /\ Total(RoundEnd(v, blocked), s) \in Nat /\ Total(v, s) \in Nat
<1> DEFINE all == Arrivals(v.edges)
           K == {i \in 1..Len(all) : all[i] \notin blocked}
           arriving == Picked(all, K)
           board == Arrive(v.nodes, arriving)
<1>1. v.nodes \in Boards /\ v.edges \in Traffic
  BY DEF Worlds
<1>2. RoundEnd(v, blocked) = [nodes |-> board, edges |-> Moved(v.edges)]
  BY DEF RoundEnd, Filtered
<1>3. all \in Seq(Arrivings) /\ K \in SUBSET (1..Len(all))
  BY <1>1, ArrivalsTyped
<1> HIDE DEF all, K
<1>4. arriving \in Seq(Arrivings)
  BY <1>3, PickedElements
<1>5. Weight(arriving, Brings(s)) <= Weight(all, Brings(s))
  BY <1>3, BringsFacts, WeightOfPicked
<1>6. Weight(arriving, Brings(s)) \in Nat /\ Weight(all, Brings(s)) \in Nat
  BY <1>3, <1>4, BringsFacts, WeightIsNat
<1> HIDE DEF arriving
<1>7. OnNodes(board, s) = OnNodes(v.nodes, s) + Weight(arriving, Brings(s))
  BY <1>1, <1>4, ArriveUnits
<1>8. OnEdges(v.edges, s) = OnEdges(Moved(v.edges), s) + Weight(all, Brings(s))
  BY <1>1, MovedUnits, ArrivalsUnits DEF all
<1>9. OnNodes(v.nodes, s) \in Nat
  BY <1>1, OnNodesIsNat
<1>10. OnEdges(Moved(v.edges), s) \in Nat
  BY <1>1, MovedTyped, OnEdgesIsNat
<1> HIDE DEF board
<1>11. Total(RoundEnd(v, blocked), s) = OnNodes(board, s) + OnEdges(Moved(v.edges), s)
  BY <1>2 DEF Total
<1>. QED  BY <1>5, <1>6, <1>7, <1>8, <1>9, <1>10, <1>11 DEF Total

-----------------------------------------------------------------------------
(* The edges and the pending encounters of a room. *)
Rooms == {b \in [edges : Traffic, pending : Seq(Pendings)] : Current(b.pending, b.edges)}

(* What a decision leaves: the encounter is decided by the side, or gone.   *)
Decided(P, e, side, decision, Q) ==
  /\ \A j \in 1..Len(Q) : \E i \in 1..Len(P) :
       /\ Q[j].edge = P[i].edge
       /\ Q[j].decision[Enemy(side)] = P[i].decision[Enemy(side)]
       /\ P[i].edge = e => Q[j].decision[side] = decision
       /\ P[i].edge # e => Q[j] = P[i]
  /\ \A i \in 1..Len(P) : P[i].edge # e => \E j \in 1..Len(Q) : Q[j] = P[i]

(* A decision leaves a room, in which it is recorded and no other changes. *)
LEMMA DecideFacts ==
  ASSUME NEW b \in Rooms, NEW e \in EdgeIds, NEW side \in Side, NEW decision \in Decisions,
         MayDecide(b.pending, e, side)
  PROVE  /\ Decide(b, e, side, decision) \in Rooms
         /\ Decided(b.pending, e, side, decision, Decide(b, e, side, decision).pending)
<1> DEFINE P == b.pending
           E == b.edges
           i == FirstOn(P, e)
           decided == [P[i] EXCEPT !.decision[side] = decision]
           F == IF decision = "Retreat" THEN Retreated(E, e, side, decided.groups[side]) ELSE E
           Q == IF BothDecided(decided) THEN RemoveAt(P, i) ELSE [P EXCEPT ![i] = decided]
           c == Decide(b, e, side, decision)
<1>1. c = [edges |-> F, pending |-> Q]
  BY DEF Decide, Retreated
<1>2. P \in Seq(Pendings) /\ E \in Traffic /\ Current(P, E)
  BY DEF Rooms
<1>3. i \in 1..Len(P) /\ P[i].edge = e /\ ~ HasDecided(P[i], side)
  BY <1>2, FirstOnFacts DEF MayDecide
<1>4. PICK n \in Nat : n = Len(P) /\ DOMAIN P = 1..n /\ P = [k \in 1..n |-> P[k]]
  BY <1>2, LenProperties
<1>5. \A k \in 1..n : P[k] \in Pendings
  BY <1>2, <1>4, ElementOfSeq
<1>6. \A k \in 1..n : P[k].edge = e => k = i
  BY <1>2, <1>3, <1>4 DEF Current
<1> HIDE DEF P, E, i
<1>7. /\ decided \in Pendings /\ decided.edge = e /\ decided.groups = P[i].groups
      /\ decided.decision[side] = decision
      /\ \A s \in Side : s # side => decided.decision[s] = P[i].decision[s]
  BY <1>3, <1>4, <1>5 DEF Pendings
<1>8. decided.groups[side] \in Groups
  BY <1>7 DEF Pendings
<1>9. /\ F \in Traffic
      /\ \A x \in EdgeIds : x # e => F[x] = E[x]
      /\ \A g \in Groups : g.side # side /\ Contains(E[e][1], g) => Contains(F[e][1], g)
  <2>1. CASE decision = "Retreat"
    BY <1>2, <1>8, <2>1, RetreatFacts
  <2>2. CASE decision # "Retreat"
    BY <1>2, <2>2
  <2>. QED  BY <2>1, <2>2
<1>10. ASSUME NEW k \in 1..n, NEW s \in Side
       PROVE  /\ P[k].groups[s].side = s /\ P[k].groups[s] \in Groups /\ P[k].edge \in EdgeIds
              /\ P[k].decision[s] # "Retreat" => Contains(E[P[k].edge][1], P[k].groups[s])
  BY <1>2, <1>4, <1>5 DEF Current, Pendings
<1>11. ASSUME NEW k \in 1..n, k # i, NEW s \in Side, P[k].decision[s] # "Retreat"
       PROVE  Contains(F[P[k].edge][1], P[k].groups[s])
  BY <1>6, <1>9, <1>10, <1>11
<1>12. ASSUME NEW s \in Side, decided.decision[s] # "Retreat"
       PROVE  Contains(F[e][1], decided.groups[s])
  <2>1. CASE s = side
    <3>1. F = E /\ P[i].decision[side] # "Retreat"
      BY <1>3, <1>7, <1>12, <2>1 DEF HasDecided, Undecided
    <3>. QED  BY <1>3, <1>4, <1>7, <1>10, <2>1, <3>1
  <2>2. CASE s # side
    <3> DEFINE g == P[i].groups[s]
    <3>1. P[i].edge = e /\ i \in 1..n /\ P[i].decision[s] # "Retreat" /\ decided.groups[s] = g
      BY <1>3, <1>4, <1>7, <1>12, <2>2
    <3>2. g \in Groups /\ g.side # side /\ Contains(E[e][1], g)
      BY <1>10, <2>2, <3>1
    <3> HIDE DEF g
    <3>. QED  BY <1>9, <3>1, <3>2
  <2>. QED  BY <2>1, <2>2
<1>13. \A s \in Side : s # side <=> s = Enemy(side)
  BY DEF Enemy, Side
<1>14. Enemy(side) \in Side
  BY DEF Enemy, Side
<1> HIDE DEF F, decided
<1>15. CASE BothDecided(decided)
  <2>1. Q = RemoveAt(P, i)
    BY <1>15
  <2> HIDE DEF Q
  <2>2. /\ Q \in Seq(Pendings) /\ Len(Q) = n - 1
        /\ \A j \in 1..n - 1 : Q[j] = IF j < i THEN P[j] ELSE P[j + 1]
    BY <1>2, <1>3, <1>4, <2>1, RemoveAtFacts
  <2> DEFINE back(j) == IF j < i THEN j ELSE j + 1
  <2>3. ASSUME NEW j \in 1..Len(Q)
        PROVE  back(j) \in 1..n /\ back(j) # i /\ Q[j] = P[back(j)] /\ P[back(j)].edge # e
    <3>1. j \in 1..n - 1 /\ i \in 1..n
      BY <1>3, <1>4, <2>2
    <3>2. back(j) \in 1..n /\ back(j) # i
      BY <3>1
    <3>3. Q[j] = P[back(j)]
      BY <2>2, <3>1
    <3> HIDE DEF back
    <3>. QED  BY <1>6, <3>2, <3>3
  <2>4. \A j, k \in 1..Len(Q) : back(j) = back(k) => j = k
    BY <1>3, <1>4, <2>2
  <2>5. ASSUME NEW k \in 1..n, P[k].edge # e PROVE \E j \in 1..Len(Q) : Q[j] = P[k]
    <3> DEFINE j == IF k < i THEN k ELSE k - 1
    <3>1. k # i
      BY <1>3, <2>5
    <3>2. i \in 1..n /\ Len(Q) = n - 1
      BY <1>3, <1>4, <2>2
    <3>3. j \in 1..n - 1 /\ IF j < i THEN j = k ELSE j + 1 = k
      BY <3>1, <3>2
    <3> HIDE DEF j
    <3>4. Q[j] = P[k]
      BY <2>2, <3>3
    <3>. QED  BY <3>2, <3>3, <3>4
  <2> HIDE DEF back
  <2>6. Current(Q, F)
    <3>1. \A j, k \in 1..Len(Q) : Q[j].edge = Q[k].edge => j = k
      BY ZenonT(60), <1>2, <1>4, <2>3, <2>4 DEF Current
    <3>2. \A j \in 1..Len(Q) : ~ BothDecided(Q[j])
      BY <1>2, <1>4, <2>3 DEF Current
    <3>3. ASSUME NEW j \in 1..Len(Q), NEW s \in Side
          PROVE  /\ Q[j].groups[s].side = s
                 /\ Q[j].decision[s] # "Retreat" => Contains(F[Q[j].edge][1], Q[j].groups[s])
      BY <1>10, <1>11, <2>3
    <3>. QED  BY <2>2, <3>1, <3>2, <3>3 DEF Current
  <2>7. Decided(P, e, side, decision, Q)
    BY <1>4, <2>3, <2>5 DEF Decided
  <2>8. [edges |-> F, pending |-> Q] \in Rooms
    BY <1>9, <2>2, <2>6 DEF Rooms
  <2>. QED  BY <1>1, <2>7, <2>8 DEF P
<1>16. CASE ~ BothDecided(decided)
  <2>1. Q = [P EXCEPT ![i] = decided]
    BY <1>16
  <2> HIDE DEF Q
  <2>2. /\ Q = [k \in 1..n |-> Q[k]] /\ Q[i] = decided
        /\ \A k \in 1..n : k # i => Q[k] = P[k]
    BY <1>3, <1>4, <2>1
  <2>3. Q \in Seq(Pendings) /\ Len(Q) = n
    <3>1. \A k \in 1..n : Q[k] \in Pendings
      BY <1>5, <1>7, <2>2
    <3>. QED  BY <2>2, <3>1, SeqByElements
  <2>4. \A k \in 1..n : Q[k].edge = P[k].edge
    BY <1>3, <1>7, <2>2
  <2>5. Current(Q, F)
    <3>1. \A j, k \in 1..Len(Q) : Q[j].edge = Q[k].edge => j = k
      BY <1>2, <1>4, <2>3, <2>4 DEF Current
    <3>2. \A j \in 1..Len(Q) : ~ BothDecided(Q[j])
      BY <1>2, <1>4, <1>16, <2>2, <2>3 DEF Current
    <3>3. ASSUME NEW j \in 1..Len(Q), NEW s \in Side
          PROVE  /\ Q[j].groups[s].side = s
                 /\ Q[j].decision[s] # "Retreat" => Contains(F[Q[j].edge][1], Q[j].groups[s])
      <4>1. j \in 1..n
        BY <2>3
      <4>2. CASE j = i
        <5>1. Q[j] = decided /\ decided.edge = e /\ decided.groups[s].side = s
          <6>1. i \in 1..n
            BY <1>3, <1>4
          <6>2. P[i].groups[s].side = s
            BY <1>10, <6>1
          <6>. QED  BY <1>7, <2>2, <4>2, <6>2
        <5>. QED  BY <1>12, <5>1
      <4>3. CASE j # i
        BY <1>10, <1>11, <2>2, <4>1, <4>3
      <4>. QED  BY <4>2, <4>3
    <3>. QED  BY <2>3, <3>1, <3>2, <3>3 DEF Current
  <2>6. Decided(P, e, side, decision, Q)
    <3>1. ASSUME NEW j \in 1..n
          PROVE  /\ Q[j].edge = P[j].edge
                 /\ Q[j].decision[Enemy(side)] = P[j].decision[Enemy(side)]
                 /\ P[j].edge = e => Q[j].decision[side] = decision
                 /\ P[j].edge # e => Q[j] = P[j]
      <4>1. CASE j = i
        BY <1>3, <1>7, <1>13, <1>14, <2>2, <4>1
      <4>2. CASE j # i
        BY <1>6, <2>2, <4>2
      <4>. QED  BY <4>1, <4>2
    <3>. QED  BY <1>4, <2>3, <3>1 DEF Decided
  <2>7. [edges |-> F, pending |-> Q] \in Rooms
    BY <1>9, <2>3, <2>5 DEF Rooms
  <2>. QED  BY <1>1, <2>6, <2>7 DEF P
<1>. QED  BY <1>15, <1>16

(* A retreat leaves no unit more on the edges: the group that turns round   *)
(* is one of those that are taken off. *)
LEMMA RetreatKeeps ==
  ASSUME NEW E \in Traffic, NEW e \in EdgeIds, NEW side \in Side, NEW group \in Groups,
         group.side = side, Contains(E[e][1], group), NEW s \in Side
  PROVE  OnEdges(Retreated(E, e, side, group), s) <= OnEdges(E, s)
<1> DEFINE t == RemoveTravelingGroup(E[e], side)
           back == Opposite(e, group.destination)
           F == Retreated(E, e, side, group)
<1>1. PICK d \in {1, 2} : d = EdgeMap[e].distance
  BY EdgeFacts
<1>2. PICK old \in [1..d -> Seq(Groups)] : old = E[e]
  BY <1>1, TrafficFacts
<1>3. ASSUME NEW k \in 1..d
      PROVE  /\ t[k] \in Seq(Groups) /\ UnitsIn(t[k], s) <= UnitsIn(old[k], s)
             /\ UnitsIn(t[k], s) \in Nat /\ UnitsIn(old[k], s) \in Nat
             /\ UnitsIn(t[k], side) = 0
  <2> DEFINE q == old[k]
             K == {i \in 1..Len(q) : q[i].side # side}
  <2>1. q \in Seq(Groups) /\ K \in SUBSET (1..Len(q)) /\ \A i \in K : q[i].side # side
    OBVIOUS
  <2>2. t[k] = Picked(q, K)
    BY <1>2 DEF RemoveTravelingGroup, Filtered
  <2> HIDE DEF q, K, t
  <2>3. t[k] \in Seq(Groups) /\ \A j \in 1..Len(t[k]) : t[k][j].side # side
    BY <2>1, <2>2, PickedElements
  <2>4. UnitsIn(t[k], s) <= UnitsIn(q, s)
    BY <2>1, <2>2, UnitsInFacts
  <2>. QED  BY <2>1, <2>3, <2>4, UnitsInFacts, UnitsInIsWeight DEF q
<1>4. t \in [1..d -> Seq(Groups)]
  <2>1. t = [k \in 1..d |-> t[k]]
    BY <1>2 DEF RemoveTravelingGroup
  <2> HIDE DEF t
  <2>. QED  BY <1>3, <2>1
<1>5. group.count \in 1..MaxUnitsPerPlayer /\ back \in NodeIds
  BY EdgeFacts DEF Groups, Opposite
<1>6. F \in Traffic /\ \A x \in EdgeIds : x # e => F[x] = E[x]
  BY RetreatFacts
<1>7. F[e] = StartTravel(t, d, side, group.count, back)
  <2>1. E = [x \in EdgeIds |-> E[x]]
    BY TrafficFacts
  <2> HIDE DEF t, back
  <2>. QED  BY <1>1, <2>1 DEF Retreated, t, back
<1> HIDE DEF F, t, back
<1>8. UnitsOnEdge(F[e], s) = UnitsOnEdge(t, s) + Share(group.count, side, s)
  <2>1. Loaded(t, StartTravel(t, d, side, group.count, back), group.count, side, s)
    BY <1>4, <1>5, StartTravelUnits, Zenon
  <2>. QED  BY <1>7, <2>1 DEF Loaded
<1>9. group.count \in Nat /\ Share(group.count, side, s) \in Nat
  BY <1>5, BoundsAssumption DEF Share
<1>10. 1 \in 1..d /\ (d = 2 => 2 \in 1..d)
  OBVIOUS
<1>11. UnitsIn(t[1], s) + Share(group.count, side, s) <= UnitsIn(old[1], s)
  <2>1. CASE s = side
    <3>1. group.count <= UnitsIn(old[1], side)
      BY <1>2, <1>10, UnitsInFacts
    <3>. QED  BY <1>3, <1>9, <1>10, <2>1, <3>1 DEF Share
  <2>2. CASE s # side
    BY <1>3, <1>10, <2>2 DEF Share
  <2>. QED  BY <2>1, <2>2
<1>12. UnitsOnEdge(F[e], s) <= UnitsOnEdge(E[e], s)
  <2>1. CASE d = 1
    <3>1. UnitsOnEdge(t, s) = UnitsIn(t[1], s) /\ UnitsOnEdge(old, s) = UnitsIn(old[1], s)
      BY <1>4, <2>1, UnitsOnEdgeFacts
    <3>. QED  BY <1>2, <1>8, <1>11, <3>1
  <2>2. CASE d = 2
    <3>1. UnitsOnEdge(t, s) = UnitsIn(t[1], s) + UnitsIn(t[2], s)
      BY <1>4, <2>2, UnitsOnEdgeFacts
    <3>2. UnitsOnEdge(old, s) = UnitsIn(old[1], s) + UnitsIn(old[2], s)
      BY <2>2, UnitsOnEdgeFacts
    <3>3. /\ UnitsIn(t[2], s) <= UnitsIn(old[2], s)
          /\ UnitsIn(t[1], s) \in Nat /\ UnitsIn(t[2], s) \in Nat
          /\ UnitsIn(old[1], s) \in Nat /\ UnitsIn(old[2], s) \in Nat
      BY <1>3, <1>10, <2>2
    <3>. QED  BY <1>2, <1>8, <1>9, <1>11, <3>1, <3>2, <3>3
  <2>. QED  BY <2>1, <2>2
<1>13. OnEdges(F, s) + UnitsOnEdge(E[e], s) = OnEdges(E, s) + UnitsOnEdge(F[e], s)
  BY <1>6, OnEdgesUpdated
<1>14. /\ OnEdges(F, s) \in Nat /\ OnEdges(E, s) \in Nat
       /\ UnitsOnEdge(E[e], s) \in Nat /\ UnitsOnEdge(F[e], s) \in Nat
  BY <1>6, OnEdgesIsNat
<1>15. OnEdges(F, s) <= OnEdges(E, s)
  BY <1>12, <1>13, <1>14
<1>. QED  BY <1>15 DEF F

(* Nor does a decision. *)
LEMMA DecideKeeps ==
  ASSUME NEW b \in Rooms, NEW e \in EdgeIds, NEW side \in Side, NEW decision \in Decisions,
         MayDecide(b.pending, e, side), NEW s \in Side
  PROVE  OnEdges(Decide(b, e, side, decision).edges, s) <= OnEdges(b.edges, s)
<1> DEFINE P == b.pending
           E == b.edges
           i == FirstOn(P, e)
           group == P[i].groups[side]
           decided == [P[i] EXCEPT !.decision[side] = decision]
<1>1. P \in Seq(Pendings) /\ E \in Traffic /\ Current(P, E)
  BY DEF Rooms
<1>2. i \in 1..Len(P) /\ P[i].edge = e /\ ~ HasDecided(P[i], side)
  BY <1>1, FirstOnFacts DEF MayDecide
<1>3. P[i] \in Pendings
  BY <1>1, <1>2, ElementOfSeq
<1>4. group \in Groups /\ decided.groups[side] = group
  BY <1>3 DEF Pendings
<1>5. group.side = side /\ Contains(E[e][1], group)
  BY <1>1, <1>2 DEF Current, HasDecided, Undecided
<1>6. Decide(b, e, side, decision).edges =
        IF decision = "Retreat" THEN Retreated(E, e, side, group) ELSE E
  BY <1>4 DEF Decide, Retreated
<1> HIDE DEF E, group
<1>7. CASE decision = "Retreat"
  BY <1>1, <1>4, <1>5, <1>6, <1>7, RetreatKeeps DEF E
<1>8. CASE decision # "Retreat"
  BY <1>1, <1>6, <1>8, OnEdgesIsNat DEF E
<1>. QED  BY <1>7, <1>8

(* The timeout.  q are the encounters the side has not decided, f[K] what   *)
(* is left of b when those of q with a place in K have been decided, the    *)
(* last of them last: each is still there when its turn comes. *)
Retreating(b, side, q, n, f) ==
  /\ f[{}] = b
  /\ \A K \in SUBSET (1..n) :
       K # {} /\ MayDecide(f[K \ {Max(K)}].pending, q[Max(K)].edge, side) =>
         f[K] = Decide(f[K \ {Max(K)}], q[Max(K)].edge, side, "Retreat")

Open(b, side, q, n) ==
  /\ n \in Nat /\ q \in [1..n -> Pendings]
  /\ \A j \in 1..n : ~ HasDecided(q[j], side) /\ \E i \in 1..Len(b.pending) : b.pending[i] = q[j]
  /\ \A j, k \in 1..n : q[j].edge = q[k].edge => j = k
  /\ \A i \in 1..Len(b.pending) :
       ~ HasDecided(b.pending[i], side) => \E j \in 1..n : q[j] = b.pending[i]

Remaining(b, side, q, n, K, c) ==
  /\ c \in Rooms /\ \A s \in Side : OnEdges(c.edges, s) <= OnEdges(b.edges, s)
  /\ \A j \in (1..n) \ K : \E i \in 1..Len(c.pending) : c.pending[i] = q[j]
  /\ \A i \in 1..Len(c.pending) :
       HasDecided(c.pending[i], side) \/ \E j \in (1..n) \ K : c.pending[i].edge = q[j].edge
  /\ (\A i \in 1..Len(b.pending) : HasDecided(b.pending[i], Enemy(side))) =>
       \A i \in 1..Len(c.pending) : HasDecided(c.pending[i], Enemy(side))

(* One more retreat of an undecided side. *)
LEMMA RetreatStep ==
  ASSUME NEW b \in Rooms, NEW side \in Side, NEW q, NEW n, Open(b, side, q, n),
         NEW K \in SUBSET (1..n), NEW x \in K, NEW c, Remaining(b, side, q, n, K \ {x}, c)
  PROVE  /\ q[x].edge \in EdgeIds /\ MayDecide(c.pending, q[x].edge, side)
         /\ Remaining(b, side, q, n, K, Decide(c, q[x].edge, side, "Retreat"))
<1> DEFINE e == q[x].edge
           d == Decide(c, e, side, "Retreat")
           P == c.pending
           Q == d.pending
<1>1. x \in 1..n /\ e \in EdgeIds /\ c \in Rooms /\ ~ HasDecided(q[x], side)
  BY DEF Open, Pendings, Remaining
<1>2. P \in Seq(Pendings) /\ \A i, j \in 1..Len(P) : P[i].edge = P[j].edge => i = j
  BY <1>1 DEF Rooms, Current
<1>3. PICK i0 \in 1..Len(P) : P[i0] = q[x]
  BY <1>1 DEF Remaining
<1>4. FirstOn(P, e) = i0
  BY <1>2, <1>3, FirstOnFacts
<1>5. MayDecide(P, e, side)
  <2>1. i0 # 0
    BY <1>2, LenProperties
  <2>. QED  BY <1>1, <1>3, <1>4, <2>1 DEF MayDecide
<1>6. d \in Rooms /\ Decided(P, e, side, "Retreat", Q)
  BY <1>1, <1>5, DecideFacts DEF Decisions
<1> HIDE DEF d
<1>7. ASSUME NEW j \in (1..n) \ K PROVE \E i \in 1..Len(Q) : Q[i] = q[j]
  <2>1. j \in (1..n) \ (K \ {x}) /\ j # x
    OBVIOUS
  <2>2. q[j].edge # e
    BY <1>1, <2>1 DEF Open
  <2>3. PICK i \in 1..Len(P) : P[i] = q[j]
    BY <2>1 DEF Remaining
  <2>. QED  BY <1>6, <2>2, <2>3 DEF Decided
<1>8. ASSUME NEW i \in 1..Len(Q), ~ HasDecided(Q[i], side)
      PROVE  \E j \in (1..n) \ K : Q[i].edge = q[j].edge
  <2>1. PICK k \in 1..Len(P) :
          /\ Q[i].edge = P[k].edge
          /\ P[k].edge = e => Q[i].decision[side] = "Retreat"
          /\ P[k].edge # e => Q[i] = P[k]
    BY <1>6 DEF Decided
  <2>2. P[k].edge # e /\ Q[i] = P[k]
    BY <1>8, <2>1 DEF HasDecided, Undecided
  <2>3. PICK j \in (1..n) \ (K \ {x}) : P[k].edge = q[j].edge
    BY <1>8, <2>2 DEF Remaining
  <2>4. j # x
    BY <2>2, <2>3
  <2>. QED  BY <2>2, <2>3, <2>4
<1>9. ASSUME \A i \in 1..Len(b.pending) : HasDecided(b.pending[i], Enemy(side)),
             NEW i \in 1..Len(Q)
      PROVE  HasDecided(Q[i], Enemy(side))
  <2>1. PICK k \in 1..Len(P) : Q[i].decision[Enemy(side)] = P[k].decision[Enemy(side)]
    BY <1>6 DEF Decided
  <2>2. HasDecided(P[k], Enemy(side))
    BY <1>9 DEF Remaining
  <2>. QED  BY <2>1, <2>2 DEF HasDecided
<1>10. ASSUME NEW s \in Side PROVE OnEdges(d.edges, s) <= OnEdges(b.edges, s)
  <2>1. OnEdges(d.edges, s) <= OnEdges(c.edges, s)
    BY <1>1, <1>5, DecideKeeps DEF Decisions, d
  <2>2. OnEdges(c.edges, s) <= OnEdges(b.edges, s)
    BY DEF Remaining
  <2>3. b.edges \in Traffic /\ c.edges \in Traffic /\ d.edges \in Traffic
    BY <1>1, <1>6 DEF Rooms
  <2>4. OnEdges(b.edges, s) \in Nat /\ OnEdges(c.edges, s) \in Nat /\ OnEdges(d.edges, s) \in Nat
    BY <2>3, OnEdgesIsNat
  <2>. QED  BY <2>1, <2>2, <2>4
<1>11. Remaining(b, side, q, n, K, d)
  BY <1>6, <1>7, <1>8, <1>9, <1>10 DEF Remaining
<1>. QED  BY <1>1, <1>5, <1>11 DEF d

(* Whatever encounters have been retreated from, the others remain. *)
LEMMA RetreatingStays ==
  ASSUME NEW b \in Rooms, NEW side \in Side, NEW q, NEW n, Open(b, side, q, n),
         NEW f, Retreating(b, side, q, n, f)
  PROVE  \A K \in SUBSET (1..n) : Remaining(b, side, q, n, K, f[K])
<1> DEFINE I == {K \in SUBSET (1..n) : Remaining(b, side, q, n, K, f[K])}
<1>0. n \in Nat
  BY DEF Open
<1>1. {} \in I
  <2>1. \A j \in 1..n : \E i \in 1..Len(b.pending) : b.pending[i] = q[j]
    BY DEF Open
  <2>2. \A i \in 1..Len(b.pending) :
          HasDecided(b.pending[i], side) \/ \E j \in (1..n) \ {} : b.pending[i].edge = q[j].edge
    BY DEF Open
  <2>3. \A s \in Side : OnEdges(b.edges, s) <= OnEdges(b.edges, s)
    BY OnEdgesIsNat DEF Rooms
  <2>4. Remaining(b, side, q, n, {}, b)
    BY <2>1, <2>2, <2>3 DEF Remaining
  <2>. QED  BY <2>4 DEF Retreating
<1>2. ASSUME NEW K \in SUBSET (1..n), K # {}, \A x \in K : K \ {x} \in I
      PROVE  K \in I
  <2> DEFINE x == Max(K)
             c == f[K \ {x}]
  <2>1. x \in K
    BY <1>0, <1>2, MaxOfFinite
  <2>2. Remaining(b, side, q, n, K \ {x}, c)
    BY <1>2, <2>1
  <2> HIDE DEF c, I
  <2>3. /\ MayDecide(c.pending, q[x].edge, side)
        /\ Remaining(b, side, q, n, K, Decide(c, q[x].edge, side, "Retreat"))
    <3> HIDE DEF x
    <3>. QED  BY <2>1, <2>2, RetreatStep
  <2>4. f[K] = Decide(c, q[x].edge, side, "Retreat")
    BY <1>2, <2>3 DEF Retreating, c
  <2>. QED  BY <2>3, <2>4 DEF I
<1> HIDE DEF I
<1>3. \A K \in SUBSET (1..n) : K \in I
  <2>1. IsFiniteSet(1..n)
    BY <1>0, FS_Interval
  <2>. QED  BY ZenonT(60), <1>1, <1>2, <2>1, FiniteSetInduction
<1>. QED  BY <1>3 DEF I

(* The encounters a side has not decided. *)
LEMMA OpenEncounters ==
  ASSUME NEW b \in Rooms, NEW side \in Side
  PROVE  LET q == Filtered(b.pending, LAMBDA p : ~ HasDecided(p, side))
         IN  q \in Seq(Pendings) /\ Open(b, side, q, Len(q))
<1> DEFINE P == b.pending
           K == {i \in 1..Len(P) : ~ HasDecided(P[i], side)}
           q == Picked(P, K)
<1>1. P \in Seq(Pendings) /\ \A i, j \in 1..Len(P) : P[i].edge = P[j].edge => i = j
  BY DEF Rooms, Current
<1>2. K \in SUBSET (1..Len(P)) /\ \A i \in 1..Len(P) : i \in K <=> ~ HasDecided(P[i], side)
  OBVIOUS
<1> HIDE DEF K, P
<1>3. q \in Seq(Pendings) /\ \E place : IsPlacing(P, K, Len(P), q, place)
  BY <1>1, <1>2, PickedPlaces
<1>4. PICK place : IsPlacing(P, K, Len(P), q, place)
  BY <1>3
<1> HIDE DEF q
<1>5. PICK n \in Nat : n = Len(q) /\ DOMAIN q = 1..n /\ q \in [1..n -> Pendings]
  BY <1>3, LenProperties
<1>6. /\ place \in [1..n -> Nat]
      /\ \A j \in 1..n : place[j] \in K /\ q[j] = P[place[j]]
      /\ \A i, j \in 1..n : i < j => place[i] < place[j]
  BY <1>4, <1>5 DEF IsPlacing
<1>7. \A j \in 1..n : ~ HasDecided(q[j], side) /\ \E i \in 1..Len(P) : P[i] = q[j]
  BY <1>2, <1>6
<1>8. ASSUME NEW j \in 1..n, NEW k \in 1..n, q[j].edge = q[k].edge PROVE j = k
  <2>1. place[j] = place[k]
    BY <1>1, <1>2, <1>6, <1>8
  <2>. QED  BY <1>6, <2>1
<1>9. ASSUME NEW i \in 1..Len(P), ~ HasDecided(P[i], side) PROVE \E j \in 1..n : q[j] = P[i]
  <2>1. i \in K /\ i <= Len(P)
    BY <1>1, <1>2, <1>9, LenProperties
  <2>. QED  BY <1>4, <1>5, <2>1 DEF IsPlacing
<1>10. Open(b, side, q, n)
  BY <1>5, <1>7, <1>8, <1>9 DEF Open, P
<1>11. q = Filtered(b.pending, LAMBDA p : ~ HasDecided(p, side))
  BY DEF Filtered, P, K, q
<1>. QED  BY <1>3, <1>5, <1>10, <1>11

(* A fold that decides them: it exists, since none of them is gone before   *)
(* its turn. *)
IsRetreat(b, side, q, n, f) ==
  /\ f[{}] = b
  /\ \A K \in SUBSET (1..n) : K # {} =>
       f[K] = Decide(f[K \ {Max(K)}], q[Max(K)].edge, side, "Retreat")

(* The fold over the undecided encounters has a result. *)
LEMMA RetreatingExists ==
  ASSUME NEW b \in Rooms, NEW side \in Side, NEW q, NEW n, Open(b, side, q, n)
  PROVE  \E f \in [SUBSET (1..n) -> Rooms] : IsRetreat(b, side, q, n, f)
<1> DEFINE Op(c, p) == IF MayDecide(c.pending, p.edge, side)
                       THEN Decide(c, p.edge, side, "Retreat") ELSE c
           Step == [i \in 1..n |-> [c \in Rooms |-> Op(c, q[i])]]
<1>1. n \in Nat /\ \A i \in 1..n : q[i].edge \in EdgeIds
  BY DEF Open, Pendings
<1>2. Step \in [1..n -> [Rooms -> Rooms]]
  <2>1. \A i \in 1..n, c \in Rooms : Op(c, q[i]) \in Rooms
    BY <1>1, DecideFacts DEF Decisions
  <2> HIDE DEF Op
  <2>. QED  BY <2>1
<1>3. PICK f \in [SUBSET (1..n) -> Rooms] : IsFold(b, n, Step, f)
  <2> HIDE DEF Step
  <2>. QED  BY <1>1, <1>2, FoldExists
<1>4. ASSUME NEW K \in SUBSET (1..n), K # {}
      PROVE  /\ Max(K) \in K /\ f[K \ {Max(K)}] \in Rooms
             /\ f[K] = Op(f[K \ {Max(K)}], q[Max(K)])
  <2>1. Max(K) \in 1..n /\ Max(K) \in K
    BY <1>1, <1>4, MaxOfFinite
  <2>2. f[K \ {Max(K)}] \in Rooms
    OBVIOUS
  <2>3. f[K] = Step[Max(K)][f[K \ {Max(K)}]]
    <3> HIDE DEF Step
    <3>. QED  BY <1>3, <1>4 DEF IsFold
  <2>. QED  BY <2>1, <2>2, <2>3
<1>5. f[{}] = b
  BY <1>3 DEF IsFold
<1> HIDE DEF Step
<1>6. Retreating(b, side, q, n, f)
  BY <1>4, <1>5 DEF Retreating
<1>7. \A K \in SUBSET (1..n) : Remaining(b, side, q, n, K, f[K])
  BY <1>6, RetreatingStays
<1>8. ASSUME NEW K \in SUBSET (1..n), K # {}
      PROVE  f[K] = Decide(f[K \ {Max(K)}], q[Max(K)].edge, side, "Retreat")
  <2> DEFINE x == Max(K)
             c == f[K \ {x}]
  <2>1. x \in K /\ Remaining(b, side, q, n, K \ {x}, c)
    BY <1>4, <1>7, <1>8
  <2>2. MayDecide(c.pending, q[x].edge, side)
    <3> HIDE DEF x, c
    <3>. QED  BY <2>1, RetreatStep
  <2>. QED  BY <1>4, <1>8, <2>2
<1>9. IsRetreat(b, side, q, n, f)
  BY <1>5, <1>8 DEF IsRetreat
<1>. QED  BY <1>9

(* After the retreats a side has decided everywhere, and the other side as *)
(* before; no unit is added.                                               *)
LEMMA RetreatUndecidedFacts ==
  ASSUME NEW b \in Rooms, NEW side \in Side
  PROVE  /\ RetreatUndecided(b, side) \in Rooms
         /\ \A s \in Side : OnEdges(RetreatUndecided(b, side).edges, s) <= OnEdges(b.edges, s)
         /\ \A i \in 1..Len(RetreatUndecided(b, side).pending) :
              HasDecided(RetreatUndecided(b, side).pending[i], side)
         /\ (\A i \in 1..Len(b.pending) : HasDecided(b.pending[i], Enemy(side))) =>
              \A i \in 1..Len(RetreatUndecided(b, side).pending) :
                HasDecided(RetreatUndecided(b, side).pending[i], Enemy(side))
<1> DEFINE s == Filtered(b.pending, LAMBDA p : ~ HasDecided(p, side))
           Op(c, p) == Decide(c, p.edge, side, "Retreat")
           Body(f) == [K \in SUBSET (DOMAIN s) |->
                         IF K = {} THEN b ELSE Op(f[K \ {Max(K)}], s[Max(K)])]
           h == CHOOSE f : f = Body(f)
<1>1. s \in Seq(Pendings) /\ Open(b, side, s, Len(s))
  BY OpenEncounters
<1>2. RetreatUndecided(b, side) = h[DOMAIN s]
  BY Zenon DEF RetreatUndecided, FoldLeft, MapThenFoldSet
<1> HIDE DEF s
<1>3. PICK n \in Nat : n = Len(s) /\ DOMAIN s = 1..n
  BY <1>1, LenProperties
<1>4. PICK g \in [SUBSET (1..n) -> Rooms] : IsRetreat(b, side, s, n, g)
  BY <1>1, <1>3, RetreatingExists
<1>5. h = Body(h)
  <2>1. g = Body(g)
    <3> HIDE DEF Op
    <3>1. \A K \in SUBSET (1..n) : g[K] = IF K = {} THEN b ELSE Op(g[K \ {Max(K)}], s[Max(K)])
      BY <1>4 DEF IsRetreat, Op
    <3>. QED  BY <1>3, <3>1
  <2> HIDE DEF Body
  <2>. QED  BY <2>1, Zenon
<1> HIDE DEF h, Op
<1>6. /\ h[{}] = b
      /\ \A K \in SUBSET (1..n) : K # {} => h[K] = Op(h[K \ {Max(K)}], s[Max(K)])
  BY <1>3, <1>5
<1>7. Retreating(b, side, s, n, h)
  BY <1>6 DEF Retreating, Op
<1>8. Remaining(b, side, s, n, 1..n, h[1..n])
  BY <1>1, <1>3, <1>7, RetreatingStays
<1>. QED  BY <1>2, <1>3, <1>8 DEF Remaining

(* When the round times out, every encounter gets decided and none is left. *)
LEMMA AutoRetreatFacts ==
  ASSUME NEW b \in Rooms
  PROVE  /\ AutoRetreat(b).edges \in Traffic /\ AutoRetreat(b).pending = <<>>
         /\ \A s \in Side : OnEdges(AutoRetreat(b).edges, s) <= OnEdges(b.edges, s)
<1> DEFINE c == RetreatUndecided(b, "A")
           d == RetreatUndecided(c, "B")
<1>1. /\ c \in Rooms /\ \A i \in 1..Len(c.pending) : HasDecided(c.pending[i], "A")
      /\ \A s \in Side : OnEdges(c.edges, s) <= OnEdges(b.edges, s)
  BY RetreatUndecidedFacts, Sides
<1> HIDE DEF c
<1>2. /\ d \in Rooms /\ \A s \in Side : OnEdges(d.edges, s) <= OnEdges(c.edges, s)
      /\ \A i \in 1..Len(d.pending) : HasDecided(d.pending[i], "A") /\ HasDecided(d.pending[i], "B")
  BY <1>1, RetreatUndecidedFacts, Sides
<1>3. d = AutoRetreat(b)
  BY DEF AutoRetreat, c
<1> HIDE DEF d
<1>4. d.pending \in Seq(Pendings) /\ ~ \E i \in 1..Len(d.pending) : TRUE
  BY <1>2 DEF Rooms, Current, BothDecided, Side
<1>5. d.pending = <<>>
  <2>1. Len(d.pending) \in Nat
    BY <1>4, LenProperties
  <2>2. Len(d.pending) = 0
    BY <1>4, <2>1
  <2>. QED  BY <1>4, <2>2, EmptySeq
<1>6. ASSUME NEW s \in Side PROVE OnEdges(d.edges, s) <= OnEdges(b.edges, s)
  <2>1. b.edges \in Traffic /\ c.edges \in Traffic /\ d.edges \in Traffic
    BY <1>1, <1>2 DEF Rooms
  <2>2. OnEdges(b.edges, s) \in Nat /\ OnEdges(c.edges, s) \in Nat /\ OnEdges(d.edges, s) \in Nat
    BY <2>1, OnEdgesIsNat
  <2>3. OnEdges(c.edges, s) <= OnEdges(b.edges, s) /\ OnEdges(d.edges, s) <= OnEdges(c.edges, s)
    BY <1>1, <1>2
  <2>. QED  BY <2>2, <2>3
<1>. QED  BY <1>2, <1>3, <1>5, <1>6 DEF Rooms

-----------------------------------------------------------------------------
(* What AlreadyCommitted has counted after each move. *)
LEMMA CommittedRun ==
  ASSUME NEW s \in Seq(Moves), NEW from \in NodeIds
  PROVE  \E run \in [0..Len(s) -> Nat] :
           /\ run[0] = 0
           /\ \A i \in 1..Len(s) :
                run[i] = IF s[i].from = from THEN run[i - 1] + s[i].count ELSE run[i - 1]
           /\ FoldLeft(LAMBDA sum, m : IF m.from = from THEN sum + m.count ELSE sum, 0, s)
                = run[Len(s)]
<1> DEFINE Op(sum, m) == IF m.from = from THEN sum + m.count ELSE sum
           Body(f) == [K \in SUBSET (DOMAIN s) |->
                         IF K = {} THEN 0 ELSE Op(f[K \ {Max(K)}], s[Max(K)])]
           h == CHOOSE f : f = Body(f)
<1>0. PICK n \in Nat : n = Len(s)
  BY LenProperties
<1>1. DOMAIN s = 1..n /\ \A i \in 1..n : s[i].count \in Nat
  <2>1. ASSUME NEW i \in 1..n PROVE s[i] \in Moves
    BY <1>0, ElementOfSeq
  <2>. QED  BY <1>0, <2>1, BoundsAssumption DEF Moves
<1>2. h = Body(h)
  <2> DEFINE Step == [i \in 1..n |-> [v \in Nat |-> Op(v, s[i])]]
  <2>1. Step \in [1..n -> [Nat -> Nat]]
    BY <1>1
  <2>2. PICK g \in [SUBSET (1..n) -> Nat] : IsFold(0, n, Step, g)
    <3> HIDE DEF Step, Body, h
    <3>. QED  BY <2>1, FoldExists
  <2>3. \A K \in SUBSET (1..n) :
          g[K] = IF K = {} THEN 0 ELSE Op(g[K \ {Max(K)}], s[Max(K)])
    <3>1. ASSUME NEW K \in SUBSET (1..n), K # {}
          PROVE  Step[Max(K)][g[K \ {Max(K)}]] = Op(g[K \ {Max(K)}], s[Max(K)])
      <4>1. Max(K) \in 1..n
        BY <3>1, MaxOfFinite
      <4>2. g[K \ {Max(K)}] \in Nat
        OBVIOUS
      <4>. QED  BY <4>1, <4>2
    <3> HIDE DEF Step, Op
    <3>. QED  BY <2>2, <3>1 DEF IsFold
  <2>4. g = Body(g)
    <3> HIDE DEF Op
    <3>. QED  BY <1>1, <2>3
  <2> HIDE DEF Body
  <2>. QED  BY <2>4, Zenon
<1>3. FoldLeft(LAMBDA sum, m : IF m.from = from THEN sum + m.count ELSE sum, 0, s) = h[1..n]
  BY <1>1, Zenon DEF FoldLeft, MapThenFoldSet
<1> HIDE DEF h, Op
<1>4. ASSUME NEW i \in 1..n PROVE h[1..i] = Op(h[1..(i - 1)], s[i])
  <2>1. 1..i \in SUBSET (1..n) /\ i \in Nat /\ i > 0
    OBVIOUS
  <2>2. Max(1..i) = i /\ (1..i) \ {Max(1..i)} = 1..(i - 1) /\ 1..i # {}
    BY <2>1, IntervalMax
  <2>. QED  BY <1>1, <1>2, <2>1, <2>2
<1> DEFINE run == [i \in 0..n |-> h[1..i]]
<1>5. run[0] = 0
  <2>1. 1..0 = {} /\ {} \in SUBSET (1..n)
    OBVIOUS
  <2>. QED  BY <1>1, <1>2, <2>1
<1>6. ASSUME NEW i \in 1..n
      PROVE  run[i] = IF s[i].from = from THEN run[i - 1] + s[i].count ELSE run[i - 1]
  BY <1>4 DEF Op
<1> HIDE DEF run, Body
<1>7. \A i \in 0..n : run[i] \in Nat
  <2>1. \A i \in 1..n : run[i - 1] \in Nat => run[i] \in Nat
    BY <1>1, <1>6
  <2>2. run[0] \in Nat
    BY <1>5
  <2>. QED  BY <2>1, <2>2, RunStays, Zenon
<1>8. run \in [0..n -> Nat] /\ run[n] = h[1..n]
  BY <1>7 DEF run
<1>. QED  BY <1>0, <1>3, <1>5, <1>6, <1>8

(* What AddPlayer, MoveUnits and the decisions rely on: nobody has been on  *)
(* a node before a side's start node is taken, and the encounters are those *)
(* of groups that are there. *)
Outcomes ==
  {NoGameOver} \cup
  [winner : Side \cup {"draw"},
   reason : {"MaxRoundsReached", "AllNodesCaptured", "PlayerDisconnected"}]

BoardInv ==
  /\ nodes \in Boards /\ edges \in Traffic
  /\ pendingMoves \in [Side -> Seq(Moves)]
  /\ Current(pendingEncounters, edges)
  /\ gameOver \in Outcomes
  /\ players \in {{}, {"A"}, Side}
  /\ players # Side =>
       \A n \in NodeIds : (\A s \in players : n # StartNode[s]) => nodes[n] = NewNode(NodeType[n])

RoomInv == ControlInv /\ BoardInv /\ NoDoubleSpending

-----------------------------------------------------------------------------
(* Reservations. *)
LEMMA ReservedFacts ==
  ASSUME NEW s \in Seq(Moves), NEW from
  PROVE  /\ Reserved(s, from) \in Nat
         /\ Reserved(<<>>, from) = 0
         /\ \A m \in Moves :
              Reserved(Append(s, m), from) = Reserved(s, from) + IF m.from = from THEN m.count ELSE 0
<1>1. PICK n \in Nat : n = Len(s) /\ DOMAIN s = 1..n /\ \A i \in 1..n : s[i] \in Moves
  BY LenProperties, ElementOfSeq
<1>2. \A i \in 1..n : s[i].count \in Nat
  BY <1>1, BoundsAssumption DEF Moves
<1> DEFINE I == {i \in 1..n : s[i].from = from}
           f == [i \in 1..n |-> s[i].count]
<1>3. IsFiniteSet(I) /\ I \subseteq 1..n
  <2>1. I \subseteq 1..n /\ IsFiniteSet(1..n)
    BY FS_Interval
  <2> HIDE DEF I
  <2>. QED  BY <2>1, FS_Subset
<1>4. \A i \in I : f[i] \in Nat
  BY <1>2
<1>5. Reserved(s, from) = SumFunctionOnSet(f, I)
  BY <1>1 DEF Reserved
<1>6. Reserved(<<>>, from) = 0
  <2>1. {i \in DOMAIN <<>> : <<>>[i].from = from} = {}
    OBVIOUS
  <2>. QED  BY <2>1, SumOfNone DEF Reserved
<1>7. ASSUME NEW m \in Moves
      PROVE  Reserved(Append(s, m), from) = Reserved(s, from) + IF m.from = from THEN m.count ELSE 0
  <2> DEFINE t == Append(s, m)
             J == {i \in 1..n + 1 : t[i].from = from}
             g == [i \in 1..n + 1 |-> t[i].count]
  <2>1. /\ t \in Seq(Moves) /\ Len(t) = n + 1 /\ DOMAIN t = 1..n + 1
        /\ t[n + 1] = m /\ \A i \in 1..n : t[i] = s[i]
    BY <1>1, AppendProperties, LenProperties
  <2>2. m.count \in Nat
    BY BoundsAssumption DEF Moves
  <2>3. Reserved(t, from) = SumFunctionOnSet(g, J)
    BY <2>1 DEF Reserved
  <2>4. n + 1 \notin I /\ J = I \cup (IF m.from = from THEN {n + 1} ELSE {})
    BY <1>1, <2>1
  <2>5. \A i \in I : g[i] = f[i]
    BY <1>1, <2>1
  <2>6. g[n + 1] = m.count
    BY <2>1
  <2> HIDE DEF g, f, I, J
  <2>7. SumFunctionOnSet(f, I) = SumFunctionOnSet(g, I)
    BY <1>3, <1>4, <2>5, SumOfSame
  <2>8. SumFunctionOnSet(f, I) \in Nat
    BY <1>3, <1>4, SumIsNat
  <2>9. CASE m.from = from
    <3>1. \A y \in I \cup {n + 1} : g[y] \in Nat
      BY <1>4, <2>2, <2>5, <2>6
    <3>2. SumFunctionOnSet(g, I \cup {n + 1}) = SumFunctionOnSet(g, I) + g[n + 1]
      BY <1>3, <2>4, <3>1, SumWithOneMore
    <3>. QED  BY <1>5, <2>3, <2>4, <2>6, <2>7, <2>9, <3>2
  <2>10. CASE m.from # from
    <3>1. J = I
      BY <2>4, <2>10
    <3>. QED  BY <1>5, <2>3, <2>7, <2>8, <2>10, <3>1
  <2>. QED  BY <2>9, <2>10
<1> HIDE DEF f, I
<1>8. Reserved(s, from) \in Nat
  BY <1>3, <1>4, <1>5, SumIsNat
<1>. QED  BY <1>6, <1>7, <1>8

(* AlreadyCommitted counts what is reserved. *)
LEMMA CommittedIsReserved ==
  ASSUME NEW side \in Side, pendingMoves[side] \in Seq(Moves), NEW from \in NodeIds
  PROVE  AlreadyCommitted(side, from) = Reserved(pendingMoves[side], from)
<1>1. PICK s \in Seq(Moves) : s = pendingMoves[side]
  OBVIOUS
<1>2. PICK n \in Nat : n = Len(s) /\ DOMAIN s = 1..n /\ \A i \in 1..n : s[i] \in Moves
  BY LenProperties, ElementOfSeq
<1>3. PICK run \in [0..n -> Nat] :
        /\ run[0] = 0
        /\ \A i \in 1..n :
             run[i] = IF s[i].from = from THEN run[i - 1] + s[i].count ELSE run[i - 1]
        /\ FoldLeft(LAMBDA sum, m : IF m.from = from THEN sum + m.count ELSE sum, 0, s) = run[n]
  BY <1>2, CommittedRun
<1> DEFINE f == [i \in 1..n |-> s[i].count]
           I(k) == {i \in 1..k : s[i].from = from}
           T == {k \in Nat : k <= n => run[k] = SumFunctionOnSet(f, I(k))}
<1>4. \A i \in 1..n : f[i] \in Nat /\ f[i] = s[i].count
  BY <1>2, BoundsAssumption DEF Moves
<1>5. ASSUME NEW k \in Nat PROVE IsFiniteSet(I(k)) /\ I(k) \subseteq 1..k
  <2>1. I(k) \subseteq 1..k
    OBVIOUS
  <2>2. IsFiniteSet(1..k)
    BY FS_Interval
  <2> HIDE DEF I
  <2>. QED  BY <2>1, <2>2, FS_Subset
<1>6. 0 \in T
  <2>1. I(0) = {}
    OBVIOUS
  <2>. QED  BY <1>3, <2>1, SumOfNone
<1>7. ASSUME NEW k \in Nat, k \in T PROVE k + 1 \in T
  <2> SUFFICES ASSUME k + 1 <= n PROVE run[k + 1] = SumFunctionOnSet(f, I(k + 1))
    OBVIOUS
  <2>1. run[k] = SumFunctionOnSet(f, I(k)) /\ k + 1 \in 1..n /\ (k + 1) - 1 = k
    BY <1>7
  <2>2. run[k + 1] = IF s[k + 1].from = from THEN run[k] + s[k + 1].count ELSE run[k]
    BY <1>3, <2>1
  <2>3. I(k + 1) = I(k) \cup (IF s[k + 1].from = from THEN {k + 1} ELSE {}) /\ k + 1 \notin I(k)
    <3>1. 1..k + 1 = (1..k) \cup {k + 1} /\ k + 1 \notin 1..k
      OBVIOUS
    <3>. QED  BY <3>1
  <2>4. IsFiniteSet(I(k)) /\ \A y \in I(k) \cup {k + 1} : f[y] \in Nat
    BY <1>4, <1>5, <2>1
  <2>5. f[k + 1] = s[k + 1].count
    BY <1>4, <2>1
  <2> HIDE DEF f, I, T
  <2>6. CASE s[k + 1].from = from
    <3>1. PICK J : J = I(k)
      OBVIOUS
    <3>2. SumFunctionOnSet(f, J \cup {k + 1}) = SumFunctionOnSet(f, J) + f[k + 1]
      BY <2>3, <2>4, <3>1, SumWithOneMore
    <3>. QED  BY <2>1, <2>2, <2>3, <2>5, <2>6, <3>1, <3>2
  <2>7. CASE s[k + 1].from # from
    <3>1. I(k + 1) = I(k)
      BY <2>3, <2>7
    <3>. QED  BY <2>1, <2>2, <2>7, <3>1
  <2>. QED  BY <2>6, <2>7
<1>8. n \in T
  <2> HIDE DEF T
  <2>. QED  BY <1>6, <1>7, NatSetInduction
<1>9. run[n] = SumFunctionOnSet(f, I(n))
  BY <1>8
<1>10. AlreadyCommitted(side, from) = run[n]
  BY <1>1, <1>3 DEF AlreadyCommitted
<1>11. Reserved(s, from) = SumFunctionOnSet(f, I(n))
  BY <1>2 DEF Reserved
<1>. QED  BY <1>1, <1>9, <1>10, <1>11

(* No moves are a list of moves. *)
LEMMA EmptyMoves == <<>> \in Seq(Moves) /\ [s \in Side |-> <<>>] \in [Side -> Seq(Moves)]
<1>1. PICK T : T = Seq(Moves)
  OBVIOUS
<1>2. PICK empty \in T : empty = <<>>
  BY <1>1, EmptySeq
<1>. QED  BY <1>1, <1>2

(* It holds at first. *)
LEMMA RoomInit == Init => RoomInv
<1> SUFFICES ASSUME Init PROVE RoomInv
  OBVIOUS
<1>1. nodes = [n \in NodeIds |-> NewNode(NodeType[n])] /\ nodes \in Boards
  <2>1. ASSUME NEW n \in NodeIds
        PROVE  /\ NodeInv(NewNode(NodeType[n])) /\ NewNode(NodeType[n]).type = NodeType[n]
               /\ NewNode(NodeType[n]) \in NodeStates
               /\ NewNode(NodeType[n]).mobile = [s \in Side |-> 0]
    <3>1. NodeType[n] \in NodeTypes
      BY MapAssumption
    <3>2. /\ NodeInv(NewNode(NodeType[n])) /\ NewNode(NodeType[n]).type = NodeType[n]
          /\ NewNode(NodeType[n]).mobile = [s \in Side |-> 0]
      BY <3>1, NewEstablishes
    <3>. QED  BY <3>2 DEF NodeInv
  <2>. QED  BY <2>1 DEF Init, Boards
<1>2. edges \in Traffic
  <2>1. ASSUME NEW e \in EdgeIds
        PROVE  edges[e] \in [1..EdgeMap[e].distance -> Seq(Groups)]
    <3>1. PICK T : T = Seq(Groups)
      OBVIOUS
    <3>2. PICK empty \in T : empty = <<>>
      BY <3>1, EmptySeq
    <3>3. edges[e] = [k \in 1..EdgeMap[e].distance |-> empty]
      BY <3>2 DEF Init, EmptyEdge
    <3>. QED  BY <3>1, <3>3
  <2>2. edges = [e \in EdgeIds |-> edges[e]]
    BY DEF Init
  <2>. QED  BY <2>1, <2>2, TrafficFacts
<1>3. pendingMoves = [s \in Side |-> <<>>] /\ pendingMoves \in [Side -> Seq(Moves)]
  BY EmptyMoves DEF Init
<1>4. Current(pendingEncounters, edges)
  <2>1. pendingEncounters = <<>> /\ <<>> \in Seq(Pendings) /\ Len(<<>>) = 0
    BY EmptySeq DEF Init
  <2>2. ~ \E i \in 1..Len(pendingEncounters) : TRUE
    BY <2>1
  <2>. QED  BY <2>1, <2>2 DEF Current
<1>5. BoardInv
  BY <1>1, <1>2, <1>3, <1>4 DEF BoardInv, Init, Outcomes
<1>6. NoDoubleSpending
  <2>1. ASSUME NEW side \in Side, NEW n \in NodeIds
        PROVE  Reserved(pendingMoves[side], n) <= nodes[n].mobile[side]
    <3>1. Reserved(pendingMoves[side], n) = 0
      BY <1>3, EmptyMoves, ReservedFacts
    <3>2. nodes[n] \in NodeStates
      BY <1>1 DEF Boards
    <3>3. nodes[n].mobile[side] \in Nat
      BY <3>2 DEF NodeStates
    <3>. QED  BY <3>1, <3>3
  <2>. QED  BY <2>1 DEF NoDoubleSpending
<1>. QED  BY ControlInit, <1>5, <1>6 DEF RoomInv

(* A player joins; the second one starts the game. *)
LEMMA RoomAddPlayer ==
  ASSUME RoomInv, NEW side \in Side, AddPlayer(side)
  PROVE  RoomInv'
<1> DEFINE x == StartNode[side]
           new == PlaceStartingUnits(nodes[x], side, InitialUnits)
<1>1. ControlInv'
  BY ControlAddPlayer DEF RoomInv
<1>2. /\ nodes \in Boards /\ players # Side /\ players \in {{}, {"A"}, Side}
      /\ \A n \in NodeIds : (\A s \in players : n # StartNode[s]) => nodes[n] = NewNode(NodeType[n])
  BY DEF RoomInv, BoardInv, AddPlayer
<1>3. /\ (players = {} /\ side = "A") \/ (players = {"A"} /\ side = "B")
      /\ players' = players \cup {side} /\ players' \in {{}, {"A"}, Side}
  <2>1. /\ side = IF players = {} THEN "A" ELSE "B"
        /\ players' = players \cup {side}
    BY DEF AddPlayer
  <2>2. CASE players = {}
    <3>1. side = "A"
      BY <2>1, <2>2
    <3>2. players' = {"A"}
      BY <2>1, <2>2, <3>1
    <3>. QED  BY <2>1, <2>2, <3>1, <3>2
  <2>3. CASE players = {"A"}
    BY <2>1, <2>3 DEF Side
  <2>. QED  BY <1>2, <2>2, <2>3
<1>4. x \in NodeIds /\ NodeType[x] \in NodeTypes \ {"SupplyLine"} /\ nodes[x] = NewNode(NodeType[x])
  BY <1>2, <1>3, MapAssumption, StartAssumption
<1>5. /\ NodeInv(new) /\ new.type = NodeType[x]
      /\ new.mobile = [s \in Side |-> IF s = side THEN InitialUnits ELSE 0]
  <2>1. InitialUnits \in Nat \ {0} /\ new = PlaceStartingUnits(NewNode(NodeType[x]), side, InitialUnits)
    BY <1>4, BoundsAssumption
  <2> HIDE DEF new, x
  <2>2. NodeInv(new) /\ new.type = NodeType[x] /\ new.mobile = Alone(side, InitialUnits)
    BY <1>4, <2>1, PlaceEstablishes, ZenonT(60)
  <2>. QED  BY <2>2 DEF Alone
<1>6. nodes' = [nodes EXCEPT ![x] = new]
  BY DEF AddPlayer
<1>7. nodes[x].mobile = [s \in Side |-> 0]
  BY <1>4, NewEstablishes
<1> HIDE DEF x, new
<1>8. /\ nodes' \in Boards /\ nodes'[x] = new
      /\ \A n \in NodeIds : n # x => nodes'[n] = nodes[n]
  <2>1. new \in NodeStates
    BY <1>5 DEF NodeInv
  <2>. QED  BY <1>2, <1>4, <1>5, <1>6, <2>1 DEF Boards
<1>9. UNCHANGED <<edges, pendingMoves, pendingEncounters, gameOver>>
  BY DEF AddPlayer
<1>10. players' # Side =>
         \A n \in NodeIds : (\A s \in players' : n # StartNode[s]) => nodes'[n] = NewNode(NodeType[n])
  BY <1>2, <1>3, <1>8 DEF x
<1>11. BoardInv'
  BY <1>3, <1>8, <1>9, <1>10 DEF RoomInv, BoardInv, Current
<1>12. NoDoubleSpending'
  <2>1. ASSUME NEW s \in Side, NEW n \in NodeIds
        PROVE  Reserved(pendingMoves[s], n) <= nodes'[n].mobile[s]
    <3>1. pendingMoves[s] \in Seq(Moves) /\ Reserved(pendingMoves[s], n) <= nodes[n].mobile[s]
      BY DEF RoomInv, BoardInv, NoDoubleSpending
    <3>2. Reserved(pendingMoves[s], n) \in Nat /\ nodes[n].mobile[s] \in Nat
      BY <1>2, <3>1, ReservedFacts, MobileIsNat
    <3>3. CASE n = x
      <4>1. new.mobile[s] \in Nat /\ nodes[n].mobile[s] = 0
        BY <1>5, <1>7, <3>3, BoundsAssumption
      <4>. QED  BY <1>8, <3>1, <3>2, <3>3, <4>1
    <3>4. CASE n # x
      BY <1>8, <3>1, <3>4
    <3>. QED  BY <3>3, <3>4
  <2>. QED  BY <1>9, <2>1 DEF NoDoubleSpending
<1>. QED  BY <1>1, <1>11, <1>12 DEF RoomInv

(* The request is cut to the allowance, and granted only if the units that  *)
(* are not reserved suffice for all of it. *)
LEMMA RoomMoveUnits ==
  ASSUME RoomInv, NEW side \in Side, NEW e \in EdgeIds, NEW from \in NodeIds,
         NEW to \in NodeIds, NEW requested \in 1..MaxUnitsPerPlayer,
         MoveUnits(side, e, from, to, requested)
  PROVE  RoomInv'
<1> DEFINE remaining == MaxUnitsPerPlayer - unitUsed[side]
           actual == IF requested < remaining THEN requested ELSE remaining
           m == [edge |-> e, from |-> from, to |-> to, count |-> actual]
           s == pendingMoves[side]
<1>1. ControlInv'
  BY ControlMoveUnits DEF RoomInv
<1>2. /\ actual > 0
      /\ nodes[from].mobile[side] - AlreadyCommitted(side, from) >= actual
      /\ pendingMoves' = [pendingMoves EXCEPT ![side] = Append(s, m)]
      /\ UNCHANGED <<phase, currentRound, players, nodes, edges, pendingEncounters, gameOver>>
  BY DEF MoveUnits
<1>3. actual \in 1..MaxUnitsPerPlayer
  <2>1. unitUsed[side] \in 0..MaxUnitsPerPlayer
    BY DEF RoomInv, ControlInv, ControlType
  <2>. QED  BY <1>2, <2>1, BoundsAssumption
<1>4. m \in Moves /\ m.from = from /\ m.count = actual
  BY <1>3 DEF Moves
<1>5. pendingMoves \in [Side -> Seq(Moves)] /\ s \in Seq(Moves)
  BY DEF RoomInv, BoardInv
<1> HIDE DEF s, m, actual
<1>6. Append(s, m) \in Seq(Moves)
  BY <1>4, <1>5, AppendProperties
<1>7. /\ pendingMoves' \in [Side -> Seq(Moves)] /\ pendingMoves'[side] = Append(s, m)
      /\ \A other \in Side : other # side => pendingMoves'[other] = pendingMoves[other]
  BY <1>2, <1>5, <1>6
<1>8. BoardInv'
  BY <1>2, <1>7 DEF RoomInv, BoardInv, Current
<1>9. NoDoubleSpending'
  <2>1. ASSUME NEW other \in Side, NEW n \in NodeIds
        PROVE  Reserved(pendingMoves'[other], n) <= nodes[n].mobile[other]
    <3>1. Reserved(pendingMoves[other], n) <= nodes[n].mobile[other]
      BY DEF RoomInv, NoDoubleSpending
    <3>2. CASE other # side
      BY <1>7, <3>1, <3>2
    <3>3. CASE other = side /\ n # from
      <4>1. Reserved(Append(s, m), n) = Reserved(s, n) + 0 /\ Reserved(s, n) \in Nat
        BY <1>4, <1>5, <3>3, ReservedFacts
      <4>2. Reserved(Append(s, m), n) = Reserved(s, n)
        BY <4>1
      <4>. QED  BY <1>7, <3>1, <3>3, <4>2 DEF s
    <3>4. CASE other = side /\ n = from
      <4>1. Reserved(Append(s, m), n) = Reserved(s, n) + actual /\ Reserved(s, n) \in Nat
        BY <1>4, <1>5, <3>4, ReservedFacts
      <4>2. nodes[from].mobile[side] - Reserved(s, n) >= actual
        BY <1>2, <1>5, <3>4, CommittedIsReserved DEF s
      <4>3. nodes[from].mobile[side] \in Nat /\ actual \in Nat
        BY <1>3, MobileIsNat, BoundsAssumption DEF RoomInv, BoardInv
      <4>4. Reserved(s, n) + actual <= nodes[from].mobile[side]
        BY <4>1, <4>2, <4>3
      <4>. QED  BY <1>7, <3>4, <4>1, <4>4
    <3>. QED  BY <3>2, <3>3, <3>4
  <2>. QED  BY <1>2, <2>1 DEF NoDoubleSpending
<1>. QED  BY <1>1, <1>8, <1>9 DEF RoomInv

(* A decision about an encounter; the last one ends the round. *)
LEMMA RoomResolveEncounter ==
  ASSUME RoomInv, NEW side \in Side, NEW e \in EdgeIds, NEW decision \in Decisions,
         ResolveEncounter(side, e, decision)
  PROVE  RoomInv'
<1> DEFINE after == Decide(Board, e, side, decision)
<1>1. Board \in Rooms /\ Board.pending = pendingEncounters
  BY DEF RoomInv, BoardInv, Board, Rooms, Current
<1>2. /\ MayDecide(pendingEncounters, e, side)
      /\ edges' = after.edges /\ pendingEncounters' = after.pending
      /\ UNCHANGED <<phase, currentRound, players, nodes, unitUsed, pendingMoves, gameOver>>
  BY DEF ResolveEncounter
<1>3. after \in Rooms
  BY <1>1, <1>2, DecideFacts
<1> HIDE DEF after
<1>4. edges' \in Traffic /\ Current(pendingEncounters, edges)'
  BY <1>2, <1>3 DEF Rooms, Current
<1>5. ControlInv'
  BY ControlResolveEncounter DEF RoomInv
<1>6. BoardInv' /\ NoDoubleSpending'
  BY <1>2, <1>4 DEF RoomInv, BoardInv, NoDoubleSpending
<1>. QED  BY <1>5, <1>6 DEF RoomInv

(* A round begins with no encounter left open, so those of its end are the  *)
(* only ones. *)
LEMMA RoomResolveRound ==
  ASSUME RoomInv, phase = "Planning", NEW E \in Traffic, ResolveRound(E, <<>>)
  PROVE  RoomInv'
<1> DEFINE left == Depart(Depart([nodes |-> nodes, edges |-> E], "A"), "B")
           moved == Moved(left.edges)
           met == Encounters(moved)
           arriving == Filtered(Arrivals(left.edges), LAMBDA a : a \notin Blocked(met))
           board == Arrive(left.nodes, arriving)
<1>1. /\ nodes' = board /\ edges' = moved /\ pendingEncounters' = <<>> \o met
      /\ pendingMoves' = [s \in Side |-> <<>>] /\ players' = players
      /\ gameOver' = gameOver \/
           \E r \in {"MaxRoundsReached", "AllNodesCaptured"} :
             gameOver' = [winner |-> Winner(board), reason |-> r]
  BY DEF ResolveRound, Moved
<1>2. left \in Worlds
  <2>1. /\ [nodes |-> nodes, edges |-> E] \in Worlds
        /\ pendingMoves["A"] \in Seq(Moves) /\ pendingMoves["B"] \in Seq(Moves)
    BY DEF RoomInv, BoardInv, Worlds, Side
  <2>. QED  BY <2>1, DepartTyped, Sides
<1> HIDE DEF left
<1>3. left.nodes \in Boards /\ left.edges \in Traffic
  BY <1>2 DEF Worlds
<1>4. moved \in Traffic /\ \A e \in EdgeIds : moved[e][EdgeMap[e].distance] = <<>>
  BY <1>3, MovedTyped
<1> HIDE DEF moved
<1>5. Current(met, moved)
  BY <1>4, EncountersCurrent
<1>6. <<>> \o met = met
  BY <1>5, ConcatEmptySeq DEF Current
<1>7. board \in Boards
  <2> DEFINE all == Arrivals(left.edges)
             K == {i \in 1..Len(all) : all[i] \notin Blocked(met)}
  <2>1. arriving = Picked(all, K) /\ K \in SUBSET (1..Len(all))
    BY DEF Filtered
  <2>2. all \in Seq(Arrivings)
    BY <1>3, ArrivalsTyped
  <2> HIDE DEF all, K, arriving
  <2>3. arriving \in Seq(Arrivings)
    BY <2>1, <2>2, PickedElements
  <2>. QED  BY <1>3, <2>3, ArriveTyped
<1> HIDE DEF board, met
<1>8. ControlInv' /\ players = Side
  BY ControlResolveRound DEF RoomInv, ControlInv
<1>9. gameOver' \in Outcomes
  <2>1. gameOver \in Outcomes
    BY DEF RoomInv, BoardInv
  <2>2. Winner(board) \in Side \cup {"draw"}
    BY DEF Winner, Side
  <2>. QED  BY <1>1, <2>1, <2>2 DEF Outcomes
<1>10. BoardInv'
  BY <1>1, <1>4, <1>5, <1>6, <1>7, <1>8, <1>9, EmptyMoves DEF BoardInv
<1>11. NoDoubleSpending'
  <2>1. ASSUME NEW s \in Side, NEW n \in NodeIds
        PROVE  Reserved(pendingMoves'[s], n) <= nodes'[n].mobile[s]
    <3>1. Reserved(pendingMoves'[s], n) = 0
      BY <1>1, EmptyMoves, ReservedFacts
    <3>2. nodes'[n].mobile[s] \in Nat
      BY <1>1, <1>7, MobileIsNat
    <3>. QED  BY <3>1, <3>2
  <2>. QED  BY <2>1 DEF NoDoubleSpending
<1>. QED  BY <1>8, <1>10, <1>11 DEF RoomInv

(* Nobody is left to decide when both sides are ready. *)
LEMMA NoneLeft ==
  ASSUME RoomInv, CheckAndResolveIfReady
  PROVE  pendingEncounters = <<>>
<1>1. Current(pendingEncounters, edges)
  BY DEF RoomInv, BoardInv
<1>2. pendingEncounters \in Seq(Pendings) /\ DOMAIN pendingEncounters = 1..Len(pendingEncounters)
  BY <1>1, LenProperties DEF Current
<1>3. ~ \E i \in 1..Len(pendingEncounters) : TRUE
  BY <1>1, <1>2 DEF Current, CheckAndResolveIfReady
<1>4. Len(pendingEncounters) \in Nat
  BY <1>2, LenProperties
<1>5. Len(pendingEncounters) = 0
  BY <1>3, <1>4
<1>. QED  BY <1>2, <1>5, EmptySeq

(* A player gives the game up. *)
LEMMA RoomForceGameOver ==
  ASSUME RoomInv, NEW winner \in Side, ForceGameOver(winner)
  PROVE  RoomInv'
<1>1. ControlInv'
  BY ControlForceGameOver DEF RoomInv
<1>2. /\ gameOver' = [winner |-> winner, reason |-> "PlayerDisconnected"]
      /\ UNCHANGED <<currentRound, players, nodes, edges, unitUsed, pendingMoves, pendingEncounters>>
  BY DEF ForceGameOver
<1>3. BoardInv' /\ NoDoubleSpending'
  BY <1>2 DEF RoomInv, BoardInv, Current, NoDoubleSpending, Outcomes
<1>. QED  BY <1>1, <1>3 DEF RoomInv

(* So every step preserves it. *)
LEMMA RoomNext == RoomInv /\ [Next]_vars => RoomInv'
<1> SUFFICES ASSUME RoomInv, [Next]_vars PROVE RoomInv'
  OBVIOUS
<1>1. CASE \E side \in Side : AddPlayer(side)
  BY <1>1, RoomAddPlayer
<1>2. CASE \E side \in Side, e \in EdgeIds, from, to \in NodeIds,
              requested \in 1..MaxUnitsPerPlayer : MoveUnits(side, e, from, to, requested)
  BY <1>2, RoomMoveUnits
<1>3. CASE \E side \in Side, e \in EdgeIds, decision \in Decisions :
              ResolveEncounter(side, e, decision)
  BY <1>3, RoomResolveEncounter
<1>4. CASE CheckAndResolveIfReady
  <2>1. edges \in Traffic /\ pendingEncounters = <<>>
    BY <1>4, NoneLeft DEF RoomInv, BoardInv
  <2>. QED  BY <1>4, <2>1, RoomResolveRound DEF CheckAndResolveIfReady
<1>5. CASE PlanningTimeout
  <2>1. Board \in Rooms
    BY DEF RoomInv, BoardInv, Board, Rooms, Current
  <2>2. AutoRetreat(Board).edges \in Traffic /\ AutoRetreat(Board).pending = <<>>
    BY <2>1, AutoRetreatFacts
  <2>. QED  BY <1>5, <2>2, RoomResolveRound DEF PlanningTimeout
<1>6. CASE \E winner \in Side : ForceGameOver(winner)
  BY <1>6, RoomForceGameOver
<1>7. CASE UNCHANGED vars
  <2>1. ControlInv'
    BY <1>7, ControlNext DEF RoomInv
  <2>2. BoardInv' /\ NoDoubleSpending'
    BY <1>7 DEF vars, RoomInv, BoardInv, Current, NoDoubleSpending
  <2>. QED  BY <2>1, <2>2 DEF RoomInv
<1>. QED
  BY <1>1, <1>2, <1>3, <1>4, <1>5, <1>6, <1>7 DEF Next

(* The inductive invariant of the room: control, board and reservations     *)
(* together, since a round keeps the board only when every reserved move is *)
(* covered and no encounter is left over. *)
THEOREM RoomCorrect == Spec => []RoomInv
BY RoomInit, RoomNext, PTL DEF Spec

(* The state of a room keeps its shape in every call of the session. *)
THEOREM RoomTypeCorrect == Spec => []TypeOK
<1>1. RoomInv => TypeOK
  <2> SUFFICES ASSUME RoomInv PROVE TypeOK
    OBVIOUS
  <2>1. ControlType /\ pendingMoves \in [Side -> Seq(Moves)] /\ gameOver \in Outcomes
    BY DEF RoomInv, ControlInv, BoardInv
  <2>2. nodes \in [NodeIds -> NodeStates]
    BY DEF RoomInv, BoardInv, Boards
  <2>3. \A e \in EdgeIds :
          /\ DOMAIN edges[e] = 1..EdgeMap[e].distance
          /\ \A k \in DOMAIN edges[e] : edges[e][k] \in Seq(Groups)
    <3>1. \A e \in EdgeIds : edges[e] \in [1..EdgeMap[e].distance -> Seq(Groups)]
      BY TrafficFacts DEF RoomInv, BoardInv
    <3>. QED  BY <3>1
  <2>4. \A i \in DOMAIN pendingEncounters : pendingEncounters[i] \in Pendings
    BY LenProperties, ElementOfSeq DEF RoomInv, BoardInv, Current
  <2>. QED  BY <2>1, <2>2, <2>3, <2>4 DEF TypeOK, ControlType, Phases, Pendings, Outcomes
<1>. QED  BY <1>1, RoomCorrect, PTL

(* MoveUnits never reserves more than a node holds, however the moves of a  *)
(* round follow each other. *)
THEOREM MovesAreCovered == Spec => []NoDoubleSpending
<1>1. RoomInv => NoDoubleSpending
  BY DEF RoomInv
<1>. QED  BY <1>1, RoomCorrect, PTL

(* After every round the owner of a node has the majority there, and        *)
(* garrisons stand for the owners of supply lines: Arrive and Depart keep   *)
(* what Node.cs promises, for any number of groups. *)
THEOREM BoardIsConsistent == Spec => []NodesAreConsistent
<1>1. RoomInv => NodesAreConsistent
  BY DEF RoomInv, BoardInv, Boards, NodeInv, NodesAreConsistent
<1>. QED  BY <1>1, RoomCorrect, PTL

(* A pending encounter is about groups that stand where it found them, and  *)
(* an edge has one at most, whatever the players decide and whenever the    *)
(* timeout strikes. *)
THEOREM EncountersStayCurrent == Spec => []EncountersAreCurrent
<1>1. RoomInv => EncountersAreCurrent
  <2> SUFFICES ASSUME RoomInv PROVE EncountersAreCurrent
    OBVIOUS
  <2>1. Current(pendingEncounters, edges)
    BY DEF RoomInv, BoardInv
  <2>2. DOMAIN pendingEncounters = 1..Len(pendingEncounters)
        /\ \A i \in 1..Len(pendingEncounters) : pendingEncounters[i] \in Pendings
    BY <2>1, LenProperties, ElementOfSeq DEF Current
  <2>3. \A i \in 1..Len(pendingEncounters) : pendingEncounters[i].remaining = 1
    BY <2>2 DEF Pendings
  <2>. QED  BY <2>1, <2>2, <2>3 DEF Current, EncountersAreCurrent
<1>. QED  BY <1>1, RoomCorrect, PTL

-----------------------------------------------------------------------------
(* What a node has left after the first i moves. *)
LEMMA DepartKeeps ==
  ASSUME NEW w \in Worlds, NEW side \in Side, pendingMoves[side] \in Seq(Moves),
         \A n \in NodeIds : Reserved(pendingMoves[side], n) <= w.nodes[n].mobile[side]
  PROVE  LET v == Depart(w, side)
         IN  /\ \A s \in Side : Total(v, s) = Total(w, s)
             /\ \A n \in NodeIds, s \in Side : s # side =>
                  v.nodes[n].mobile[s] = w.nodes[n].mobile[s]
<1>1. PICK q \in Seq(Moves) : q = pendingMoves[side]
  OBVIOUS
<1>2. PICK n \in Nat : n = Len(q) /\ DOMAIN q = 1..n /\ \A i \in 1..n : q[i] \in Moves
  BY LenProperties, ElementOfSeq
<1>3. PICK run \in [0..n -> Worlds] :
        /\ run[0] = w
        /\ \A i \in 1..n : run[i] = DepartOne(run[i - 1], side, q[i])
        /\ Depart(w, side) = run[n]
  BY <1>1, <1>2, DepartRun
<1> DEFINE f == [i \in 1..n |-> q[i].count]
           From(k, x) == {i \in 1..k : q[i].from = x}
           Good(k) ==
             /\ \A x \in NodeIds :
                  run[k].nodes[x].mobile[side] + SumFunctionOnSet(f, From(k, x))
                    = w.nodes[x].mobile[side]
             /\ \A s \in Side : Total(run[k], s) = Total(w, s)
             /\ \A x \in NodeIds, s \in Side : s # side =>
                  run[k].nodes[x].mobile[s] = w.nodes[x].mobile[s]
           I == {k \in Nat : k <= n => Good(k)}
<1>4. \A i \in 1..n : f[i] \in Nat /\ f[i] = q[i].count
  BY <1>2, BoundsAssumption DEF Moves
<1>5. \A x \in NodeIds : SumFunctionOnSet(f, From(n, x)) <= w.nodes[x].mobile[side]
  BY <1>1, <1>2 DEF Reserved
<1>6. ASSUME NEW k \in Nat, NEW x PROVE IsFiniteSet(From(k, x))
  <2>1. From(k, x) \subseteq 1..k
    OBVIOUS
  <2>2. IsFiniteSet(1..k)
    BY IntervalIsFinite
  <2> HIDE DEF From
  <2>. QED  BY <2>1, <2>2, FS_Subset
<1>7. \A x \in NodeIds, s \in Side, k \in 0..n : run[k].nodes[x].mobile[s] \in Nat
  <2>1. \A k \in 0..n : run[k] \in Worlds
    OBVIOUS
  <2>2. \A k \in 0..n : run[k].nodes \in Boards
    BY <2>1 DEF Worlds
  <2>. QED  BY <2>2, MobileIsNat
<1>8. 0 \in I
  <2>1. \A x \in NodeIds : From(0, x) = {}
    OBVIOUS
  <2>2. 0 \in 0..n
    OBVIOUS
  <2> HIDE DEF From, f
  <2>3. \A x \in NodeIds : run[0].nodes[x].mobile[side] + SumFunctionOnSet(f, From(0, x))
                             = w.nodes[x].mobile[side]
    <3>1. ASSUME NEW x \in NodeIds
          PROVE  run[0].nodes[x].mobile[side] + SumFunctionOnSet(f, From(0, x))
                             = w.nodes[x].mobile[side]
      <4>1. SumFunctionOnSet(f, From(0, x)) = 0
        BY <2>1, SumOfNone
      <4>. QED  BY <1>3, <1>7, <2>2, <4>1
    <3>. QED  BY <3>1
  <2>. QED  BY <1>3, <2>3
<1>9. ASSUME NEW k \in Nat, k \in I PROVE k + 1 \in I
  <2> HIDE DEF Good, From, f
  <2> SUFFICES ASSUME k + 1 <= n PROVE Good(k + 1)
    OBVIOUS
  <2> USE DEF From, f
  <2>1. Good(k)
    BY <1>9
  <2>2. k + 1 \in 1..n /\ (k + 1) - 1 = k /\ k \in 0..n /\ k + 1 \in Nat
    OBVIOUS
  <2> DEFINE m == q[k + 1]
             v == run[k]
             u == run[k + 1]
             x == m.from
  <2>3. m \in Moves /\ v \in Worlds /\ u = DepartOne(v, side, m) /\ x \in NodeIds
    BY <1>2, <1>3, <2>2 DEF Moves
  <2>4. ASSUME NEW y
        PROVE  From(k + 1, y) = From(k, y) \cup (IF x = y THEN {k + 1} ELSE {}) /\ k + 1 \notin From(k, y)
    <3>1. 1..k + 1 = (1..k) \cup {k + 1} /\ k + 1 \notin 1..k
      OBVIOUS
    <3>. QED  BY <3>1
  <2>5. \A y : From(k + 1, y) \subseteq From(n, y) /\ From(n, y) \subseteq 1..n /\ From(k, y) \subseteq 1..n
    BY <2>2
  <2>6. f[k + 1] = m.count /\ m.count \in Nat
    BY <1>4, <2>2
  <2> HIDE DEF From, f
  <2>7. ASSUME NEW y \in NodeIds
        PROVE  /\ SumFunctionOnSet(f, From(k + 1, y))
                    = SumFunctionOnSet(f, From(k, y)) + (IF x = y THEN m.count ELSE 0)
               /\ SumFunctionOnSet(f, From(k, y)) \in Nat
    <3>1. IsFiniteSet(From(k, y)) /\ \A i \in From(k, y) : f[i] \in Nat
      BY <1>4, <1>6, <2>5
    <3>2. SumFunctionOnSet(f, From(k, y)) \in Nat
      BY <3>1, SumIsNat
    <3>3. CASE x = y
      <4>1. PICK R : R = From(k, y)
        OBVIOUS
      <4>2. \A i \in R \cup {k + 1} : f[i] \in Nat
        BY <2>6, <3>1, <4>1
      <4>3. SumFunctionOnSet(f, R \cup {k + 1}) = SumFunctionOnSet(f, R) + f[k + 1]
        BY <2>4, <3>1, <4>1, <4>2, SumWithOneMore
      <4>. QED  BY <2>4, <2>6, <3>2, <3>3, <4>1, <4>3
    <3>4. CASE x # y
      <4>1. From(k + 1, y) = From(k, y)
        BY <2>4, <3>4
      <4>. QED  BY <3>2, <3>4, <4>1
    <3>. QED  BY <3>3, <3>4
  <2>8. m.count <= v.nodes[x].mobile[side]
    <3>1. SumFunctionOnSet(f, From(k + 1, x)) <= SumFunctionOnSet(f, From(n, x))
      <4>1. IsFiniteSet(From(n, x)) /\ \A i \in From(n, x) : f[i] \in Nat
        BY <1>4, <1>6, <2>5
      <4>. QED  BY <2>5, <4>1, SumOfPart
    <3>2. SumFunctionOnSet(f, From(n, x)) \in Nat /\ SumFunctionOnSet(f, From(k + 1, x)) \in Nat
      <4>1. IsFiniteSet(From(n, x)) /\ \A i \in From(n, x) : f[i] \in Nat
        BY <1>4, <1>6, <2>5
      <4>. QED  BY <2>6, <2>7, <2>3, <4>1, SumIsNat
    <3>3. /\ SumFunctionOnSet(f, From(k, x)) + m.count <= w.nodes[x].mobile[side]
      <4>1. w.nodes[x].mobile[side] \in Nat /\ SumFunctionOnSet(f, From(n, x)) <= w.nodes[x].mobile[side]
        BY <1>3, <1>5, <1>7, <2>3
      <4>2. SumFunctionOnSet(f, From(k + 1, x)) = SumFunctionOnSet(f, From(k, x)) + m.count
        BY <2>3, <2>7
      <4> HIDE DEF x, m
      <4>. QED  BY <3>1, <3>2, <4>1, <4>2
    <3>4. v.nodes[x].mobile[side] + SumFunctionOnSet(f, From(k, x)) = w.nodes[x].mobile[side]
      BY <2>1, <2>3 DEF Good
    <3>5. v.nodes[x].mobile[side] \in Nat /\ SumFunctionOnSet(f, From(k, x)) \in Nat
      BY <1>7, <2>2, <2>3, <2>7
    <3>. QED  BY SMTT(60), <2>6, <3>3, <3>4, <3>5
  <2>9. /\ \A y \in NodeIds, s \in Side :
             u.nodes[y].mobile[s] = v.nodes[y].mobile[s]
                                      - (IF y = m.from /\ s = side THEN m.count ELSE 0)
        /\ \A s \in Side : Total(u, s) = Total(v, s)
    <3> HIDE DEF m, u, v
    <3>. QED  BY <2>3, <2>8, DepartOneKeeps
  <2>10. ASSUME NEW y \in NodeIds
         PROVE  u.nodes[y].mobile[side] + SumFunctionOnSet(f, From(k + 1, y)) = w.nodes[y].mobile[side]
    <3> DEFINE c == IF x = y THEN m.count ELSE 0
    <3>1. u.nodes[y].mobile[side] = v.nodes[y].mobile[side] - c /\ c \in Nat
      BY <2>6, <2>9
    <3>2. SumFunctionOnSet(f, From(k + 1, y)) = SumFunctionOnSet(f, From(k, y)) + c
      BY <2>7
    <3>3. v.nodes[y].mobile[side] + SumFunctionOnSet(f, From(k, y)) = w.nodes[y].mobile[side]
      BY <2>1 DEF Good
    <3>4. v.nodes[y].mobile[side] \in Nat /\ SumFunctionOnSet(f, From(k, y)) \in Nat
      BY <1>7, <2>2, <2>7
    <3> HIDE DEF c, u, v
    <3>. QED  BY <3>1, <3>2, <3>3, <3>4
  <2>11. ASSUME NEW y \in NodeIds, NEW s \in Side, s # side
         PROVE  u.nodes[y].mobile[s] = w.nodes[y].mobile[s]
    <3>1. u.nodes[y].mobile[s] = v.nodes[y].mobile[s] - 0
      BY <2>9, <2>11
    <3>2. v.nodes[y].mobile[s] \in Nat /\ v.nodes[y].mobile[s] = w.nodes[y].mobile[s]
      BY <1>7, <2>1, <2>2, <2>11 DEF Good
    <3>. QED  BY <3>1, <3>2
  <2>. QED  BY <2>1, <2>9, <2>10, <2>11 DEF Good
<1>10. n \in I
  <2> HIDE DEF I
  <2>. QED  BY <1>8, <1>9, NatSetInduction
<1>. QED  BY <1>3, <1>10

-------------------------------------------------------------------------
(* The units of the two sides in the whole game. *)
UnitsInv == NoUnitFromNothing /\ ConquestNeedsUnits

(* The units of a side are those on the nodes and those on the edges. *)
LEMMA UnitsOfIsTotal ==
  ASSUME RoomInv, NEW s \in Side
  PROVE  /\ UnitsOf(s) = OnNodes(nodes, s) + OnEdges(edges, s)
         /\ OnNodes(nodes, s) \in Nat /\ OnEdges(edges, s) \in Nat
<1>1. nodes \in Boards /\ edges \in Traffic
  BY DEF RoomInv, BoardInv
<1>. QED
  BY <1>1, OnNodesIsNat, OnEdgesIsNat DEF UnitsOf, UnitsOnNodes, UnitsOnEdges, OnNodes, OnEdges

(* Whoever owns every node but the headquarters has a unit on each, or the  *)
(* garrison of a supply line. *)
LEMMA OwnersHaveUnits ==
  ASSUME NEW N \in Boards, NEW side \in Side,
         \A n \in NodeIds : NodeType[n] # "Headquarters" => N[n].ownership = side
  PROVE  Cardinality({n \in NodeIds : NodeType[n] # "Headquarters"}) <=
           OnNodes(N, side) + Cardinality({n \in NodeIds : NodeType[n] = "SupplyLine"})
<1> DEFINE Held == {n \in NodeIds : NodeType[n] # "Headquarters"}
           Supply == {n \in NodeIds : NodeType[n] = "SupplyLine"}
           Manned == Held \ Supply
           f == [n \in NodeIds |-> N[n].mobile[side]]
<1>1. ASSUME NEW n \in Manned PROVE N[n].mobile[side] > 0
  <2>1. NodeInv(N[n]) /\ N[n].type # "SupplyLine" /\ N[n].ownership = side
    BY DEF Boards
  <2>2. /\ N[n].garrison \in [Side -> {0, 1}] /\ N[n].mobile \in [Side -> Nat]
        /\ N[n].garrison[side] # 1
        /\ GetTotalCount(N[n], side) > GetTotalCount(N[n], Enemy(side))
    BY <2>1 DEF NodeInv, NodeStates
  <2>3. side \in Side /\ Enemy(side) \in Side
    BY DEF Side, Enemy
  <2>. QED  BY <2>2, <2>3 DEF GetTotalCount
<1>2. \A n \in NodeIds : f[n] \in Nat
  BY MobileIsNat
<1>3. \A n \in Manned : f[n] \in Nat /\ f[n] > 0
  BY <1>1, <1>2
<1>4. OnNodes(N, side) = SumFunctionOnSet(f, NodeIds) /\ IsFiniteSet(NodeIds)
  BY MapAssumption DEF OnNodes, SumFunction
<1>5. Manned \in SUBSET NodeIds /\ Supply \in SUBSET NodeIds /\ Held = Manned \cup Supply /\ Manned \cap Supply = {}
  OBVIOUS
<1> HIDE DEF f, Manned, Supply, Held
<1>6. IsFiniteSet(Manned) /\ IsFiniteSet(Supply)
  BY <1>4, <1>5, FS_Subset
<1>7. Cardinality(Manned) <= SumFunctionOnSet(f, Manned)
  BY <1>3, <1>6, SumCountsAtLeast
<1>8. SumFunctionOnSet(f, Manned) <= SumFunctionOnSet(f, NodeIds)
  BY <1>2, <1>4, <1>5, SumOfPart
<1>9. SumFunctionOnSet(f, Manned) \in Nat /\ SumFunctionOnSet(f, NodeIds) \in Nat
  BY <1>2, <1>3, <1>4, <1>6, SumIsNat
<1>10. Cardinality(Held) = Cardinality(Manned) + Cardinality(Supply)
  <2>1. Cardinality(Manned \cup Supply) = Cardinality(Manned) + Cardinality(Supply) - Cardinality(Manned \cap Supply)
    BY <1>6, FS_Union
  <2>2. Cardinality({}) = 0 /\ Cardinality(Manned) \in Nat /\ Cardinality(Supply) \in Nat
    BY <1>6, FS_EmptySet, FS_CardinalityType
  <2>3. Cardinality(Manned \cap Supply) = 0 /\ Cardinality(Held) = Cardinality(Manned \cup Supply)
    BY <1>5, <2>2, Zenon
  <2>. QED  BY <2>1, <2>2, <2>3
<1>11. Cardinality(Manned) \in Nat /\ Cardinality(Supply) \in Nat
  BY <1>6, FS_CardinalityType
<1>12. Cardinality(Held) <= OnNodes(N, side) + Cardinality(Supply)
  BY <1>4, <1>7, <1>8, <1>9, <1>10, <1>11
<1>. QED  BY <1>12 DEF Held, Supply

(* It holds at first. *)
LEMMA UnitsInit == Init => UnitsInv
<1> SUFFICES ASSUME Init PROVE UnitsInv
  OBVIOUS
<1>1. RoomInv
  BY RoomInit
<1>2. ASSUME NEW s \in Side PROVE UnitsOf(s) = 0
  <2> DEFINE f == [n \in NodeIds |-> nodes[n].mobile[s]]
             g == [e \in EdgeIds |-> UnitsOnEdge(edges[e], s)]
  <2>1. ASSUME NEW n \in NodeIds PROVE nodes[n].mobile[s] = 0
    <3>1. NodeType[n] \in NodeTypes /\ nodes[n] = NewNode(NodeType[n])
      BY MapAssumption DEF Init
    <3>. QED  BY <3>1, NewEstablishes
  <2>2. ASSUME NEW e \in EdgeIds PROVE UnitsOnEdge(edges[e], s) = 0
    <3>1. PICK d \in {1, 2} : d = EdgeMap[e].distance
      BY EdgeFacts
    <3>2. PICK T : T = Seq(Groups)
      OBVIOUS
    <3>3. PICK empty \in T : empty = <<>>
      BY <3>2, EmptySeq
    <3>4. edges[e] = [k \in 1..d |-> empty]
      BY <3>1, <3>3 DEF Init, EmptyEdge
    <3>5. PICK t \in [1..d -> T] : t = edges[e] /\ t[1] = empty /\ (d = 2 => t[2] = empty)
      BY <3>4
    <3>6. UnitsIn(empty, s) = 0
      BY <3>2, <3>3, UnitsInFacts
    <3>7. d = 1 => UnitsOnEdge(t, s) = UnitsIn(t[1], s)
      BY <3>2, UnitsOnEdgeFacts
    <3>8. d = 2 => UnitsOnEdge(t, s) = UnitsIn(t[1], s) + UnitsIn(t[2], s)
      BY <3>2, UnitsOnEdgeFacts
    <3>. QED  BY <3>5, <3>6, <3>7, <3>8
  <2>3. (\A n \in NodeIds : f[n] = 0) /\ (\A e \in EdgeIds : g[e] = 0)
    BY <2>1, <2>2
  <2>4. OnNodes(nodes, s) = SumFunctionOnSet(f, NodeIds) /\ OnEdges(edges, s) = SumFunctionOnSet(g, EdgeIds)
    BY DEF OnNodes, OnEdges, SumFunction
  <2>5. IsFiniteSet(NodeIds) /\ IsFiniteSet(EdgeIds)
    BY MapAssumption, EdgeFacts, FS_Interval
  <2> HIDE DEF f, g
  <2>6. OnNodes(nodes, s) = 0 /\ OnEdges(edges, s) = 0
    BY <2>3, <2>4, <2>5, SumOfZeros
  <2>. QED  BY <1>1, <2>6, UnitsOfIsTotal
<1>3. NoUnitFromNothing
  BY <1>2, BoundsAssumption DEF NoUnitFromNothing
<1>4. ConquestNeedsUnits
  BY DEF Init, NoGameOver, ConquestNeedsUnits
<1>. QED  BY <1>3, <1>4 DEF UnitsInv

(* A player joins with the units he is given. *)
LEMMA UnitsAddPlayer ==
  ASSUME RoomInv, UnitsInv, NEW side \in Side, AddPlayer(side)
  PROVE  UnitsInv'
<1> DEFINE x == StartNode[side]
<1>1. RoomInv'
  BY RoomAddPlayer
<1>2. /\ nodes \in Boards /\ nodes' \in Boards /\ edges' = edges /\ gameOver' = gameOver
      /\ x \in NodeIds /\ nodes' = [nodes EXCEPT ![x] = PlaceStartingUnits(@, side, InitialUnits)]
      /\ players' = players \cup {side} /\ side \notin players
  <2>1. side \notin players
    <3>1. players \in {{}, {"A"}, Side} /\ players # Side /\ side = IF players = {} THEN "A" ELSE "B"
      BY DEF AddPlayer, RoomInv, BoardInv
    <3>. QED  BY <3>1 DEF Side
  <2>. QED  BY <1>1, <2>1, MapAssumption DEF AddPlayer, RoomInv, BoardInv
<1> HIDE DEF x
<1>3. ASSUME NEW s \in Side
      PROVE  UnitsOf(s)' = UnitsOf(s) + Share(InitialUnits, side, s)
  <2>1. nodes[x] \in NodeStates /\ nodes \in [NodeIds -> NodeStates]
    BY <1>2 DEF Boards
  <2>2. /\ nodes'[x].mobile = [nodes[x].mobile EXCEPT ![side] = @ + InitialUnits]
        /\ \A n \in NodeIds : n # x => nodes'[n] = nodes[n]
    BY <1>2, <2>1 DEF PlaceStartingUnits, NodeStates
  <2>3. nodes[x].mobile \in [Side -> Nat] /\ InitialUnits \in Nat
    BY <2>1, BoundsAssumption DEF NodeStates
  <2>4. nodes'[x].mobile[s] = nodes[x].mobile[s] + Share(InitialUnits, side, s)
    BY <2>2, <2>3 DEF Share
  <2>5. OnNodes(nodes', s) + nodes[x].mobile[s] = OnNodes(nodes, s) + nodes'[x].mobile[s]
    <3>1. \A n \in NodeIds : n # x => nodes'[n].mobile[s] = nodes[n].mobile[s]
      BY <2>2
    <3>2. PICK N \in Boards : N = nodes'
      BY <1>2
    <3>3. nodes \in Boards /\ x \in NodeIds
      BY <1>2
    <3>4. \A n \in NodeIds : n # x => N[n].mobile[s] = nodes[n].mobile[s]
      BY <3>1, <3>2
    <3>5. OnNodes(N, s) + nodes[x].mobile[s] = OnNodes(nodes, s) + N[x].mobile[s]
      BY <3>3, <3>4, OnNodesUpdated, Zenon
    <3>. QED  BY <3>2, <3>5
  <2>6. Share(InitialUnits, side, s) \in Nat
    BY <2>3 DEF Share
  <2>7. OnNodes(nodes, s) \in Nat /\ OnNodes(nodes', s) \in Nat /\ nodes[x].mobile[s] \in Nat
    BY <1>2, <2>3, OnNodesIsNat
  <2>8. OnNodes(nodes', s) = OnNodes(nodes, s) + Share(InitialUnits, side, s)
    BY <2>4, <2>5, <2>6, <2>7
  <2>9. UnitsOf(s) = OnNodes(nodes, s) + OnEdges(edges, s) /\ OnEdges(edges, s) \in Nat
    BY UnitsOfIsTotal
  <2>10. UnitsOf(s)' = OnNodes(nodes', s) + OnEdges(edges', s)
    BY DEF UnitsOf, UnitsOnNodes, UnitsOnEdges, OnNodes, OnEdges
  <2>. QED  BY <1>2, <2>6, <2>7, <2>8, <2>9, <2>10
<1>4. NoUnitFromNothing'
  <2>1. ASSUME NEW s \in Side
        PROVE  UnitsOf(s)' <= IF s \in players' THEN InitialUnits ELSE 0
    <3>1. UnitsOf(s) <= (IF s \in players THEN InitialUnits ELSE 0) /\ UnitsOf(s) \in Nat
      BY UnitsOfIsTotal DEF UnitsInv, NoUnitFromNothing
    <3>. QED  BY <1>2, <1>3, <3>1, BoundsAssumption DEF Share
  <2>. QED  BY <2>1 DEF NoUnitFromNothing
<1>5. ConquestNeedsUnits'
  BY <1>2 DEF UnitsInv, ConquestNeedsUnits
<1>. QED  BY <1>4, <1>5 DEF UnitsInv

(* A round that is resolved makes no unit. *)
LEMMA UnitsResolveRound ==
  ASSUME RoomInv, UnitsInv, phase = "Planning", NEW E \in Traffic, ResolveRound(E, <<>>),
         \A s \in Side : OnEdges(E, s) <= OnEdges(edges, s)
  PROVE  UnitsInv'
<1> DEFINE start == [nodes |-> nodes, edges |-> E]
           half == Depart(start, "A")
           left == Depart(half, "B")
           blocked == Blocked(Encounters(Moved(left.edges)))
           end == RoundEnd(left, blocked)
<1>1. /\ nodes' = end.nodes /\ edges' = end.edges /\ players' = players
      /\ gameOver'.reason = "AllNodesCaptured" =>
           gameOver' = gameOver \/ AllNodesCaptured(nodes')
  BY DEF ResolveRound, Moved, RoundEnd
<1>2. /\ start \in Worlds /\ pendingMoves["A"] \in Seq(Moves) /\ pendingMoves["B"] \in Seq(Moves)
      /\ \A n \in NodeIds : /\ Reserved(pendingMoves["A"], n) <= start.nodes[n].mobile["A"]
                            /\ Reserved(pendingMoves["B"], n) <= start.nodes[n].mobile["B"]
  BY DEF RoomInv, BoardInv, NoDoubleSpending, Worlds, Side
<1> HIDE DEF start
<1>3. /\ half \in Worlds /\ \A s \in Side : Total(half, s) = Total(start, s)
      /\ \A n \in NodeIds : half.nodes[n].mobile["B"] = start.nodes[n].mobile["B"]
  BY <1>2, Sides, DepartTyped, DepartKeeps
<1> HIDE DEF half
<1>4. left \in Worlds /\ \A s \in Side : Total(left, s) = Total(half, s)
  BY <1>2, <1>3, Sides, DepartTyped, DepartKeeps
<1> HIDE DEF left, blocked
<1>5. ASSUME NEW s \in Side PROVE UnitsOf(s)' <= UnitsOf(s)
  <2>1. Total(end, s) <= Total(left, s) /\ Total(end, s) \in Nat /\ Total(left, s) \in Nat
    BY <1>4, RoundEndUnits
  <2>2. Total(left, s) = Total(start, s)
    BY <1>3, <1>4
  <2>3. Total(start, s) = OnNodes(nodes, s) + OnEdges(E, s)
    BY DEF Total, start
  <2>4. UnitsOf(s)' = Total(end, s)
    BY <1>1 DEF Total, UnitsOf, UnitsOnNodes, UnitsOnEdges, OnNodes, OnEdges
  <2>5. UnitsOf(s) = OnNodes(nodes, s) + OnEdges(edges, s) /\ OnNodes(nodes, s) \in Nat /\ OnEdges(edges, s) \in Nat
    BY UnitsOfIsTotal
  <2>6. OnEdges(E, s) \in Nat /\ OnEdges(E, s) <= OnEdges(edges, s)
    BY OnEdgesIsNat
  <2> HIDE DEF end
  <2>. QED  BY <2>1, <2>2, <2>3, <2>4, <2>5, <2>6
<1> HIDE DEF end
<1>6. RoomInv'
  BY RoomResolveRound
<1>7. ASSUME NEW s \in Side PROVE UnitsOf(s) \in Nat
  <2>1. UnitsOf(s) = OnNodes(nodes, s) + OnEdges(edges, s) /\ OnNodes(nodes, s) \in Nat /\ OnEdges(edges, s) \in Nat
    BY UnitsOfIsTotal
  <2>. QED  BY <2>1
<1>8. ASSUME NEW s \in Side
      PROVE  /\ UnitsOf(s)' = OnNodes(nodes', s) + OnEdges(edges', s)
             /\ OnNodes(nodes', s) \in Nat /\ OnEdges(edges', s) \in Nat
  <2>1. nodes' \in Boards /\ edges' \in Traffic
    BY <1>6 DEF RoomInv, BoardInv
  <2>. QED
    BY <2>1, OnNodesIsNat, OnEdgesIsNat DEF UnitsOf, UnitsOnNodes, UnitsOnEdges, OnNodes, OnEdges
<1>9. ASSUME NEW s \in Side
      PROVE  UnitsOf(s)' <= (IF s \in players THEN InitialUnits ELSE 0)
  <2>1. UnitsOf(s) <= IF s \in players THEN InitialUnits ELSE 0
    BY DEF UnitsInv, NoUnitFromNothing
  <2>. QED  BY <1>5, <1>7, <1>8, <2>1, BoundsAssumption
<1>10. NoUnitFromNothing'
  BY <1>1, <1>9 DEF NoUnitFromNothing
<1>11. ConquestNeedsUnits'
  <2>1. CASE gameOver' = gameOver
    BY <2>1 DEF UnitsInv, ConquestNeedsUnits
  <2>2. CASE gameOver'.reason = "AllNodesCaptured" /\ AllNodesCaptured(nodes')
    <3> DEFINE held == Cardinality({n \in NodeIds : NodeType[n] # "Headquarters"})
               supply == Cardinality({n \in NodeIds : NodeType[n] = "SupplyLine"})
    <3>1. PICK s \in Side : \A n \in NodeIds : NodeType[n] # "Headquarters" => nodes'[n].ownership = s
      BY <2>2 DEF AllNodesCaptured
    <3>2. held <= OnNodes(nodes', s) + supply
      BY <1>6, <3>1, OwnersHaveUnits DEF RoomInv, BoardInv
    <3>3. held \in Nat /\ supply \in Nat
      <4>1. IsFiniteSet({n \in NodeIds : NodeType[n] # "Headquarters"})
        BY MapAssumption, FS_Subset
      <4>2. IsFiniteSet({n \in NodeIds : NodeType[n] = "SupplyLine"})
        BY MapAssumption, FS_Subset
      <4>. QED  BY <4>1, <4>2, FS_CardinalityType
    <3> HIDE DEF held, supply
    <3>4. held <= InitialUnits + supply
      BY <1>8, <1>9, <3>2, <3>3, BoundsAssumption
    <3>. QED  BY <3>4 DEF ConquestNeedsUnits, held, supply
  <2>3. CASE gameOver'.reason # "AllNodesCaptured"
    BY <2>3 DEF ConquestNeedsUnits
  <2>. QED  BY <1>1, <2>1, <2>2, <2>3
<1>. QED  BY <1>10, <1>11 DEF UnitsInv

(* So every step preserves it. *)
LEMMA UnitsNext == RoomInv /\ UnitsInv /\ [Next]_vars => UnitsInv'
<1> SUFFICES ASSUME RoomInv, UnitsInv, [Next]_vars PROVE UnitsInv'
  OBVIOUS
<1>0. Board \in Rooms /\ Board.edges = edges /\ Board.pending = pendingEncounters
  BY DEF RoomInv, BoardInv, Board, Rooms, Current
<1>1. CASE \E side \in Side : AddPlayer(side)
  BY <1>1, UnitsAddPlayer
<1>2. CASE UNCHANGED <<players, nodes, edges, gameOver>>
  BY <1>2 DEF UnitsInv, NoUnitFromNothing, ConquestNeedsUnits, UnitsOf, UnitsOnNodes, UnitsOnEdges
<1>3. CASE \E side \in Side, e \in EdgeIds, decision \in Decisions :
              ResolveEncounter(side, e, decision)
  <2>1. PICK side \in Side, e \in EdgeIds, decision \in Decisions : ResolveEncounter(side, e, decision)
    BY <1>3
  <2>2. /\ MayDecide(Board.pending, e, side) /\ edges' = Decide(Board, e, side, decision).edges
        /\ UNCHANGED <<players, nodes, gameOver>>
    BY <1>0, <2>1 DEF ResolveEncounter
  <2>3. edges' \in Traffic
    <3>1. Decide(Board, e, side, decision) \in Rooms
      BY <1>0, <2>2, DecideFacts
    <3>. QED  BY <2>2, <3>1 DEF Rooms
  <2>4. ASSUME NEW s \in Side
        PROVE  UnitsOf(s)' <= IF s \in players THEN InitialUnits ELSE 0
    <3>1. OnEdges(edges', s) <= OnEdges(edges, s)
      BY <1>0, <2>2, DecideKeeps
    <3>2. UnitsOf(s) = OnNodes(nodes, s) + OnEdges(edges, s) /\ OnNodes(nodes, s) \in Nat /\ OnEdges(edges, s) \in Nat
      BY UnitsOfIsTotal
    <3>3. UnitsOf(s)' = OnNodes(nodes, s) + OnEdges(edges', s) /\ OnEdges(edges', s) \in Nat
      BY <2>2, <2>3, OnEdgesIsNat DEF UnitsOf, UnitsOnNodes, UnitsOnEdges, OnNodes, OnEdges
    <3>4. UnitsOf(s) <= IF s \in players THEN InitialUnits ELSE 0
      BY DEF UnitsInv, NoUnitFromNothing
    <3>. QED  BY <3>1, <3>2, <3>3, <3>4, BoundsAssumption
  <2>5. NoUnitFromNothing'
    BY <2>2, <2>4 DEF NoUnitFromNothing
  <2>. QED  BY <2>2, <2>5 DEF UnitsInv, ConquestNeedsUnits
<1>4. CASE CheckAndResolveIfReady
  <2>1. pendingEncounters = <<>>
    BY <1>4, NoneLeft
  <2>2. edges \in Traffic /\ \A s \in Side : OnEdges(edges, s) <= OnEdges(edges, s)
    BY OnEdgesIsNat DEF RoomInv, BoardInv
  <2>. QED  BY <1>4, <2>1, <2>2, UnitsResolveRound DEF CheckAndResolveIfReady
<1>5. CASE PlanningTimeout
  <2>1. /\ AutoRetreat(Board).edges \in Traffic /\ AutoRetreat(Board).pending = <<>>
        /\ \A s \in Side : OnEdges(AutoRetreat(Board).edges, s) <= OnEdges(edges, s)
    BY <1>0, AutoRetreatFacts
  <2>. QED  BY <1>5, <2>1, UnitsResolveRound DEF PlanningTimeout
<1>6. CASE \E winner \in Side : ForceGameOver(winner)
  BY <1>6 DEF ForceGameOver, UnitsInv, NoUnitFromNothing, ConquestNeedsUnits, UnitsOf, UnitsOnNodes, UnitsOnEdges
<1>7. CASE \E side \in Side, e \in EdgeIds, from, to \in NodeIds,
              requested \in 1..MaxUnitsPerPlayer : MoveUnits(side, e, from, to, requested)
  BY <1>2, <1>7 DEF MoveUnits
<1>8. CASE UNCHANGED vars
  BY <1>2, <1>8 DEF vars
<1>. QED
  BY <1>1, <1>3, <1>4, <1>5, <1>6, <1>7, <1>8 DEF Next

(* It is an invariant. *)
LEMMA UnitsCorrect == Spec => []UnitsInv
<1>1. RoomInv /\ UnitsInv /\ [Next]_vars => UnitsInv'
  BY UnitsNext
<1>. QED  BY UnitsInit, RoomCorrect, <1>1, PTL DEF Spec

(* No call creates units: a side never has more than it was given when it   *)
(* joined, on the nodes and the edges together.  Departures take what       *)
(* MoveUnits reserved, a retreat puts back the group it takes off, and what *)
(* arrives has left its edge. *)
THEOREM UnitsAreConserved == Spec => []NoUnitFromNothing
<1>1. UnitsInv => NoUnitFromNothing
  BY DEF UnitsInv
<1>. QED  BY <1>1, UnitsCorrect, PTL

(* CheckGameOver reports AllNodesCaptured only on a map small enough for    *)
(* one side to hold it with the units it was given. *)
THEOREM ConquestTakesUnits == Spec => []ConquestNeedsUnits
<1>1. UnitsInv => ConquestNeedsUnits
  BY DEF UnitsInv
<1>. QED  BY <1>1, UnitsCorrect, PTL
=============================================================================
