----------------------------- MODULE NodeProofs -----------------------------
(***************************************************************************)
(* The invariants of a node, for every bound on the number of units.       *)
(***************************************************************************)
EXTENDS NodeLife, OperatorLemmas

(* A node as the room creates it satisfies the invariant. *)
LEMMA InitEstablishes == Init => NodeInv(node) /\ \A s \in Side : node.mobile[s] \in 0..MaxUnits
<1>1. ASSUME NEW type \in NodeTypes, node = NewNode(type)
      PROVE  NodeInv(node) /\ \A s \in Side : node.mobile[s] \in 0..MaxUnits
  BY <1>1, NewEstablishes, MaxUnitsAssumption
<1>2. ASSUME NEW side \in Side, node = PlaceStartingUnits(NewNode("OutPost"), side, MaxUnits)
      PROVE  NodeInv(node) /\ \A s \in Side : node.mobile[s] \in 0..MaxUnits
  <2>1. "OutPost" \in NodeTypes \ {"SupplyLine"}
    BY DEF NodeTypes
  <2>2. NodeInv(node) /\ node.mobile = Alone(side, MaxUnits)
    BY <1>2, <2>1, PlaceEstablishes, MaxUnitsAssumption, ZenonT(60)
  <2>. QED  BY <2>2, MaxUnitsAssumption DEF Alone
<1>3. QED
  BY <1>1, <1>2 DEF Init

(* What one step of the life of a node preserves. *)
LEMMA NextPreserves ==
  ASSUME NodeInv(node), \A s \in Side : node.mobile[s] \in 0..MaxUnits, [Next]_node
  PROVE  NodeInv(node)' /\ \A s \in Side : node'.mobile[s] \in 0..MaxUnits
<1>0. node.mobile \in [Side -> Nat]
  BY DEF NodeInv, NodeStates
<1>1. ASSUME NEW side \in Side, NEW count \in 1..MaxUnits, Arrive(side, count)
      PROVE  NodeInv(node)' /\ \A s \in Side : node'.mobile[s] \in 0..MaxUnits
  <2>1. count \in Nat /\ node.mobile[side] + count \in 0..MaxUnits
    BY <1>0, <1>1, MaxUnitsAssumption DEF Arrive
  <2>2. NodeInv(node') /\ node'.mobile = [node.mobile EXCEPT ![side] = @ + count]
    BY <1>1, <2>1, ArriveEstablishes DEF Arrive
  <2>3. QED
    BY <1>0, <2>1, <2>2
<1>2. ASSUME NEW side \in Side, NEW count \in 1..MaxUnits, Depart(side, count)
      PROVE  NodeInv(node)' /\ \A s \in Side : node'.mobile[s] \in 0..MaxUnits
  <2>1. count \in Nat
    BY MaxUnitsAssumption
  <2>2. /\ NodeInv(node')
        /\ node'.mobile = [node.mobile EXCEPT ![side] = IF count < @ THEN @ - count ELSE 0]
    BY <1>2, <2>1, DepartEstablishes DEF Depart
  <2>3. QED
    BY <1>0, <2>1, <2>2, MaxUnitsAssumption
<1>3. CASE UNCHANGED node
  BY <1>3
<1>4. QED
  BY <1>1, <1>2, <1>3 DEF Next

(* The invariant of a node in one formula. *)
NodeInvariant == NodeInv(node) /\ \A s \in Side : node.mobile[s] \in 0..MaxUnits

(* It is an invariant. *)
LEMMA NodeInvariantHolds == Spec => []NodeInvariant
<1>1. Init => NodeInvariant
  BY InitEstablishes DEF NodeInvariant
<1>2. NodeInvariant /\ [Next]_node => NodeInvariant'
  BY NextPreserves DEF NodeInvariant
<1>3. QED
  BY <1>1, <1>2, PTL DEF Spec

(* The node keeps its type, its bound and the agreement of garrison and    *)
(* ownership, for every number of units.                                   *)
THEOREM NodeTypeCorrect == Spec => []TypeOK
<1>1. NodeInvariant => TypeOK
  BY DEF NodeInvariant, NodeInv, TypeOK
<1>2. QED
  BY <1>1, NodeInvariantHolds, PTL

(* A garrison stands exactly for the owner of a supply line. *)
THEOREM GarrisonFollowsOwner == Spec => []GarrisonIffSupplyOwner
<1>1. NodeInvariant => GarrisonIffSupplyOwner
  BY DEF NodeInvariant, NodeInv, GarrisonIffSupplyOwner
<1>2. QED
  BY <1>1, NodeInvariantHolds, PTL

(* The recorded owner outnumbers the enemy, garrisons included. *)
THEOREM OwnerOutnumbers == Spec => []OwnerHasMajority
<1>1. NodeInvariant => OwnerHasMajority
  BY DEF NodeInvariant, NodeInv, OwnerHasMajority
<1>2. QED
  BY <1>1, NodeInvariantHolds, PTL

(* Only an empty node is neutral, and the margin on a contested node is at *)
(* most one.                                                               *)
THEOREM UnownedNodes == Spec => [](NeutralIsEmpty /\ ContestedMargin)
<1>1. NodeInvariant => NeutralIsEmpty /\ ContestedMargin
  BY DEF NodeInvariant, NodeInv, NeutralIsEmpty, ContestedMargin
<1>2. QED
  BY <1>1, NodeInvariantHolds, PTL

-----------------------------------------------------------------------------
(* Withdrawing units never wins a node.  A departure that left its side in *)
(* the majority left from a lead of two, which by the invariant no other   *)
(* ownership allows.                                                       *)
LEMMA DepartureStep ==
  ASSUME NodeInv(node), [Next]_node, NEW s \in Side,
         node'.mobile[s] < node.mobile[s], node'.ownership = s
  PROVE  node.ownership = s
<1>0. /\ node.mobile \in [Side -> Nat] /\ node.garrison \in [Side -> {0, 1}]
      /\ node.ownership \in Ownerships
  BY DEF NodeInv, NodeStates
<1>1. ASSUME NEW side \in Side, NEW count \in 1..MaxUnits, Arrive(side, count)
      PROVE  FALSE
  <2>1. count \in Nat
    BY MaxUnitsAssumption
  <2>2. node'.mobile = [node.mobile EXCEPT ![side] = @ + count]
    BY <1>1, <2>1, ArriveEstablishes DEF Arrive
  <2>3. QED
    BY <1>0, <2>1, <2>2
<1>2. ASSUME NEW side \in Side, NEW count \in 1..MaxUnits, Depart(side, count)
      PROVE  node.ownership = s
  <2> DEFINE m == node'.mobile
             moved == [node EXCEPT !.mobile = m]
  <2>1. count \in Nat
    BY MaxUnitsAssumption
  <2>0. node' = DepartMobileUnits(node, side, count)
    BY <1>2 DEF Depart
  <2>2. m = [node.mobile EXCEPT ![side] = IF count < @ THEN @ - count ELSE 0]
    BY <2>0, <2>1, DepartEstablishes
  <2>3. m \in [Side -> Nat] /\ m[Enemy(s)] = node.mobile[Enemy(s)]
    BY <1>0, <2>1, <2>2, Sides
  <2>4. node' = UpdateOwnership(moved)
    <3> DEFINE actual == IF count < node.mobile[side] THEN count ELSE node.mobile[side]
               k == [node.mobile EXCEPT ![side] = @ - actual]
    <3>1. actual \in 0..node.mobile[side] /\ k \in [Side -> Nat]
      BY <1>0, <2>1
    <3>2. [node EXCEPT !.mobile[side] = @ - actual] = [node EXCEPT !.mobile = k]
      BY DEF NodeInv, NodeStates
    <3>3. node' = UpdateOwnership([node EXCEPT !.mobile = k])
      BY <1>2, <3>2 DEF Depart, DepartMobileUnits
    <3>4. m = k
      BY <3>1, <3>3, UpdateEstablishes
    <3>5. QED
      BY <3>3, <3>4
  <2> HIDE DEF m
  <2>5. node'.ownership = IF node.type = "Headquarters" THEN "Neutral" ELSE OwnerByCount(moved)
    <3> DEFINE owner == IF node.type = "Headquarters" THEN "Neutral" ELSE OwnerByCount(moved)
               after == [type |-> node.type, ownership |-> owner,
                         mobile |-> m, garrison |-> Garrison(node.type, owner)]
    <3>1. node' = after
      BY <2>3, <2>4, UpdateResult
    <3>2. after.ownership = owner
      OBVIOUS
    <3>3. QED
      BY <3>1, <3>2
  <2>6. node.type # "Headquarters" /\ OwnerByCount(moved) = s
    BY <2>5, Sides
  <2>7. moved.mobile = m /\ moved.garrison = node.garrison
    BY DEF NodeInv, NodeStates
  <2>8. m[s] + node.garrison[s] > m[Enemy(s)] + node.garrison[Enemy(s)]
    BY <1>0, <2>3, <2>6, <2>7, Sides DEF OwnerByCount, GetTotalCount
  <2>9. GetTotalCount(node, s) > GetTotalCount(node, Enemy(s)) + 1
    BY <1>0, <2>3, <2>8, Sides DEF GetTotalCount, m
  <2>10. /\ GetTotalCount(node, s) \in Nat /\ GetTotalCount(node, Enemy(s)) \in Nat
         /\ Enemy(s) \in Side /\ Enemy(Enemy(s)) = s
    BY <1>0, Sides DEF GetTotalCount
  <2>11. node.ownership # "Contested" /\ node.ownership # "Neutral" /\ node.ownership # Enemy(s)
    BY <2>6, <2>9, <2>10 DEF NodeInv
  <2>12. QED
    BY <1>0, <2>11, Sides DEF Ownerships
<1>3. CASE UNCHANGED node
  BY <1>0, <1>3
<1>4. QED
  BY <1>1, <1>2, <1>3 DEF Next

(* A player who takes mobile units from a node never becomes its owner by  *)
(* it (DepartureNeverCaptures, Node.cs DepartMobileUnits, UpdateOwnership). *)
THEOREM WithdrawalNeverWins == Spec => DepartureNeverCaptures
<1>1. NodeInvariant /\ [Next]_node =>
        [\A s \in Side :
           node'.mobile[s] < node.mobile[s] /\ node'.ownership = s =>
             node.ownership = s]_node
  BY DepartureStep DEF NodeInvariant
<1>2. QED
  BY <1>1, NodeInvariantHolds, PTL DEF Spec, DepartureNeverCaptures
=============================================================================
