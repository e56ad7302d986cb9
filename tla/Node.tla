-------------------------------- MODULE Node --------------------------------
(***************************************************************************)
(* The Node entity of the domain layer (Entities/Node.cs) with the unit    *)
(* groups it holds (ValueObjects/UnitGroup.cs).  A node is a record, and   *)
(* every method that changes it is an operator from the node before to the *)
(* node after.                                                             *)
(***************************************************************************)
EXTENDS Integers

(* Operators marked "Fault" are mistakes the properties have to notice; no  *)
(* specification uses them. *)

(* PlayerSide.  NodeOwnership.PlayerA and PlayerB are the sides themselves. *)
Side == {"A", "B"}
Enemy(side) == IF side = "A" THEN "B" ELSE "A"

NodeTypes == {"OutPost", "Chokepoint", "SupplyLine", "Headquarters"}
Ownerships == Side \cup {"Neutral", "Contested"}

NodeStates ==
  [type : NodeTypes, ownership : Ownerships,
   mobile : [Side -> Nat], garrison : [Side -> {0, 1}]]

NewNode(type) ==
  [type |-> type, ownership |-> "Neutral",
   mobile |-> [s \in Side |-> 0], garrison |-> [s \in Side |-> 0]]

GetTotalCount(n, side) == n.mobile[side] + n.garrison[side]

-----------------------------------------------------------------------------
(* Fault: a tie goes to A. *)
TieGoesToA(n) ==
  IF GetTotalCount(n, "A") >= GetTotalCount(n, "B") THEN "A" ELSE "B"

(* Fault: the comparison is the wrong way round. *)
MinorityOwns(n) ==
  LET a == GetTotalCount(n, "A")
      b == GetTotalCount(n, "B")
  IN  IF a < b THEN "A" ELSE IF a > b THEN "B" ELSE "Contested"

(* The owner the head count alone calls for. *)
OwnerByCount(n) ==
  LET a == GetTotalCount(n, "A")
      b == GetTotalCount(n, "B")
  IN  IF a > b THEN "A"
      ELSE IF a < b THEN "B"
      ELSE IF a = 0 THEN "Neutral" ELSE "Contested"

(* The owner of a supply line gets its garrison of one. *)
ActivateSupplyLineIfNeeded(n) ==
  IF n.type = "SupplyLine"
  THEN [n EXCEPT !.garrison =
          [s \in Side |-> IF n.ownership = s THEN 1 ELSE n.garrison[s]]]
  ELSE n

(* Fault: the old garrison is left where it is. *)
KeepGarrisons(n) == n

(* Whoever does not own the supply line loses the garrison. *)
DeactivateSupplyLine(n) ==
  IF n.type = "SupplyLine"
  THEN [n EXCEPT !.garrison =
          [s \in Side |-> IF n.ownership = s THEN n.garrison[s] ELSE 0]]
  ELSE n

(* The head count is taken with the old garrison: the garrison that a      *)
(* change of ownership removes or adds does not enter it.                  *)
UpdateOwnership(n) ==
  LET owner == IF n.type = "Headquarters" THEN "Neutral" ELSE OwnerByCount(n)
      owned == [n EXCEPT !.ownership = owner]
  IN  IF n.type = "Headquarters" \/ owner = n.ownership
      THEN owned
      ELSE ActivateSupplyLineIfNeeded(DeactivateSupplyLine(owned))

(* Fault: an arrival that does not count again. *)
ArriveUncounted(n, side, count) == [n EXCEPT !.mobile[side] = @ + count]

(* Requires count > 0: the code throws otherwise. *)
ArriveMobileUnits(n, side, count) ==
  ActivateSupplyLineIfNeeded(
    UpdateOwnership([n EXCEPT !.mobile[side] = @ + count]))

(* Faults: a departure that does not count again, or takes all it is asked. *)
DepartUncounted(n, side, requested) ==
  [n EXCEPT !.mobile[side] = IF requested < @ THEN @ - requested ELSE 0]
DepartUnchecked(n, side, requested) ==
  UpdateOwnership([n EXCEPT !.mobile[side] = @ - requested])

(* Requires GetMobileCount > 0 and requested > 0: the code throws           *)
(* otherwise.  At most the units that are there depart.                    *)
DepartMobileUnits(n, side, requested) ==
  LET actual == IF requested < n.mobile[side] THEN requested ELSE n.mobile[side]
  IN  UpdateOwnership([n EXCEPT !.mobile[side] = @ - actual])

(* GameRoom.AddPlayer sets units and owner of a start node directly: it    *)
(* does not go through UpdateOwnership.                                    *)
PlaceStartingUnits(n, side, count) ==
  [n EXCEPT !.mobile[side] = @ + count, !.ownership = side]
=============================================================================
