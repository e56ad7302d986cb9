------------------------------ MODULE NodeLife ------------------------------
(***************************************************************************)
(* The life of one node: arrivals and departures in any order the room can *)
(* make of them.  The room bounds the units of a side (MaxUnitsPerPlayer   *)
(* in GameRoom.cs); here that bound is MaxUnits.                           *)
(***************************************************************************)
EXTENDS Node

CONSTANT MaxUnits

ASSUME MaxUnitsAssumption == MaxUnits \in Nat \ {0}

VARIABLE node

(* A node as InitializeMap creates it, or a start node as AddPlayer leaves *)
(* it.  Start nodes are out posts.                                         *)
Init ==
  \/ \E type \in NodeTypes : node = NewNode(type)
  \/ \E side \in Side :
       node = PlaceStartingUnits(NewNode("OutPost"), side, MaxUnits)

Arrive(side, count) ==
  /\ node.mobile[side] + count <= MaxUnits
  /\ node' = ArriveMobileUnits(node, side, count)

Depart(side, requested) ==
  /\ node.mobile[side] > 0
  /\ node' = DepartMobileUnits(node, side, requested)

Next ==
  \E side \in Side, count \in 1..MaxUnits :
    Arrive(side, count) \/ Depart(side, count)

Spec == Init /\ [][Next]_node

-----------------------------------------------------------------------------
(* The record keeps its shape and the mobile units their bound. *)
TypeOK ==
  /\ node \in NodeStates
  /\ \A s \in Side : node.mobile[s] \in 0..MaxUnits

(* A garrison stands on a supply line, for its owner, and only there: the  *)
(* two unit groups, the type and the ownership agree after every call, in  *)
(* whichever order DeactivateSupplyLine and ActivateSupplyLineIfNeeded ran. *)
GarrisonIffSupplyOwner ==
  \A s \in Side :
    node.garrison[s] = 1 <=> node.type = "SupplyLine" /\ node.ownership = s

(* The recorded owner really outnumbers the enemy, garrisons included:     *)
(* UpdateOwnership counts before it moves the garrison, so this also says  *)
(* that moving the garrison never undoes the count.                        *)
OwnerHasMajority ==
  \A s \in Side :
    node.ownership = s => GetTotalCount(node, s) > GetTotalCount(node, Enemy(s))

(* Outside the headquarters only an empty node is neutral. *)
NeutralIsEmpty ==
  node.ownership = "Neutral" /\ node.type # "Headquarters" =>
    \A s \in Side : GetTotalCount(node, s) = 0

(* No side is ever ahead by more than one unit on a contested node.  It    *)
(* can be ahead by one: the tie that makes a supply line contested removes *)
(* the garrison that made it a tie, and nobody counts again.               *)
ContestedMargin ==
  node.ownership = "Contested" =>
    \A s \in Side : GetTotalCount(node, s) <= GetTotalCount(node, Enemy(s)) + 1

(* Withdrawing units never wins a node: a departure gives it to the enemy  *)
(* or to nobody.  This needs ContestedMargin: with a wider margin on a     *)
(* contested node the leading side could leave and become its owner.       *)
DepartureNeverCaptures ==
  [][\A s \in Side :
       node'.mobile[s] < node.mobile[s] /\ node'.ownership = s =>
         node.ownership = s]_node

=============================================================================
