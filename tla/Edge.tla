-------------------------------- MODULE Edge --------------------------------
(***************************************************************************)
(* The Edge entity (Entities/Edge.cs): the groups of units that travel on  *)
(* one edge, by the number of rounds they still need.  TravelingUnits is a *)
(* function from 1..distance to sequences of groups; a key the code's      *)
(* SortedList does not hold is an empty sequence here, which no method of  *)
(* Edge tells apart.                                                       *)
(***************************************************************************)
EXTENDS Node, Filter, SequencesExt

(* TravelingGroup *)
Group(side, count, destination) ==
  [side |-> side, count |-> count, destination |-> destination]

EmptyEdge(distance) == [k \in 1..distance |-> <<>>]

(* A new group always starts with the whole distance ahead of it. *)
StartTravel(t, distance, side, count, destination) ==
  [t EXCEPT ![distance] = Append(@, Group(side, count, destination))]

(* AdvanceRound returns the groups that arrive ... *)
Arrived(t) == t[1]

(* ... and moves the others one round closer. *)
AdvanceRound(t) ==
  [k \in DOMAIN t |-> IF k + 1 \in DOMAIN t THEN t[k + 1] ELSE <<>>]

GroupsOf(groups, side) == Filtered(groups, LAMBDA g : g.side = side)

(* Both sides have a group with the same number of rounds left, in         *)
(* whatever direction they travel. *)
HasEncounter(groups) == \A side \in Side : GroupsOf(groups, side) # <<>>

(* One encounter for every key with both sides, nearest arrival first,     *)
(* between the first group of A and the first group of B. *)
FindAllEncounters(t) ==
  LET keys == Filtered([k \in DOMAIN t |-> k], LAMBDA k : HasEncounter(t[k]))
  IN  [i \in DOMAIN keys |->
         [groups |-> [side \in Side |-> GroupsOf(t[keys[i]], side)[1]],
          remaining |-> keys[i]]]

(* Fault: the group stays behind while it retreats. *)
RemoveNothing(t, side) == t

(* All the groups of the side leave the edge, not only the one that met    *)
(* the enemy. *)
RemoveTravelingGroup(t, side) ==
  [k \in DOMAIN t |-> Filtered(t[k], LAMBDA g : g.side # side)]
=============================================================================
