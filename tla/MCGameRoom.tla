----------------------------- MODULE MCGameRoom -----------------------------
(***************************************************************************)
(* Maps for TLC: the whole one, as InitializeMap creates it, and the parts *)
(* of it that the runs play on.                                            *)
(***************************************************************************)
EXTENDS GameRoom

AllNodeTypes ==
  <<"OutPost", "Chokepoint", "SupplyLine", "Chokepoint", "OutPost", "Headquarters">>

Road(from, to, distance) == [from |-> from, to |-> to, distance |-> distance]

AllRoads ==
  <<Road(1, 2, 1), Road(1, 4, 2), Road(1, 5, 2), Road(1, 6, 1),
    Road(2, 3, 2), Road(2, 6, 1), Road(3, 4, 1), Road(3, 5, 1),
    Road(3, 6, 1), Road(4, 5, 1), Road(4, 6, 1), Road(5, 6, 1)>>

PartOf(ids) == SelectSeq(AllRoads, LAMBDA r : {r.from, r.to} \subseteq ids)
TypesOf(ids) == [n \in ids |-> AllNodeTypes[n]]

Starts == [s \in Side |-> IF s = "A" THEN 1 ELSE 5]

(* The roads that the browser draws. *)
EDGES ==
  <<<<1, 2>>, <<1, 4>>, <<1, 5>>, <<1, 6>>, <<2, 3>>, <<2, 6>>,
    <<3, 4>>, <<3, 5>>, <<3, 6>>, <<4, 5>>, <<4, 6>>, <<5, 6>>>>

(* The player sees the map he plays on: every road of the room is drawn,   *)
(* and no other. *)
ASSUME BoardIsTheMap ==
  EDGES = [i \in DOMAIN AllRoads |-> <<AllRoads[i].from, AllRoads[i].to>>]

(* The start nodes, two rounds apart, with the headquarters and the supply *)
(* line near one of them: long enough for B to walk over the supply line   *)
(* while A does what it likes, and for the two to meet on the long road.   *)
DuelIds == {1, 3, 4, 5, 6}
DuelTypes == TypesOf(DuelIds)
DuelRoads == <<Road(1, 5, 2), Road(1, 6, 1), Road(3, 4, 1), Road(3, 5, 1)>>

(* The start nodes, the supply line and the way round through the south.   *)
SouthIds == {1, 3, 4, 5}
SouthTypes == TypesOf(SouthIds)
SouthRoads == PartOf(SouthIds)
=============================================================================
