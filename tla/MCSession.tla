----------------------------- MODULE MCSession -----------------------------
(***************************************************************************)
(* Session with two players that nothing tells apart, and with two players *)
(* who are connected to two servers already.                               *)
(***************************************************************************)
EXTENDS Session, TLC

CONSTANTS A, B, s1, s2

SideSymmetry == Permutations(Sides)

(* What Init, Connect(A, s1) and Connect(B, s2) lead to: the one with the  *)
(* owner as its server has a primary timer, the other one a backup timer.  *)
ApartInit ==
  /\ room = [phase |-> "Planning", round |-> 1, owner |-> Creator, moving |-> Sides]
  /\ unsaved = [server |-> None, room |-> room]
  /\ crashed = {} /\ absent = {} /\ leaving = {} /\ failures = 0
  /\ hosting = {s1, s2}
  /\ socket = (A :> s1) @@ (B :> s2)
  /\ timer = [s \in Servers |-> NewTimer(s, 1, Creator)]
  /\ due = [s \in Servers |-> {}]
  /\ completed = [s \in Servers |-> {}]
  /\ unchecked = {}
  /\ inbox = [s \in Servers |-> <<>>]

ApartSpec == ApartInit /\ [][Next]_vars /\ Fairness
=============================================================================
