--------------------------- MODULE MCMatchmaking ---------------------------
(* Small instances of Matchmaking: three players on one server, and two     *)
(* players on two servers, of whom one leaves. *)
EXTENDS Matchmaking

CONSTANTS ann, bob, eve, join1, join2, join3, leave1, s1, s2

OneCallEach == (join1 :> ann) @@ (join2 :> bob) @@ (join3 :> eve)
AnnLeaves == (join1 :> ann) @@ (join2 :> bob) @@ (leave1 :> ann)

OneHost == [c \in Calls |-> s1]
TwoHosts == [c \in Calls |-> IF c = join2 THEN s2 ELSE s1]

(* Players change places, together with their calls. *)
CallOf == (ann :> join1) @@ (bob :> join2) @@ (eve :> join3)
AnyPlayers ==
  {f @@ [c \in DOMAIN OneCallEach |-> CallOf[f[OneCallEach[c]]]] :
    f \in Permutations({ann, bob, eve})}
=============================================================================
