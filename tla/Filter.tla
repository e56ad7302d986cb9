------------------------------- MODULE Filter -------------------------------
(***************************************************************************)
(* The elements of a sequence that pass a test, in order: Where of LINQ,   *)
(* LREM of Redis.  SelectSeq of the standard module is the same, but has   *)
(* no definition that a proof could use.                                   *)
(***************************************************************************)
EXTENDS Integers, Sequences

(* The elements of s at the indices. *)
Picked(s, indices) ==
  LET picked[i \in 0..Len(s)] ==
        IF i = 0 THEN <<>>
        ELSE IF i \in indices THEN Append(picked[i - 1], s[i]) ELSE picked[i - 1]
  IN  picked[Len(s)]

Filtered(s, Test(_)) == Picked(s, {i \in 1..Len(s) : Test(s[i])})
=============================================================================
