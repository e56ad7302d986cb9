--------------------------- MODULE OperatorLemmas ---------------------------
(***************************************************************************)
(* What the operators do that the models are built from: filters, folds    *)
(* and sums over sequences and sets, and the methods of a node.            *)
(*                                                                         *)
(* Facts about a fold or a filter need induction.  The induction theorems  *)
(* of the library take an operator, which no prover can supply; here the   *)
(* induction is over a set of numbers, from the least element a well-      *)
(* founded relation has.                                                   *)
(***************************************************************************)
EXTENDS Node, Filter, SequencesExt, SequenceTheorems, FiniteSetTheorems, TLAPS

(* Induction over the natural numbers, for the set of those a fact holds   *)
(* of.                                                                     *)
LEMMA NatSetInduction ==
  ASSUME NEW S, 0 \in S, \A n \in Nat : n \in S => n + 1 \in S
  PROVE  Nat \subseteq S
<1> SUFFICES ASSUME Nat \ S # {} PROVE FALSE
  OBVIOUS
<1> DEFINE R == {p \in Nat \X Nat : p[1] < p[2]}
<1>1. PICK x \in Nat \ S : \A y \in Nat \ S : ~ (<<y, x>> \in R)
  <2>1. IsWellFoundedOn(R, Nat)
    BY NatLessThanWellFounded DEF OpToRel
  <2> HIDE DEF R
  <2>. QED  BY <2>1, WFMin
<1>2. x # 0 /\ x - 1 \in Nat /\ x - 1 < x
  OBVIOUS
<1>3. x - 1 \in S
  BY <1>1, <1>2
<1>4. (x - 1) + 1 \in S
  BY <1>2, <1>3
<1>. QED  BY <1>4

(* The values that come up when step follows step, n times. *)
IsRun(base, n, Step, run) ==
  run[0] = base /\ \A i \in 1..n : run[i] = Step[i][run[i - 1]]

(* A run of n steps within a set exists. *)
LEMMA RecursionExists ==
  ASSUME NEW T, NEW base \in T, NEW n \in Nat, NEW Step \in [1..n -> [T -> T]]
  PROVE  \E run \in [0..n -> T] : IsRun(base, n, Step, run)
<1> DEFINE Upto(k) == \E g \in [0..k -> T] :
                        /\ g[0] = base
                        /\ \A i \in 1..k : g[i] = Step[i][g[i - 1]]
           S == {k \in Nat : k <= n => Upto(k)}
<1>1. Upto(0)
  <2> DEFINE g == [i \in 0..0 |-> base]
  <2>1. g \in [0..0 -> T] /\ g[0] = base /\ \A i \in 1..0 : g[i] = Step[i][g[i - 1]]
    OBVIOUS
  <2>. QED  BY <2>1
<1>2. ASSUME NEW k \in Nat, Upto(k), k + 1 <= n PROVE Upto(k + 1)
  <2>1. PICK g \in [0..k -> T] :
          /\ g[0] = base
          /\ \A i \in 1..k : g[i] = Step[i][g[i - 1]]
    BY <1>2
  <2> DEFINE h == [i \in 0..k + 1 |-> IF i <= k THEN g[i] ELSE Step[k + 1][g[k]]]
  <2>2. Step[k + 1][g[k]] \in T
    <3>1. k + 1 \in 1..n /\ g[k] \in T
      BY <1>2, <2>1
    <3>. QED  BY <3>1
  <2>3. /\ h \in [0..k + 1 -> T]
        /\ \A i \in 0..k : h[i] = g[i]
        /\ h[k + 1] = Step[k + 1][g[k]]
    BY <2>2
  <2> HIDE DEF h
  <2>4. ASSUME NEW i \in 1..k + 1 PROVE h[i] = Step[i][h[i - 1]]
    <3>1. CASE i <= k
      <4>1. i \in 1..k /\ i \in 0..k /\ i - 1 \in 0..k
        BY <3>1
      <4>. QED  BY <2>1, <2>3, <4>1
    <3>2. CASE i = k + 1
      <4>1. i - 1 = k /\ k \in 0..k
        BY <3>2
      <4>. QED  BY <2>3, <3>2, <4>1
    <3>. QED  BY <3>1, <3>2
  <2>5. h[0] = base
    BY <2>1, <2>3
  <2>. QED  BY <2>3, <2>4, <2>5
<1> HIDE DEF Upto
<1>3. 0 \in S /\ \A k \in Nat : k \in S => k + 1 \in S
  BY <1>1, <1>2
<1>4. n \in S
  <2> HIDE DEF S
  <2>. QED  BY <1>3, NatSetInduction
<1>5. Upto(n)
  BY <1>4
<1>6. PICK g \in [0..n -> T] :
        /\ g[0] = base
        /\ \A i \in 1..n : g[i] = Step[i][g[i - 1]]
  BY <1>5 DEF Upto
<1>7. IsRun(base, n, Step, g)
  BY <1>6 DEF IsRun
<1>. QED  BY <1>6, <1>7

-----------------------------------------------------------------------------
(* The function in the definition of Picked: what has been picked so far.  *)
Picking(s, K) ==
  CHOOSE picked : picked =
    [i \in 0..Len(s) |->
       IF i = 0 THEN <<>>
       ELSE IF i \in K THEN Append(picked[i - 1], s[i]) ELSE picked[i - 1]]

(* The recursive function in the definition of Picked, step by step. *)
LEMMA PickedSteps ==
  ASSUME NEW S, NEW s \in Seq(S), NEW K \in SUBSET (1..Len(s))
  PROVE  /\ Picked(s, K) = Picking(s, K)[Len(s)]
         /\ Picking(s, K)[0] = <<>>
         /\ \A i \in 1..Len(s) :
              Picking(s, K)[i] =
                IF i \in K THEN Append(Picking(s, K)[i - 1], s[i])
                ELSE Picking(s, K)[i - 1]
         /\ \A i \in 0..Len(s) : Picking(s, K)[i] \in Seq(S)
<1> DEFINE Body(f) == [i \in 0..Len(s) |->
                         IF i = 0 THEN <<>>
                         ELSE IF i \in K THEN Append(f[i - 1], s[i]) ELSE f[i - 1]]
           h == Picking(s, K)
<1>0. PICK n \in Nat : n = Len(s)
  BY LenProperties
<1>1. PICK T : T = Seq(S)
  OBVIOUS
<1>2. \A i \in 1..n, q \in T : s[i] \in S /\ Append(q, s[i]) \in T
  BY <1>0, <1>1, LenProperties, ElementOfSeq, AppendProperties
<1>3. PICK empty \in T : empty = <<>>
  BY <1>1, EmptySeq
<1>4. h = Body(h)
  <2> DEFINE Step == [i \in 1..n |-> [q \in T |->
                        IF i \in K THEN Append(q, s[i]) ELSE q]]
  <2>1. Step \in [1..n -> [T -> T]]
    BY <1>2
  <2>2. PICK g \in [0..n -> T] : IsRun(empty, n, Step, g)
    <3> HIDE DEF Step, Body, h
    <3>. QED  BY <2>1, RecursionExists
  <2>3. ASSUME NEW i \in 1..n
        PROVE  g[i] = IF i \in K THEN Append(g[i - 1], s[i]) ELSE g[i - 1]
    <3>1. i - 1 \in 0..n
      OBVIOUS
    <3>2. g[i - 1] \in T
      BY <3>1
    <3>. QED  BY <2>2, <3>2 DEF IsRun
  <2>4. \A i \in 0..n : g[i] = IF i = 0 THEN <<>>
           ELSE IF i \in K THEN Append(g[i - 1], s[i]) ELSE g[i - 1]
    <3>1. \A i \in 0..n : i = 0 \/ i \in 1..n
      OBVIOUS
    <3>. QED  BY <1>3, <2>2, <2>3, <3>1 DEF IsRun
  <2>5. g = Body(g)
    BY <1>0, <2>2, <2>4
  <2>. QED  BY <2>5, Zenon DEF Picking
<1>5. /\ h[0] = <<>>
      /\ \A i \in 1..n : h[i] = IF i \in K THEN Append(h[i - 1], s[i]) ELSE h[i - 1]
  <2> HIDE DEF h
  <2>1. \A i \in 0..n : h[i] = IF i = 0 THEN <<>>
           ELSE IF i \in K THEN Append(h[i - 1], s[i]) ELSE h[i - 1]
    BY <1>0, <1>4, Zenon
  <2>2. 0 \in 0..n /\ \A i \in 1..n : i \in 0..n /\ i # 0
    OBVIOUS
  <2>. QED  BY <2>1, <2>2
<1> HIDE DEF Body, h
<1>6. \A i \in 0..n : h[i] \in T
  <2> DEFINE I == {i \in Nat : i <= n => h[i] \in T}
  <2>1. 0 \in I
    BY <1>3, <1>5
  <2>2. ASSUME NEW i \in Nat, i \in I PROVE i + 1 \in I
    <3> SUFFICES ASSUME i + 1 <= n PROVE h[i + 1] \in T
      OBVIOUS
    <3>1. h[i] \in T /\ i + 1 \in 1..n /\ (i + 1) - 1 = i
      BY <2>2
    <3>2. Append(h[i], s[i + 1]) \in T
      BY <1>2, <3>1
    <3>3. h[i + 1] = IF i + 1 \in K THEN Append(h[i], s[i + 1]) ELSE h[i]
      BY <1>5, <3>1
    <3>. QED  BY <3>1, <3>2, <3>3
  <2> HIDE DEF I
  <2>3. Nat \subseteq I
    BY <2>1, <2>2, NatSetInduction
  <2>. QED  BY <2>3 DEF I
<1>7. Picked(s, K) = h[n]
  BY <1>0 DEF Picked, Picking, h
<1>. QED  BY <1>0, <1>1, <1>5, <1>6, <1>7 DEF h

(* What has been picked among the first k elements of s is q; place says    *)
(* where each element of q comes from. *)
IsPlacing(s, K, k, q, place) ==
  /\ place \in [1..Len(q) -> Nat]
  /\ \A j \in 1..Len(q) : place[j] \in K /\ place[j] <= k /\ q[j] = s[place[j]]
  /\ \A i, j \in 1..Len(q) : i < j => place[i] < place[j]
  /\ \A x \in K : x <= k => \E j \in 1..Len(q) : place[j] = x

(* What is picked comes from increasing places of the sequence. *)
LEMMA PickedPlaces ==
  ASSUME NEW S, NEW s \in Seq(S), NEW K \in SUBSET (1..Len(s))
  PROVE  /\ Picked(s, K) \in Seq(S)
         /\ \E place : IsPlacing(s, K, Len(s), Picked(s, K), place)
<1> DEFINE h == Picking(s, K)
<1>0. PICK n \in Nat : n = Len(s)
  BY LenProperties
<1>1. /\ Picked(s, K) = h[n]
      /\ h[0] = <<>>
      /\ \A i \in 1..n :
           h[i] = IF i \in K THEN Append(h[i - 1], s[i]) ELSE h[i - 1]
      /\ \A i \in 0..n : h[i] \in Seq(S)
  BY <1>0, PickedSteps
<1>2. K \subseteq 1..n /\ \A i \in 1..n : s[i] \in S
  BY <1>0, ElementOfSeq
<1> HIDE DEF h
<1> DEFINE P(k) == \E place : IsPlacing(s, K, k, h[k], place)
           I == {k \in Nat : k <= n => P(k)}
<1>3. P(0)
  <2> DEFINE none == [j \in 1..0 |-> 0]
  <2>1. Len(h[0]) = 0
    BY <1>1, EmptySeq
  <2>2. IsPlacing(s, K, 0, h[0], none)
    BY <1>2, <2>1 DEF IsPlacing
  <2> HIDE DEF none
  <2>. QED  BY <2>2
<1>4. ASSUME NEW k \in Nat, P(k), k + 1 <= n PROVE P(k + 1)
  <2> DEFINE q == h[k]
             r == h[k + 1]
  <2>1. PICK place : IsPlacing(s, K, k, q, place)
    BY <1>4
  <2>2. /\ k \in 0..n /\ k + 1 \in 1..n /\ k + 1 \in 0..n /\ (k + 1) - 1 = k
        /\ r = IF k + 1 \in K THEN Append(q, s[k + 1]) ELSE q
    <3>1. k \in 0..n /\ k + 1 \in 1..n /\ k + 1 \in 0..n /\ (k + 1) - 1 = k
      BY <1>4
    <3>. QED  BY <1>1, <3>1
  <2>3. PICK m \in Nat : m = Len(q)
    BY <1>1, <2>2, LenProperties
  <2>4. CASE k + 1 \notin K
    <3>1. \A x \in K : x <= k + 1 => x <= k
      BY <1>2, <2>4
    <3>2. IsPlacing(s, K, k + 1, r, place)
      <4>1. r = q /\ \A x \in Nat : x <= k => x <= k + 1
        BY <2>2, <2>4
      <4>. QED  BY <1>2, <2>1, <3>1, <4>1 DEF IsPlacing
    <3>. QED  BY <3>2
  <2>5. CASE k + 1 \in K
    <3> DEFINE next == [j \in 1..m + 1 |-> IF j <= m THEN place[j] ELSE k + 1]
    <3>1. /\ Len(r) = m + 1
          /\ \A j \in 1..m : r[j] = q[j]
          /\ r[m + 1] = s[k + 1]
      <4>1. q \in Seq(S) /\ s[k + 1] \in S
        BY <1>1, <1>2, <2>2
      <4> HIDE DEF q, r
      <4>. QED  BY <2>2, <2>3, <2>5, <4>1, AppendProperties
    <3> HIDE DEF q, r
    <3>2. /\ place \in [1..m -> Nat]
          /\ \A j \in 1..m : place[j] \in K /\ place[j] <= k /\ q[j] = s[place[j]]
          /\ \A i, j \in 1..m : i < j => place[i] < place[j]
          /\ \A x \in K : x <= k => \E j \in 1..m : place[j] = x
      BY <2>1, <2>3 DEF IsPlacing
    <3>3. /\ next \in [1..m + 1 -> Nat]
          /\ \A j \in 1..m : next[j] = place[j]
          /\ next[m + 1] = k + 1
      BY <3>2
    <3> HIDE DEF next
    <3>4. \A j \in 1..m + 1 : j \in 1..m \/ j = m + 1
      OBVIOUS
    <3>5. \A j \in 1..m + 1 : next[j] \in K /\ next[j] <= k + 1 /\ r[j] = s[next[j]]
      <4>1. ASSUME NEW j \in 1..m
            PROVE  next[j] \in K /\ next[j] <= k + 1 /\ r[j] = s[next[j]]
        <5>1. next[j] = place[j] /\ place[j] \in Nat /\ place[j] <= k
          BY <3>2, <3>3
        <5>2. place[j] \in K /\ r[j] = s[place[j]]
          BY <3>1, <3>2
        <5>. QED  BY <5>1, <5>2
      <4>2. next[m + 1] \in K /\ next[m + 1] <= k + 1 /\ r[m + 1] = s[next[m + 1]]
        BY <2>5, <3>1, <3>3
      <4>. QED  BY <3>4, <4>1, <4>2
    <3>6. \A i, j \in 1..m + 1 : i < j => next[i] < next[j]
      <4> SUFFICES ASSUME NEW i \in 1..m + 1, NEW j \in 1..m + 1, i < j
                   PROVE  next[i] < next[j]
        OBVIOUS
      <4>1. i \in 1..m /\ next[i] = place[i] /\ place[i] \in Nat /\ place[i] <= k
        BY <3>2, <3>3
      <4>2. CASE j \in 1..m
        <5>1. next[j] = place[j] /\ place[i] < place[j]
          BY <3>2, <3>3, <4>1, <4>2
        <5>. QED  BY <4>1, <5>1
      <4>3. CASE j = m + 1
        BY <3>3, <4>1, <4>3
      <4>. QED  BY <3>4, <4>2, <4>3
    <3>7. ASSUME NEW x \in K, x <= k + 1 PROVE \E j \in 1..m + 1 : next[j] = x
      <4>1. CASE x = k + 1
        BY <3>3, <4>1
      <4>2. CASE x <= k
        BY <3>2, <3>3, <4>2
      <4>. QED  BY <1>2, <3>7, <4>1, <4>2
    <3>8. IsPlacing(s, K, k + 1, r, next)
      BY <3>1, <3>3, <3>5, <3>6, <3>7 DEF IsPlacing
    <3>. QED  BY <3>8 DEF r
  <2>. QED  BY <2>4, <2>5
<1> HIDE DEF P
<1>5. 0 \in I /\ \A k \in Nat : k \in I => k + 1 \in I
  BY <1>3, <1>4
<1>6. n \in I
  <2> HIDE DEF I
  <2>. QED  BY <1>5, NatSetInduction
<1>7. P(n)
  BY <1>6
<1>. QED  BY <1>0, <1>1, <1>7 DEF P

-----------------------------------------------------------------------------
(* What is picked is among the elements at the indices, and all of them are *)
(* picked. *)
LEMMA PickedElements ==
  ASSUME NEW S, NEW s \in Seq(S), NEW K \in SUBSET (1..Len(s))
  PROVE  /\ Picked(s, K) \in Seq(S)
         /\ \A j \in 1..Len(Picked(s, K)) : \E k \in K : Picked(s, K)[j] = s[k]
         /\ \A k \in K : \E j \in 1..Len(Picked(s, K)) : Picked(s, K)[j] = s[k]
<1>1. PICK place : IsPlacing(s, K, Len(s), Picked(s, K), place)
  BY PickedPlaces
<1>2. Picked(s, K) \in Seq(S)
  BY PickedPlaces
<1>3. \A x \in K : x <= Len(s)
  BY LenProperties
<1>4. ASSUME NEW j \in 1..Len(Picked(s, K))
      PROVE  \E k \in K : Picked(s, K)[j] = s[k]
  <2>1. place[j] \in K /\ Picked(s, K)[j] = s[place[j]]
    BY <1>1 DEF IsPlacing
  <2>. QED  BY <2>1
<1>5. ASSUME NEW k \in K
      PROVE  \E j \in 1..Len(Picked(s, K)) : Picked(s, K)[j] = s[k]
  <2>1. PICK j \in 1..Len(Picked(s, K)) : place[j] = k
    BY <1>1, <1>3 DEF IsPlacing
  <2>2. Picked(s, K)[j] = s[place[j]]
    BY <1>1 DEF IsPlacing
  <2>. QED  BY <2>1, <2>2
<1>. QED  BY <1>2, <1>4, <1>5

(* What a sequence holds, with one more element or without its first.     *)
LEMMA RangeFacts ==
  ASSUME NEW S, NEW q \in Seq(S)
  PROVE  /\ Range(q) \subseteq S
         /\ \A x \in S : Range(Append(q, x)) = Range(q) \cup {x}
         /\ q # <<>> => Head(q) \in S /\ Tail(q) \in Seq(S)
                        /\ Range(q) = {Head(q)} \cup Range(Tail(q))
<1>1. Range(q) \subseteq S
  BY RangeOfSeq
<1>2. ASSUME NEW x \in S PROVE Range(<<x>>) = {x} /\ <<x>> \in Seq(S)
  <2>1. DOMAIN <<x>> = {1} /\ <<x>>[1] = x /\ <<x>> \in Seq(S)
    OBVIOUS
  <2>. QED  BY <2>1 DEF Range
<1>3. ASSUME NEW x \in S PROVE Range(Append(q, x)) = Range(q) \cup {x}
  <2>1. Append(q, x) = q \o <<x>>
    BY AppendIsConcat
  <2>2. Range(<<x>>) = {x} /\ <<x>> \in Seq(S)
    BY <1>2
  <2>3. Range(q \o <<x>>) = Range(q) \cup Range(<<x>>)
    BY ZenonT(60), <2>2, RangeConcatenation
  <2>. QED  BY <2>1, <2>2, <2>3
<1>4. ASSUME q # <<>>
      PROVE  Head(q) \in S /\ Tail(q) \in Seq(S)
             /\ Range(q) = {Head(q)} \cup Range(Tail(q))
  <2>1. /\ Head(q) \in S /\ Tail(q) \in Seq(S)
        /\ Len(Tail(q)) = Len(q) - 1
        /\ \A i \in 1..Len(Tail(q)) : Tail(q)[i] = q[i + 1]
    BY <1>4, HeadTailProperties
  <2>2. Len(q) \in Nat \ {0} /\ Head(q) = q[1]
    BY <1>4, EmptySeq
  <2>3. /\ Range(q) = {q[i] : i \in 1..Len(q)}
        /\ Range(Tail(q)) = {Tail(q)[i] : i \in 1..Len(Tail(q))}
    BY <2>1, RangeEquality
  <2>4. Range(q) \subseteq {Head(q)} \cup Range(Tail(q))
    <3> SUFFICES ASSUME NEW i \in 1..Len(q), i # 1 PROVE q[i] \in Range(Tail(q))
      BY <2>2, <2>3
    <3>1. i - 1 \in 1..Len(Tail(q)) /\ (i - 1) + 1 = i
      BY <2>1, <2>2
    <3>2. Tail(q)[i - 1] = q[i]
      BY <2>1, <3>1
    <3>. QED  BY <2>3, <3>1, <3>2
  <2>5. {Head(q)} \cup Range(Tail(q)) \subseteq Range(q)
    <3>1. Head(q) \in Range(q)
      BY <2>2, <2>3
    <3>2. ASSUME NEW i \in 1..Len(Tail(q)) PROVE Tail(q)[i] \in Range(q)
      <4>1. i + 1 \in 1..Len(q)
        BY <2>1, <2>2
      <4>. QED  BY <2>1, <2>3, <4>1
    <3>. QED  BY <2>3, <3>1, <3>2
  <2>. QED  BY <2>1, <2>4, <2>5
<1>. QED  BY <1>1, <1>3, <1>4

-------------------------------------------------------------------------
(* What is left of a sequence, in the same order. *)
IsThinning(new, old, place) ==
  /\ place \in [1..Len(new) -> 1..Len(old)]
  /\ \A j \in 1..Len(new) : new[j] = old[place[j]]
  /\ \A i, j \in 1..Len(new) : i < j => place[i] < place[j]
Thinner(new, old) == \E place : IsThinning(new, old, place)

(* A sequence is left as it is, or nothing is left of it. *)
LEMMA ThinnerSame ==
  ASSUME NEW S, NEW q \in Seq(S)
  PROVE  Thinner(q, q) /\ Thinner(<<>>, q)
<1>1. PICK n \in Nat : n = Len(q)
  BY LenProperties
<1>2. Thinner(q, q)
  <2> DEFINE place == [j \in 1..n |-> j]
  <2>1. IsThinning(q, q, place)
    BY <1>1 DEF IsThinning
  <2>. QED  BY <2>1 DEF Thinner
<1>3. Thinner(<<>>, q)
  <2>1. PICK none \in Seq(S) : none = <<>> /\ Len(none) = 0
    BY EmptySeq
  <2> DEFINE place == [j \in 1..0 |-> 1]
  <2>2. 1..0 = {}
    OBVIOUS
  <2>3. place \in [1..0 -> 1..n] /\ ~ \E j \in 1..0 : TRUE
    BY <2>2
  <2> HIDE DEF place
  <2>4. IsThinning(none, q, place)
    BY <1>1, <2>1, <2>3 DEF IsThinning
  <2>. QED  BY <2>1, <2>4 DEF Thinner
<1>. QED  BY <1>2, <1>3

(* Picking thins a sequence. *)
LEMMA ThinnerPicked ==
  ASSUME NEW S, NEW s \in Seq(S), NEW K \in SUBSET (1..Len(s))
  PROVE  Thinner(Picked(s, K), s)
<1>1. PICK place : IsPlacing(s, K, Len(s), Picked(s, K), place)
  BY PickedPlaces
<1>2. Picked(s, K) \in Seq(S)
  BY PickedPlaces
<1>3. PICK q \in Seq(S) : q = Picked(s, K)
  BY <1>2
<1>4. /\ place \in [1..Len(q) -> Nat]
      /\ \A j \in 1..Len(q) : place[j] \in K /\ q[j] = s[place[j]]
      /\ \A i, j \in 1..Len(q) : i < j => place[i] < place[j]
  BY <1>1, <1>3 DEF IsPlacing
<1>5. place \in [1..Len(q) -> 1..Len(s)]
  BY <1>4
<1>6. IsThinning(q, s, place)
  BY <1>4, <1>5 DEF IsThinning
<1>. QED  BY <1>3, <1>6 DEF Thinner

(* Two sequences are thinned together. *)
LEMMA ThinnerConcat ==
  ASSUME NEW S, NEW a \in Seq(S), NEW b \in Seq(S), NEW c \in Seq(S), NEW d \in Seq(S),
         Thinner(a, c), Thinner(b, d)
  PROVE  Thinner(a \o b, c \o d)
<1>1. PICK f : IsThinning(a, c, f)
  BY DEF Thinner
<1>2. PICK g : IsThinning(b, d, g)
  BY DEF Thinner
<1>3. PICK na \in Nat, nb \in Nat, nc \in Nat, nd \in Nat :
        na = Len(a) /\ nb = Len(b) /\ nc = Len(c) /\ nd = Len(d)
  BY LenProperties
<1>4. PICK new : new = a \o b
  OBVIOUS
<1>5. PICK old : old = c \o d
  OBVIOUS
<1>6. /\ Len(new) = na + nb
      /\ \A i \in 1..na + nb : new[i] = IF i <= na THEN a[i] ELSE b[i - na]
  BY <1>3, <1>4, ConcatProperties
<1>7. /\ Len(old) = nc + nd
      /\ \A i \in 1..nc + nd : old[i] = IF i <= nc THEN c[i] ELSE d[i - nc]
  BY <1>3, <1>5, ConcatProperties
<1>8. /\ \A j \in 1..na : f[j] \in 1..nc /\ a[j] = c[f[j]]
      /\ \A i, j \in 1..na : i < j => f[i] < f[j]
      /\ \A j \in 1..nb : g[j] \in 1..nd /\ b[j] = d[g[j]]
      /\ \A i, j \in 1..nb : i < j => g[i] < g[j]
  BY <1>1, <1>2, <1>3 DEF IsThinning
<1> DEFINE place == [j \in 1..na + nb |-> IF j <= na THEN f[j] ELSE nc + g[j - na]]
<1>9. \A j \in 1..na + nb : \/ j \in 1..na /\ place[j] = f[j]
                            \/ j > na /\ j - na \in 1..nb /\ place[j] = nc + g[j - na]
  OBVIOUS
<1>10. place = [j \in 1..na + nb |-> place[j]]
  OBVIOUS
<1> HIDE DEF place
<1>11. ASSUME NEW j \in 1..na + nb
       PROVE  place[j] \in 1..nc + nd /\ new[j] = old[place[j]]
  <2>1. CASE j \in 1..na /\ place[j] = f[j]
    <3>1. f[j] \in 1..nc /\ a[j] = c[f[j]]
      BY <1>8, <2>1
    <3>2. place[j] \in 1..nc + nd /\ place[j] <= nc
      BY <2>1, <3>1
    <3>3. new[j] = a[j]
      BY <1>6, <2>1
    <3>4. old[place[j]] = c[place[j]]
      BY <1>7, <3>2
    <3>. QED  BY <2>1, <3>1, <3>2, <3>3, <3>4
  <2>2. CASE j > na /\ j - na \in 1..nb /\ place[j] = nc + g[j - na]
    <3>1. g[j - na] \in 1..nd /\ b[j - na] = d[g[j - na]]
      BY <1>8, <2>2
    <3>2. place[j] \in 1..nc + nd /\ ~ (place[j] <= nc) /\ place[j] - nc = g[j - na]
      <4>1. PICK x \in 1..nd : x = g[j - na]
        BY <3>1
      <4>2. place[j] = nc + x
        BY <2>2, <4>1
      <4>3. nc + x \in 1..nc + nd /\ ~ (nc + x <= nc) /\ (nc + x) - nc = x
        OBVIOUS
      <4>. QED  BY <4>1, <4>2, <4>3
    <3>3. new[j] = b[j - na]
      BY <1>6, <2>2
    <3>4. old[place[j]] = d[place[j] - nc]
      BY <1>7, <3>2
    <3>. QED  BY <3>1, <3>2, <3>3, <3>4
  <2>. QED  BY <1>9, <2>1, <2>2
<1>12. ASSUME NEW i \in 1..na + nb, NEW j \in 1..na + nb, i < j
       PROVE  place[i] < place[j]
  <2>1. CASE i \in 1..na /\ place[i] = f[i] /\ j \in 1..na /\ place[j] = f[j]
    BY <1>8, <1>12, <2>1
  <2>2. CASE i \in 1..na /\ place[i] = f[i] /\ j > na /\ j - na \in 1..nb /\ place[j] = nc + g[j - na]
    <3>1. f[i] \in 1..nc /\ g[j - na] \in 1..nd
      BY <1>8, <2>2
    <3>. QED  BY <2>2, <3>1
  <2>3. CASE /\ i > na /\ i - na \in 1..nb /\ place[i] = nc + g[i - na]
             /\ j > na /\ j - na \in 1..nb /\ place[j] = nc + g[j - na]
    <3>1. i - na < j - na
      BY <1>12
    <3>2. g[i - na] < g[j - na] /\ g[i - na] \in 1..nd /\ g[j - na] \in 1..nd
      BY <1>8, <2>3, <3>1
    <3>. QED  BY <2>3, <3>2
  <2>4. ~ (i > na /\ j \in 1..na)
    BY <1>12
  <2>. QED  BY <1>9, <2>1, <2>2, <2>3, <2>4
<1>13. place \in [1..na + nb -> 1..nc + nd]
  BY <1>10, <1>11
<1>14. IsThinning(new, old, place)
  BY <1>6, <1>7, <1>11, <1>12, <1>13 DEF IsThinning
<1>. QED  BY <1>4, <1>5, <1>14 DEF Thinner

(* Of two elements. *)
LEMMA PickedOfTwo ==
  ASSUME NEW S, NEW s \in Seq(S), Len(s) = 2, NEW K \in SUBSET (1..Len(s))
  PROVE  Picked(s, K) = (IF 1 \in K THEN <<s[1]>> ELSE <<>>) \o (IF 2 \in K THEN <<s[2]>> ELSE <<>>)
<1> DEFINE h == Picking(s, K)
<1>1. /\ Picked(s, K) = h[2] /\ h[0] = <<>>
      /\ h[1] = IF 1 \in K THEN Append(h[0], s[1]) ELSE h[0]
      /\ h[2] = IF 2 \in K THEN Append(h[1], s[2]) ELSE h[1]
      /\ h[0] \in Seq(S) /\ h[1] \in Seq(S) /\ s[1] \in S /\ s[2] \in S
  <2>1. /\ Picked(s, K) = h[Len(s)]
        /\ h[0] = <<>>
        /\ \A i \in 1..Len(s) : h[i] = IF i \in K THEN Append(h[i - 1], s[i]) ELSE h[i - 1]
        /\ \A i \in 0..Len(s) : h[i] \in Seq(S)
    <3>1. K \in SUBSET (1..Len(s))
      OBVIOUS
    <3>. QED  BY <3>1, PickedSteps, Zenon
  <2>2. 1 \in 1..Len(s) /\ 2 \in 1..Len(s) /\ 0 \in 0..Len(s) /\ 1 \in 0..Len(s) /\ 1 - 1 = 0 /\ 2 - 1 = 1
    OBVIOUS
  <2>3. s[1] \in S /\ s[2] \in S
    BY <2>2, ElementOfSeq
  <2> HIDE DEF h
  <2>4. h[1] = IF 1 \in K THEN Append(h[0], s[1]) ELSE h[0]
    BY <2>1, <2>2
  <2>5. h[2] = IF 2 \in K THEN Append(h[1], s[2]) ELSE h[1]
    BY <2>1, <2>2
  <2>6. h[0] \in Seq(S) /\ h[1] \in Seq(S)
    BY <2>1, <2>2
  <2>. QED  BY <2>1, <2>3, <2>4, <2>5, <2>6
<1> HIDE DEF h
<1>2. h[1] = IF 1 \in K THEN <<s[1]>> ELSE <<>>
  <2>1. Append(<<>>, s[1]) = <<s[1]>>
    BY <1>1
  <2>. QED  BY <1>1, <2>1
<1>3. h[2] = h[1] \o (IF 2 \in K THEN <<s[2]>> ELSE <<>>)
  <2>1. Append(h[1], s[2]) = h[1] \o <<s[2]>>
    BY <1>1, AppendIsConcat
  <2>2. h[1] \o <<>> = h[1]
    BY <1>1, ConcatEmptySeq
  <2>. QED  BY <1>1, <2>1, <2>2
<1>. QED  BY <1>1, <1>2, <1>3

-----------------------------------------------------------------------------
(* The function in the definition of FlattenSeq. *)
Flattening(seqs) ==
  CHOOSE flatten : flatten =
    [i \in 1..Len(seqs) |-> IF i = 1 THEN seqs[i] ELSE flatten[i - 1] \o seqs[i]]

(* The recursive function in the definition of FlattenSeq, step by step. *)
LEMMA FlatteningSteps ==
  ASSUME NEW S, NEW seqs \in Seq(Seq(S)), Len(seqs) # 0
  PROVE  /\ FlattenSeq(seqs) = Flattening(seqs)[Len(seqs)]
         /\ Flattening(seqs)[1] = seqs[1]
         /\ \A i \in 2..Len(seqs) : Flattening(seqs)[i] = Flattening(seqs)[i - 1] \o seqs[i]
         /\ \A i \in 1..Len(seqs) : Flattening(seqs)[i] \in Seq(S)
<1> DEFINE Body(f) == [i \in 1..Len(seqs) |->
                         IF i = 1 THEN seqs[i] ELSE f[i - 1] \o seqs[i]]
           h == Flattening(seqs)
<1>0. PICK n \in Nat : n = Len(seqs)
  BY LenProperties
<1>1. PICK T : T = Seq(S)
  OBVIOUS
<1>2. \A i \in 1..n : seqs[i] \in T
  BY <1>0, <1>1, ElementOfSeq
<1>3. \A i \in 1..n, q \in T : q \o seqs[i] \in T
  BY <1>0, <1>1, <1>2, ConcatProperties
<1>4. PICK empty \in T : empty = <<>>
  BY <1>1, EmptySeq
<1>5. 1 \in 1..n /\ empty \o seqs[1] = seqs[1]
  <2>1. 1 \in 1..n
    BY <1>0
  <2>2. seqs[1] \in Seq(S)
    BY <1>1, <1>2, <2>1
  <2>. QED  BY <1>4, <2>1, <2>2, ConcatEmptySeq
<1>6. h = Body(h)
  <2> DEFINE Step == [i \in 1..n |-> [q \in T |-> q \o seqs[i]]]
  <2>1. Step \in [1..n -> [T -> T]]
    BY <1>3
  <2>2. PICK g \in [0..n -> T] : IsRun(empty, n, Step, g)
    <3> HIDE DEF Step, Body, h
    <3>. QED  BY <2>1, RecursionExists
  <2>3. ASSUME NEW i \in 1..n PROVE g[i] = g[i - 1] \o seqs[i]
    <3>1. i - 1 \in 0..n
      OBVIOUS
    <3>2. g[i - 1] \in T
      BY <3>1
    <3>. QED  BY <2>2, <3>2 DEF IsRun
  <2> DEFINE f == [i \in 1..n |-> g[i]]
  <2>4. \A i \in 1..n : f[i] = IF i = 1 THEN seqs[i] ELSE f[i - 1] \o seqs[i]
    <3>1. g[1] = seqs[1]
      <4>1. g[1] = g[1 - 1] \o seqs[1]
        BY <1>5, <2>3
      <4>2. 1 - 1 = 0 /\ g[0] = empty
        BY <2>2 DEF IsRun
      <4>. QED  BY <1>5, <4>1, <4>2
    <3>2. \A i \in 1..n : i # 1 => i - 1 \in 1..n
      OBVIOUS
    <3>. QED  BY <2>3, <3>1, <3>2
  <2>5. f = Body(f)
    <3>1. f = [i \in 1..n |-> f[i]]
      OBVIOUS
    <3> HIDE DEF f
    <3>. QED  BY <1>0, <2>4, <3>1
  <2>. QED  BY <2>5, Zenon DEF Flattening
<1>7. /\ h[1] = seqs[1]
      /\ \A i \in 2..n : h[i] = h[i - 1] \o seqs[i]
  <2> HIDE DEF h
  <2>1. \A i \in 1..n : h[i] = IF i = 1 THEN seqs[i] ELSE h[i - 1] \o seqs[i]
    BY <1>0, <1>6, Zenon
  <2>2. \A i \in 2..n : i \in 1..n /\ i # 1
    OBVIOUS
  <2>. QED  BY <1>5, <2>1, <2>2
<1> HIDE DEF Body, h
<1>8. \A i \in 1..n : h[i] \in T
  <2> DEFINE I == {i \in Nat : 1 <= i /\ i <= n => h[i] \in T}
  <2>1. 0 \in I
    OBVIOUS
  <2>2. ASSUME NEW i \in Nat, i \in I PROVE i + 1 \in I
    <3> SUFFICES ASSUME i + 1 <= n PROVE h[i + 1] \in T
      OBVIOUS
    <3>1. CASE i = 0
      BY <1>2, <1>5, <1>7, <3>1
    <3>2. CASE i # 0
      <4>1. h[i] \in T /\ i + 1 \in 2..n /\ i + 1 \in 1..n /\ (i + 1) - 1 = i
        BY <2>2, <3>2
      <4>2. h[i] \o seqs[i + 1] \in T
        BY <1>3, <4>1
      <4>. QED  BY <1>7, <4>1, <4>2
    <3>. QED  BY <3>1, <3>2
  <2>3. Nat \subseteq I
    <3> HIDE DEF I
    <3>. QED  BY <2>1, <2>2, NatSetInduction
  <2>. QED  BY <2>3
<1>9. FlattenSeq(seqs) = h[n]
  BY <1>0 DEF FlattenSeq, Flattening, h
<1>. QED  BY <1>0, <1>1, <1>7, <1>8, <1>9 DEF h

(* Where each element of q, the first m sequences put together, comes from. *)
IsOrigin(seqs, m, q, origin) ==
  /\ \A i \in 1..Len(q) :
       /\ origin[i][1] \in 1..m /\ origin[i][2] \in 1..Len(seqs[origin[i][1]])
       /\ q[i] = seqs[origin[i][1]][origin[i][2]]
  /\ \A i, j \in 1..Len(q) :
       origin[i][1] = origin[j][1] /\ origin[i][2] = origin[j][2] => i = j
  /\ \A e \in 1..m : \A k \in 1..Len(seqs[e]) : \E i \in 1..Len(q) : q[i] = seqs[e][k]

(* Every element of a flattened sequence comes from one of the sequences. *)
LEMMA FlattenElements ==
  ASSUME NEW S, NEW seqs \in Seq(Seq(S))
  PROVE  /\ FlattenSeq(seqs) \in Seq(S)
         /\ \E origin : IsOrigin(seqs, Len(seqs), FlattenSeq(seqs), origin)
<1> DEFINE h == Flattening(seqs)
<1>0. PICK n \in Nat : n = Len(seqs)
  BY LenProperties
<1>1. CASE n = 0
  <2>1. FlattenSeq(seqs) = seqs /\ seqs = <<>>
    BY <1>0, <1>1, EmptySeq DEF FlattenSeq
  <2>2. Len(seqs) = 0 /\ <<>> \in Seq(S)
    BY <1>0, <1>1, EmptySeq
  <2>3. IsOrigin(seqs, Len(seqs), seqs, [i \in {} |-> <<0, 0>>])
    BY <2>2 DEF IsOrigin
  <2>. QED  BY <2>1, <2>2, <2>3
<1>2. CASE n # 0
  <2>1. /\ FlattenSeq(seqs) = h[n]
        /\ h[1] = seqs[1]
        /\ \A i \in 2..n : h[i] = h[i - 1] \o seqs[i]
        /\ \A i \in 1..n : h[i] \in Seq(S)
    BY <1>0, <1>2, FlatteningSteps
  <2>2. \A i \in 1..n : seqs[i] \in Seq(S)
    BY <1>0, ElementOfSeq
  <2> HIDE DEF h
  <2> DEFINE P(m) == \E origin : IsOrigin(seqs, m, h[m], origin)
             I == {m \in Nat : 1 <= m /\ m <= n => P(m)}
  <2>3. P(1)
    <3> DEFINE origin == [i \in 1..Len(seqs[1]) |-> <<1, i>>]
    <3>1. IsOrigin(seqs, 1, seqs[1], origin)
      BY DEF IsOrigin
    <3> HIDE DEF origin
    <3>. QED  BY <2>1, <3>1
  <2>4. ASSUME NEW m \in 1..n, P(m), m + 1 <= n PROVE P(m + 1)
    <3> DEFINE q == h[m]
               s == seqs[m + 1]
               r == h[m + 1]
    <3>1. PICK old : IsOrigin(seqs, m, q, old)
      BY <2>4
    <3>2. q \in Seq(S) /\ s \in Seq(S) /\ r = q \o s
      <4>1. m + 1 \in 1..n /\ m + 1 \in 2..n /\ (m + 1) - 1 = m
        BY <2>4
      <4>. QED  BY <2>1, <2>2, <4>1
    <3>3. PICK a \in Nat, b \in Nat : a = Len(q) /\ b = Len(s)
      BY <3>2, LenProperties
    <3>4. /\ Len(r) = a + b
          /\ \A i \in 1..a : r[i] = q[i]
          /\ \A i \in a + 1..a + b : r[i] = s[i - a]
      <4> HIDE DEF q, r, s
      <4>1. /\ Len(q \o s) = Len(q) + Len(s)
            /\ \A i \in 1..Len(q) : (q \o s)[i] = q[i]
            /\ \A i \in 1..Len(s) : (q \o s)[Len(q) + i] = s[i]
        BY <3>2, ConcatProperties
      <4>2. \A i \in a + 1..a + b : i - a \in 1..b /\ a + (i - a) = i
        OBVIOUS
      <4>. QED  BY <3>2, <3>3, <4>1, <4>2
    <3> DEFINE new == [i \in 1..a + b |-> IF i <= a THEN old[i] ELSE <<m + 1, i - a>>]
    <3>5. /\ \A i \in 1..a : new[i] = old[i]
          /\ \A i \in a + 1..a + b : new[i][1] = m + 1 /\ new[i][2] = i - a
          /\ \A i \in 1..a + b : i \in 1..a \/ i \in a + 1..a + b
      OBVIOUS
    <3> HIDE DEF q, r, new
    <3>6. ASSUME NEW i \in 1..a + b
          PROVE  /\ new[i][1] \in 1..m + 1 /\ new[i][2] \in 1..Len(seqs[new[i][1]])
                 /\ r[i] = seqs[new[i][1]][new[i][2]]
      <4>1. CASE i \in 1..a
        <5>1. /\ old[i][1] \in 1..m /\ old[i][2] \in 1..Len(seqs[old[i][1]])
              /\ q[i] = seqs[old[i][1]][old[i][2]]
          BY <3>1, <3>3, <4>1 DEF IsOrigin
        <5>2. old[i][1] \in 1..m + 1
          BY <5>1
        <5>. QED  BY <3>4, <3>5, <4>1, <5>1, <5>2
      <4>2. CASE i \in a + 1..a + b
        <5>1. new[i][1] = m + 1 /\ new[i][2] = i - a /\ i - a \in 1..b /\ m + 1 \in 1..m + 1
          BY <3>5, <4>2
        <5>2. r[i] = s[i - a] /\ b = Len(s)
          BY <3>3, <3>4, <4>2
        <5>. QED  BY <5>1, <5>2
      <4>. QED  BY <3>5, <4>1, <4>2
    <3>7. ASSUME NEW i \in 1..a + b, NEW j \in 1..a + b,
                 new[i][1] = new[j][1], new[i][2] = new[j][2]
          PROVE  i = j
      <4>1. \A x \in 1..a : new[x][1] \in 1..m
        BY <3>1, <3>3, <3>5 DEF IsOrigin
      <4>2. CASE i \in 1..a /\ j \in 1..a
        BY <3>1, <3>3, <3>5, <3>7, <4>2 DEF IsOrigin
      <4>3. CASE i \in a + 1..a + b /\ j \in a + 1..a + b
        BY <3>5, <3>7, <4>3
      <4>. QED  BY <3>5, <3>7, <4>1, <4>2, <4>3
    <3>8. ASSUME NEW e \in 1..m + 1, NEW k \in 1..Len(seqs[e])
          PROVE  \E i \in 1..a + b : r[i] = seqs[e][k]
      <4>1. CASE e \in 1..m
        <5>1. PICK i \in 1..a : q[i] = seqs[e][k]
          BY <3>1, <3>3, <4>1 DEF IsOrigin
        <5>. QED  BY <3>3, <3>4, <5>1
      <4>2. CASE e = m + 1
        <5>1. a + k \in a + 1..a + b /\ a + k \in 1..a + b /\ (a + k) - a = k
          BY <3>3, <4>2
        <5>. QED  BY <3>4, <4>2, <5>1
      <4>. QED  BY <4>1, <4>2
    <3>9. IsOrigin(seqs, m + 1, r, new)
      BY <3>4, <3>6, <3>7, <3>8 DEF IsOrigin
    <3>. QED  BY <3>9 DEF r
  <2> HIDE DEF P
  <2>5. 0 \in I /\ \A m \in Nat : m \in I => m + 1 \in I
    <3>1. ASSUME NEW m \in Nat, m \in I, m + 1 <= n PROVE P(m + 1)
      <4>1. CASE m = 0
        BY <2>3, <4>1
      <4>2. CASE m # 0
        BY <2>4, <3>1, <4>2
      <4>. QED  BY <4>1, <4>2
    <3>. QED  BY <3>1
  <2>6. P(n)
    <3>1. n \in I
      <4> HIDE DEF I
      <4>. QED  BY <2>5, NatSetInduction
    <3>. QED  BY <1>2, <3>1
  <2>7. n \in 1..n
    BY <1>2
  <2>. QED  BY <1>0, <2>1, <2>6, <2>7 DEF P
<1>. QED  BY <1>1, <1>2

-----------------------------------------------------------------------------
(* Without its i-th element a sequence is one shorter, in the same order. *)
LEMMA RemoveAtFacts ==
  ASSUME NEW S, NEW s \in Seq(S), NEW i \in 1..Len(s)
  PROVE  /\ RemoveAt(s, i) \in Seq(S) /\ Len(RemoveAt(s, i)) = Len(s) - 1
         /\ \A j \in 1..Len(s) - 1 :
              RemoveAt(s, i)[j] = IF j < i THEN s[j] ELSE s[j + 1]
<1>0. PICK n \in Nat : n = Len(s)
  BY LenProperties
<1>1. \A j \in 1..n : s[j] \in S
  BY <1>0, ElementOfSeq
<1> DEFINE a == SubSeq(s, 1, i - 1)
           b == SubSeq(s, i + 1, n)
<1>2. a \in Seq(S) /\ Len(a) = i - 1 /\ \A j \in 1..i - 1 : a[j] = s[j]
  <2>1. i - 1 \in Int /\ 1 \in Int /\ \A j \in 1..i - 1 : s[j] \in S
    BY <1>0, <1>1
  <2>2. /\ a \in Seq(S) /\ Len(a) = IF 1 <= i - 1 THEN i - 1 - 1 + 1 ELSE 0
        /\ \A j \in 1..i - 1 - 1 + 1 : a[j] = s[1 + j - 1]
    BY <2>1, SubSeqProperties
  <2> HIDE DEF a
  <2>3. i - 1 - 1 + 1 = i - 1 /\ \A j \in 1..i - 1 : 1 + j - 1 = j
    BY <1>0
  <2>. QED  BY <1>0, <2>2, <2>3
<1>3. b \in Seq(S) /\ Len(b) = n - i /\ \A j \in 1..n - i : b[j] = s[i + j]
  <2>1. i + 1 \in Int /\ n \in Int /\ \A j \in i + 1..n : s[j] \in S
    BY <1>0, <1>1
  <2>2. /\ b \in Seq(S) /\ Len(b) = IF i + 1 <= n THEN n - (i + 1) + 1 ELSE 0
        /\ \A j \in 1..n - (i + 1) + 1 : b[j] = s[(i + 1) + j - 1]
    BY <2>1, SubSeqProperties
  <2> HIDE DEF b
  <2>3. n - (i + 1) + 1 = n - i /\ \A j \in 1..n - i : (i + 1) + j - 1 = i + j
    BY <1>0
  <2>. QED  BY <1>0, <2>2, <2>3
<1>4. RemoveAt(s, i) = a \o b
  BY <1>0 DEF RemoveAt
<1> HIDE DEF a, b
<1>5. /\ a \o b \in Seq(S) /\ Len(a \o b) = Len(a) + Len(b)
      /\ \A j \in 1..Len(a) + Len(b) : (a \o b)[j] = IF j <= Len(a) THEN a[j] ELSE b[j - Len(a)]
  BY <1>2, <1>3, ConcatProperties
<1>6. (i - 1) + (n - i) = n - 1
  BY <1>0
<1>7. ASSUME NEW j \in 1..n - 1 PROVE (a \o b)[j] = IF j < i THEN s[j] ELSE s[j + 1]
  <2>1. (a \o b)[j] = IF j <= i - 1 THEN a[j] ELSE b[j - (i - 1)]
    BY <1>2, <1>3, <1>5, <1>6
  <2>2. CASE j < i
    <3>1. j <= i - 1 /\ j \in 1..i - 1
      BY <1>0, <2>2
    <3>. QED  BY <1>2, <2>1, <2>2, <3>1
  <2>3. CASE ~ (j < i)
    <3>1. ~ (j <= i - 1) /\ j - (i - 1) \in 1..n - i /\ i + (j - (i - 1)) = j + 1
      BY <1>0, <2>3
    <3>. QED  BY <1>3, <2>1, <2>3, <3>1
  <2>. QED  BY <2>2, <2>3
<1>. QED  BY <1>0, <1>2, <1>3, <1>4, <1>5, <1>6, <1>7

-----------------------------------------------------------------------------
(* A finite set of integers that is not empty has a greatest element. *)
LEMMA MaxOfFinite ==
  ASSUME NEW n \in Nat, NEW K \in SUBSET (1..n), K # {}
  PROVE  Max(K) \in K /\ \A y \in K : y <= Max(K)
<1> DEFINE R == {m \in Nat : \A L \in SUBSET (1..m) :
                   L # {} => \E x \in L : \A y \in L : x >= y}
<1>1. 0 \in R
  <2>1. 1..0 = {}
    OBVIOUS
  <2>. QED  BY <2>1
<1>2. ASSUME NEW m \in Nat, m \in R PROVE m + 1 \in R
  <2> SUFFICES ASSUME NEW L \in SUBSET (1..m + 1), L # {}
               PROVE  \E x \in L : \A y \in L : x >= y
    OBVIOUS
  <2>1. CASE m + 1 \in L
    BY <2>1
  <2>2. CASE m + 1 \notin L
    <3>1. L \in SUBSET (1..m)
      BY <2>2
    <3>. QED  BY <1>2, <3>1
  <2>. QED  BY <2>1, <2>2
<1>3. n \in R
  <2> HIDE DEF R
  <2>. QED  BY <1>1, <1>2, NatSetInduction
<1>4. \E x \in K : \A y \in K : x >= y
  BY <1>3
<1>5. Max(K) \in K /\ \A y \in K : Max(K) >= y
  BY <1>4, Zenon DEF Max
<1>. QED  BY <1>5

(* A set of numbers up to n has a least one. *)
LEMMA MinOfFinite ==
  ASSUME NEW n \in Nat, NEW K \in SUBSET (1..n), K # {}
  PROVE  Min(K) \in K /\ \A y \in K : Min(K) <= y
<1> DEFINE R == {m \in Nat : \A L \in SUBSET (1..m) :
                   L # {} => \E x \in L : \A y \in L : x =< y}
<1>1. 0 \in R
  <2>1. 1..0 = {}
    OBVIOUS
  <2>. QED  BY <2>1
<1>2. ASSUME NEW m \in Nat, m \in R PROVE m + 1 \in R
  <2> SUFFICES ASSUME NEW L \in SUBSET (1..m + 1), L # {}
               PROVE  \E x \in L : \A y \in L : x =< y
    OBVIOUS
  <2> DEFINE M == L \ {m + 1}
  <2>1. CASE M = {}
    <3>1. \A y \in L : y = m + 1
      BY <2>1
    <3>2. m + 1 \in L
      BY <3>1
    <3>. QED  BY <3>1, <3>2
  <2>2. CASE M # {}
    <3>1. M \in SUBSET (1..m)
      OBVIOUS
    <3>2. PICK x \in M : \A y \in M : x =< y
      BY <1>2, <2>2, <3>1
    <3>3. \A y \in L : y \in M \/ y = m + 1
      OBVIOUS
    <3>4. x \in L /\ x \in 1..m
      BY <3>1, <3>2
    <3>5. \A y \in L : x =< y
      <4> HIDE DEF M
      <4>. QED  BY <3>2, <3>3, <3>4
    <3>. QED  BY <3>4, <3>5
  <2>. QED  BY <2>1, <2>2
<1>3. n \in R
  <2> HIDE DEF R
  <2>. QED  BY <1>1, <1>2, NatSetInduction
<1>4. \E x \in K : \A y \in K : x =< y
  BY <1>3
<1>5. Min(K) \in K /\ \A y \in K : Min(K) =< y
  BY <1>4, Zenon DEF Min
<1>. QED  BY <1>5

(* The greatest number of 1..k, and the rest of them. *)
LEMMA IntervalMax ==
  ASSUME NEW k \in Nat, k > 0
  PROVE  Max(1..k) = k /\ (1..k) \ {Max(1..k)} = 1..(k - 1) /\ 1..k # {}
<1>1. 1..k # {} /\ 1..k \in SUBSET (1..k)
  OBVIOUS
<1>2. Max(1..k) \in 1..k /\ \A y \in 1..k : y <= Max(1..k)
  BY <1>1, MaxOfFinite
<1>3. Max(1..k) = k
  BY <1>2
<1>. QED  BY <1>1, <1>3

(* The function in the definition of FoldLeft has every set of indices in   *)
(* its domain; it exists when the operator stays within a set T.            *)
IsFold(base, n, Step, g) ==
  \A K \in SUBSET (1..n) :
    g[K] = IF K = {} THEN base ELSE Step[Max(K)][g[K \ {Max(K)}]]

(* There is a function that satisfies the equation of a fold. *)
LEMMA FoldExists ==
  ASSUME NEW T, NEW base \in T, NEW n \in Nat, NEW Step \in [1..n -> [T -> T]]
  PROVE  \E g \in [SUBSET (1..n) -> T] : IsFold(base, n, Step, g)
<1> DEFINE Run(K, run) ==
             /\ run \in [0..n -> T]
             /\ run[0] = base
             /\ \A i \in 1..n : run[i] = IF i \in K THEN Step[i][run[i - 1]] ELSE run[i - 1]
<1>1. ASSUME NEW K \in SUBSET (1..n) PROVE \E run : Run(K, run)
  <2> DEFINE Some == [i \in 1..n |-> [v \in T |-> IF i \in K THEN Step[i][v] ELSE v]]
  <2>1. Some \in [1..n -> [T -> T]]
    OBVIOUS
  <2>2. PICK run \in [0..n -> T] : IsRun(base, n, Some, run)
    <3> HIDE DEF Some
    <3>. QED  BY <2>1, RecursionExists
  <2>3. ASSUME NEW i \in 1..n
        PROVE  run[i] = IF i \in K THEN Step[i][run[i - 1]] ELSE run[i - 1]
    <3>1. i - 1 \in 0..n
      OBVIOUS
    <3>2. run[i - 1] \in T
      BY <3>1
    <3>. QED  BY <2>2, <3>2 DEF IsRun
  <2>4. Run(K, run)
    BY <2>2, <2>3 DEF IsRun
  <2> HIDE DEF Run
  <2>. QED  BY <2>4
<1> DEFINE run == [K \in SUBSET (1..n) |-> CHOOSE r : Run(K, r)]
           g == [K \in SUBSET (1..n) |-> run[K][n]]
<1>2. ASSUME NEW K \in SUBSET (1..n) PROVE Run(K, run[K])
  <2> HIDE DEF Run
  <2>1. run[K] = CHOOSE r : Run(K, r)
    OBVIOUS
  <2>. QED  BY <1>1, <2>1, Zenon
<1> HIDE DEF run
<1>3. g \in [SUBSET (1..n) -> T]
  BY <1>2
<1>4. ASSUME NEW K \in SUBSET (1..n)
      PROVE  g[K] = IF K = {} THEN base ELSE Step[Max(K)][g[K \ {Max(K)}]]
  <2> DEFINE Still(L, m) == {i \in Nat : m <= i /\ i <= n => run[L][i] = run[L][m]}
  <2>1. ASSUME NEW L \in SUBSET (1..n), NEW m \in 0..n, \A x \in L : x <= m
        PROVE  g[L] = run[L][m]
    <3>1. 0 \in Still(L, m)
      OBVIOUS
    <3>2. ASSUME NEW i \in Nat, i \in Still(L, m) PROVE i + 1 \in Still(L, m)
      <4> SUFFICES ASSUME m <= i + 1, i + 1 <= n PROVE run[L][i + 1] = run[L][m]
        OBVIOUS
      <4>1. CASE m = i + 1
        BY <4>1
      <4>2. CASE m <= i
        <5>1. i + 1 \in 1..n /\ i + 1 \notin L /\ (i + 1) - 1 = i
          BY <2>1, <4>2
        <5>2. run[L][i + 1] = run[L][i]
          BY <1>2, <5>1
        <5>. QED  BY <3>2, <4>2, <5>2
      <4>. QED  BY <4>1, <4>2
    <3>3. n \in Still(L, m)
      <4> HIDE DEF Still
      <4>. QED  BY <3>1, <3>2, NatSetInduction
    <3>. QED  BY <3>3
  <2>2. CASE K = {}
    <3>0. 0 \in 0..n /\ \A x \in K : x <= 0
      BY <2>2
    <3>1. g[K] = run[K][0]
      BY <2>1, <3>0
    <3>. QED  BY <1>2, <2>2, <3>1
  <2>3. CASE K # {}
    <3> DEFINE m == Max(K)
               L == K \ {m}
    <3>1. m \in K /\ \A x \in K : x <= m
      BY <2>3, MaxOfFinite
    <3> HIDE DEF m
    <3>2. m \in 1..n /\ m - 1 \in 0..n /\ L \in SUBSET (1..n) /\ m \notin L
      BY <3>1
    <3>3. \A x \in L : x <= m - 1
      BY <3>1, <3>2
    <3>4. g[K] = run[K][m] /\ g[L] = run[L][m - 1]
      <4> HIDE DEF g, L
      <4>1. m \in 0..n
        BY <3>2
      <4>2. g[K] = run[K][m]
        BY <2>1, <3>1, <4>1, Zenon
      <4>3. g[L] = run[L][m - 1]
        BY <2>1, <3>2, <3>3, Zenon
      <4>. QED  BY <4>2, <4>3
    <3>5. run[K][m] = Step[m][run[K][m - 1]]
      BY <1>2, <3>1, <3>2
    <3> DEFINE Same == {i \in Nat : i < m => run[K][i] = run[L][i]}
    <3>6. 0 \in Same
      BY <1>2, <3>2
    <3>7. ASSUME NEW i \in Nat, i \in Same PROVE i + 1 \in Same
      <4> SUFFICES ASSUME i + 1 < m PROVE run[K][i + 1] = run[L][i + 1]
        OBVIOUS
      <4>1. i + 1 \in 1..n /\ (i + 1) - 1 = i /\ (i + 1 \in K <=> i + 1 \in L)
        BY <3>2
      <4>2. run[K][i] = run[L][i]
        <5>1. i < m
          BY <3>2
        <5>. QED  BY <3>7, <5>1
      <4>. QED  BY <1>2, <3>2, <4>1, <4>2
    <3>8. m - 1 \in Same
      <4> HIDE DEF Same
      <4>1. m - 1 \in Nat
        BY <3>2
      <4>. QED  BY <3>6, <3>7, <4>1, NatSetInduction
    <3>9. run[K][m - 1] = run[L][m - 1]
      BY <3>2, <3>8
    <3> HIDE DEF g, L
    <3>10. g[K] = Step[m][g[L]]
      BY <3>4, <3>5, <3>9
    <3>. QED  BY <2>3, <3>10 DEF m, L
  <2>. QED  BY <2>2, <2>3
<1>5. IsFold(base, n, Step, g)
  BY <1>4 DEF IsFold
<1> HIDE DEF g
<1>. QED  BY <1>3, <1>5

(* What is known of the value after each element holds at the end. *)
LEMMA RunStays ==
  ASSUME NEW T, NEW n \in Nat, NEW run, run[0] \in T,
         \A i \in 1..n : run[i - 1] \in T => run[i] \in T
  PROVE  \A i \in 0..n : run[i] \in T
<1> DEFINE I == {i \in Nat : i <= n => run[i] \in T}
<1>1. 0 \in I
  OBVIOUS
<1>2. ASSUME NEW i \in Nat, i \in I PROVE i + 1 \in I
  <2>1. i + 1 <= n => i + 1 \in 1..n /\ (i + 1) - 1 = i
    OBVIOUS
  <2>. QED  BY <1>2, <2>1
<1>3. Nat \subseteq I
  <2> HIDE DEF I
  <2>. QED  BY <1>1, <1>2, NatSetInduction
<1>. QED  BY <1>3

-----------------------------------------------------------------------------
(* The numbers up to k are finitely many. *)
LEMMA IntervalIsFinite == \A k \in Nat : IsFiniteSet(1..k)
BY FS_Interval

(* Induction over the subsets of a finite set. *)
LEMMA FiniteSetInduction ==
  ASSUME NEW S, IsFiniteSet(S), NEW I, {} \in I,
         \A s \in SUBSET S : s # {} /\ (\A x \in s : s \ {x} \in I) => s \in I
  PROVE  \A s \in SUBSET S : s \in I
<1> DEFINE J == {n \in Nat : \A s \in SUBSET S : Cardinality(s) = n => s \in I}
<1>1. \A s \in SUBSET S : IsFiniteSet(s) /\ Cardinality(s) \in Nat
  BY FS_Subset, FS_CardinalityType
<1>2. 0 \in J
  BY <1>1, FS_EmptySet
<1>3. ASSUME NEW n \in Nat, n \in J PROVE n + 1 \in J
  <2> SUFFICES ASSUME NEW s \in SUBSET S, Cardinality(s) = n + 1 PROVE s \in I
    OBVIOUS
  <2>0. s # {}
    <3>1. Cardinality({}) = 0 /\ n + 1 # 0
      BY FS_EmptySet
    <3>. QED  BY <3>1
  <2>1. ASSUME NEW x \in s PROVE s \ {x} \in I
    <3>1. Cardinality(s \ {x}) = n
      BY <1>1, FS_RemoveElement
    <3>. QED  BY <1>3, <3>1
  <2>. QED  BY <2>0, <2>1
<1>4. Nat \subseteq J
  <2> HIDE DEF J
  <2>. QED  BY <1>2, <1>3, NatSetInduction
<1>. QED  BY <1>1, <1>4

(* The function in the definition of SumFunctionOnSet. *)
First(s) == CHOOSE x \in s : TRUE

Summing(f, S) ==
  CHOOSE iter : iter =
    [s \in SUBSET S |->
       IF s = {} THEN 0 ELSE f[First(s)] + iter[s \ {First(s)}]]

(* The recursive function in the definition of a sum, element by element. *)
LEMMA SummingSteps ==
  ASSUME NEW S, IsFiniteSet(S), NEW f, \A x \in S : f[x] \in Nat
  PROVE  /\ SumFunctionOnSet(f, S) = Summing(f, S)[S]
         /\ Summing(f, S)[{}] = 0
         /\ \A s \in SUBSET S : s # {} =>
              /\ First(s) \in s
              /\ Summing(f, S)[s] = f[First(s)] + Summing(f, S)[s \ {First(s)}]
         /\ \A s \in SUBSET S : Summing(f, S)[s] \in Nat
<1> DEFINE Body(h) == [s \in SUBSET S |->
                         IF s = {} THEN 0 ELSE f[First(s)] + h[s \ {First(s)}]]
           sum == Summing(f, S)
<1>1. \A s \in SUBSET S : s # {} => First(s) \in s
  BY DEF First
<1>2. \A s \in SUBSET S : IsFiniteSet(s) /\ Cardinality(s) \in Nat
  BY FS_Subset, FS_CardinalityType
<1>3. sum = Body(sum)
  <2> DEFINE Upto(k, h) ==
               \A s \in SUBSET S : Cardinality(s) <= k =>
                 h[s] = IF s = {} THEN 0 ELSE f[First(s)] + h[s \ {First(s)}]
             I == {k \in Nat : \E h : Upto(k, h)}
  <2>1. \E h : Upto(0, h)
    <3> DEFINE h == [s \in SUBSET S |-> 0]
    <3>1. ASSUME NEW s \in SUBSET S, Cardinality(s) <= 0
          PROVE  h[s] = IF s = {} THEN 0 ELSE f[First(s)] + h[s \ {First(s)}]
      BY <1>2, <3>1, FS_EmptySet
    <3>2. Upto(0, h)
      BY <3>1
    <3> HIDE DEF Upto, h
    <3>. QED  BY <3>2
  <2>2. ASSUME NEW k \in Nat, NEW h, Upto(k, h) PROVE \E g : Upto(k + 1, g)
    <3> DEFINE g == [s \in SUBSET S |->
                       IF Cardinality(s) <= k THEN h[s]
                       ELSE f[First(s)] + h[s \ {First(s)}]]
    <3>1. ASSUME NEW s \in SUBSET S, Cardinality(s) <= k + 1, s # {}
          PROVE  g[s \ {First(s)}] = h[s \ {First(s)}]
      <4>1. Cardinality(s \ {First(s)}) = Cardinality(s) - 1
        BY <1>1, <1>2, <3>1, FS_RemoveElement
      <4>2. s \ {First(s)} \in SUBSET S /\ Cardinality(s \ {First(s)}) <= k
        BY <1>2, <3>1, <4>1
      <4>. QED  BY <4>2
    <3>2. ASSUME NEW s \in SUBSET S, Cardinality(s) <= k + 1
          PROVE  g[s] = IF s = {} THEN 0 ELSE f[First(s)] + g[s \ {First(s)}]
      <4>1. CASE Cardinality(s) <= k
        <5>1. g[s] = h[s] /\ h[s] = IF s = {} THEN 0 ELSE f[First(s)] + h[s \ {First(s)}]
          BY <2>2, <4>1
        <5> HIDE DEF g
        <5>. QED  BY <3>1, <3>2, <5>1
      <4>2. CASE ~ (Cardinality(s) <= k)
        <5>1. s # {}
          BY <4>2, FS_EmptySet
        <5>2. g[s] = f[First(s)] + h[s \ {First(s)}]
          BY <4>2
        <5> HIDE DEF g
        <5>. QED  BY <3>1, <3>2, <5>1, <5>2
      <4>. QED  BY <4>1, <4>2
    <3>3. Upto(k + 1, g)
      <4> HIDE DEF g
      <4>. QED  BY <3>2
    <3> HIDE DEF Upto, g
    <3>. QED  BY <3>3
  <2> HIDE DEF Upto
  <2>3. 0 \in I /\ \A k \in Nat : k \in I => k + 1 \in I
    BY <2>1, <2>2
  <2>4. PICK h : Upto(Cardinality(S), h)
    <3>1. Cardinality(S) \in I
      <4> HIDE DEF I
      <4>. QED  BY <1>2, <2>3, NatSetInduction
    <3>. QED  BY <3>1
  <2>5. \A s \in SUBSET S :
          h[s] = IF s = {} THEN 0 ELSE f[First(s)] + h[s \ {First(s)}]
    BY <2>4, FS_Subset DEF Upto
  <2> DEFINE g == [s \in SUBSET S |-> h[s]]
  <2>6. \A s \in SUBSET S :
          g[s] = IF s = {} THEN 0 ELSE f[First(s)] + g[s \ {First(s)}]
    <3>1. \A s \in SUBSET S : s \ {First(s)} \in SUBSET S
      OBVIOUS
    <3>2. \A s \in SUBSET S : g[s] = h[s]
      OBVIOUS
    <3> HIDE DEF g
    <3>. QED  BY <2>5, <3>1, <3>2
  <2>7. g = Body(g)
    <3>1. g = [s \in SUBSET S |-> g[s]]
      OBVIOUS
    <3> HIDE DEF g
    <3>. QED  BY <2>6, <3>1
  <2> HIDE DEF g
  <2>. QED  BY <2>7, Zenon DEF Summing
<1>4. SumFunctionOnSet(f, S) = sum[S]
  BY Zenon DEF SumFunctionOnSet, FoldFunctionOnSet, MapThenFoldSet, Summing, First
<1> HIDE DEF sum
<1>5. /\ sum[{}] = 0
      /\ \A s \in SUBSET S : s # {} => sum[s] = f[First(s)] + sum[s \ {First(s)}]
  BY <1>3
<1> HIDE DEF Body
<1>6. \A s \in SUBSET S : sum[s] \in Nat
  <2> DEFINE J == {n \in Nat : \A s \in SUBSET S : Cardinality(s) = n => sum[s] \in Nat}
  <2>1. 0 \in J
    BY <1>2, <1>5, FS_EmptySet
  <2>2. ASSUME NEW n \in Nat, n \in J PROVE n + 1 \in J
    <3> SUFFICES ASSUME NEW s \in SUBSET S, Cardinality(s) = n + 1 PROVE sum[s] \in Nat
      OBVIOUS
    <3>1. s # {}
      BY FS_EmptySet
    <3>2. First(s) \in s /\ f[First(s)] \in Nat
      BY <1>1, <3>1
    <3>3. Cardinality(s \ {First(s)}) = n /\ s \ {First(s)} \in SUBSET S
      <4>1. IsFiniteSet(s) /\ (n + 1) - 1 = n
        BY <1>2
      <4>2. Cardinality(s \ {First(s)}) = Cardinality(s) - 1
        BY <3>2, <4>1, FS_RemoveElement
      <4>. QED  BY <4>1, <4>2
    <3>4. sum[s \ {First(s)}] \in Nat
      BY <2>2, <3>3
    <3>. QED  BY <1>5, <3>1, <3>2, <3>4
  <2>3. Nat \subseteq J
    <3> HIDE DEF J
    <3>. QED  BY <2>1, <2>2, NatSetInduction
  <2>. QED  BY <1>2, <2>3
<1>. QED  BY <1>1, <1>4, <1>5, <1>6 DEF sum

(* Any element may be added last. *)
LEMMA SummingRemove ==
  ASSUME NEW S, IsFiniteSet(S), NEW f, \A x \in S : f[x] \in Nat
  PROVE  \A s \in SUBSET S : \A x \in s :
           Summing(f, S)[s] = f[x] + Summing(f, S)[s \ {x}]
<1> DEFINE sum == Summing(f, S)
           J == {n \in Nat : \A s \in SUBSET S : Cardinality(s) = n =>
                               \A x \in s : sum[s] = f[x] + sum[s \ {x}]}
<1>1. /\ \A s \in SUBSET S : s # {} =>
           First(s) \in s /\ sum[s] = f[First(s)] + sum[s \ {First(s)}]
      /\ \A s \in SUBSET S : sum[s] \in Nat
  BY SummingSteps
<1>2. \A s \in SUBSET S : IsFiniteSet(s) /\ Cardinality(s) \in Nat
  BY FS_Subset, FS_CardinalityType
<1> HIDE DEF sum
<1>3. 0 \in J
  BY <1>2, FS_EmptySet
<1>4. ASSUME NEW n \in Nat, n \in J PROVE n + 1 \in J
  <2> SUFFICES ASSUME NEW s \in SUBSET S, Cardinality(s) = n + 1, NEW x \in s
               PROVE  sum[s] = f[x] + sum[s \ {x}]
    OBVIOUS
  <2> DEFINE c == First(s)
  <2>1. c \in s /\ sum[s] = f[c] + sum[s \ {c}]
    BY <1>1
  <2> HIDE DEF c
  <2>2. CASE c = x
    BY <2>1, <2>2
  <2>3. CASE c # x
    <3>1. Cardinality(s \ {c}) = n /\ Cardinality(s \ {x}) = n
      <4>1. IsFiniteSet(s) /\ (n + 1) - 1 = n
        BY <1>2
      <4>2. Cardinality(s \ {c}) = Cardinality(s) - 1
        BY <2>1, <4>1, FS_RemoveElement
      <4>3. Cardinality(s \ {x}) = Cardinality(s) - 1
        BY <4>1, FS_RemoveElement
      <4>. QED  BY <4>1, <4>2, <4>3
    <3>2. sum[s \ {c}] = f[x] + sum[(s \ {c}) \ {x}]
      BY <1>4, <2>3, <3>1
    <3>3. sum[s \ {x}] = f[c] + sum[(s \ {x}) \ {c}]
      BY <1>4, <2>1, <2>3, <3>1
    <3>4. (s \ {x}) \ {c} = (s \ {c}) \ {x} /\ (s \ {c}) \ {x} \in SUBSET S
      OBVIOUS
    <3>5. PICK rest \in Nat : rest = sum[(s \ {c}) \ {x}]
      BY <1>1, <3>4
    <3>6. f[x] \in Nat /\ f[c] \in Nat
      BY <2>1
    <3>7. sum[s] = f[c] + (f[x] + rest) /\ sum[s \ {x}] = f[c] + rest
      BY <2>1, <3>2, <3>3, <3>4, <3>5
    <3>. QED  BY <3>6, <3>7
  <2>. QED  BY <2>2, <2>3
<1>5. Nat \subseteq J
  <2> HIDE DEF J
  <2>. QED  BY <1>3, <1>4, NatSetInduction
<1>. QED  BY <1>2, <1>5 DEF sum

(* Only the numbers that are added count. *)
LEMMA SummingSame ==
  ASSUME NEW S, IsFiniteSet(S), NEW R, IsFiniteSet(R), S \subseteq R, NEW f, NEW g,
         \A x \in S : f[x] \in Nat /\ g[x] = f[x], \A x \in R : g[x] \in Nat
  PROVE  \A s \in SUBSET S : Summing(f, S)[s] = Summing(g, R)[s]
<1> DEFINE a == Summing(f, S)
           b == Summing(g, R)
           I == {s \in SUBSET S : a[s] = b[s]}
<1>1. /\ a[{}] = 0 /\ \A s \in SUBSET S : a[s] \in Nat
      /\ \A s \in SUBSET S : \A x \in s : a[s] = f[x] + a[s \ {x}]
  BY SMTT(60), SummingSteps, SummingRemove
<1>2. b[{}] = 0 /\ \A s \in SUBSET R : \A x \in s : b[s] = g[x] + b[s \ {x}]
  BY SummingSteps, SummingRemove
<1> HIDE DEF a, b
<1>3. {} \in I
  BY <1>1, <1>2
<1>4. ASSUME NEW s \in SUBSET S, NEW x \in s, s \ {x} \in I PROVE s \in I
  <2>1. a[s] = f[x] + a[s \ {x}] /\ b[s] = g[x] + b[s \ {x}] /\ g[x] = f[x]
    BY <1>1, <1>2
  <2>. QED  BY <1>4, <2>1
<1>5. \A s \in SUBSET S : s \in I
  <2> HIDE DEF I
  <2>. QED  BY ZenonT(60), <1>3, <1>4, FiniteSetInduction
<1>. QED  BY <1>5 DEF a, b

(* The sum of nothing. *)
LEMMA SumOfNone ==
  ASSUME NEW f PROVE SumFunctionOnSet(f, {}) = 0
<1>1. IsFiniteSet({}) /\ \A x \in {} : f[x] \in Nat
  BY FS_EmptySet
<1>. QED  BY <1>1, SummingSteps

(* A sum of natural numbers is one. *)
LEMMA SumIsNat ==
  ASSUME NEW S, IsFiniteSet(S), NEW f, \A x \in S : f[x] \in Nat
  PROVE  SumFunctionOnSet(f, S) \in Nat
BY SummingSteps

(* Equal summands have equal sums. *)
LEMMA SumOfSame ==
  ASSUME NEW S, IsFiniteSet(S), NEW f, NEW g, \A x \in S : f[x] \in Nat /\ g[x] = f[x]
  PROVE  SumFunctionOnSet(f, S) = SumFunctionOnSet(g, S)
<1>1. \A x \in S : f[x] \in Nat /\ g[x] \in Nat
  OBVIOUS
<1>2. Summing(f, S)[S] = Summing(g, S)[S]
  BY <1>1, SummingSame
<1>. QED  BY <1>1, <1>2, SummingSteps

(* One more summand is added to the sum. *)
LEMMA SumWithOneMore ==
  ASSUME NEW S, IsFiniteSet(S), NEW x, x \notin S, NEW f, \A y \in S \cup {x} : f[y] \in Nat
  PROVE  SumFunctionOnSet(f, S \cup {x}) = SumFunctionOnSet(f, S) + f[x]
<1> DEFINE R == S \cup {x}
<1>1. IsFiniteSet(R) /\ S \subseteq R /\ x \in R /\ R \ {x} = S /\ R \in SUBSET R
  BY FS_AddElement
<1>2. /\ SumFunctionOnSet(f, R) = Summing(f, R)[R]
      /\ SumFunctionOnSet(f, S) = Summing(f, S)[S]
      /\ Summing(f, S)[S] \in Nat
  BY <1>1, SummingSteps
<1>3. Summing(f, R)[R] = f[x] + Summing(f, R)[R \ {x}]
  BY <1>1, SummingRemove
<1>4. Summing(f, S)[S] = Summing(f, R)[S]
  BY <1>1, SummingSame
<1> HIDE DEF R
<1>5. SumFunctionOnSet(f, R) = SumFunctionOnSet(f, S) + f[x]
  <2>1. PICK rest \in Nat : rest = Summing(f, S)[S]
    BY <1>2
  <2>2. SumFunctionOnSet(f, R) = f[x] + rest /\ SumFunctionOnSet(f, S) = rest
    BY <1>1, <1>2, <1>3, <1>4, <2>1
  <2>3. f[x] \in Nat
    OBVIOUS
  <2>. QED  BY <2>2, <2>3
<1>. QED  BY <1>5 DEF R

(* One summand changes. *)
LEMMA SumUpdated ==
  ASSUME NEW S, IsFiniteSet(S), NEW x \in S, NEW f, NEW g,
         \A y \in S : f[y] \in Nat /\ g[y] \in Nat, \A y \in S : y # x => g[y] = f[y]
  PROVE  SumFunctionOnSet(g, S) + f[x] = SumFunctionOnSet(f, S) + g[x]
<1> DEFINE R == S \ {x}
<1>1. IsFiniteSet(R) /\ x \notin R /\ S = R \cup {x}
  BY FS_Subset
<1> HIDE DEF R
<1>2. \A y \in R \cup {x} : f[y] \in Nat /\ g[y] \in Nat
  BY <1>1
<1>3. SumFunctionOnSet(f, S) = SumFunctionOnSet(f, R) + f[x]
  BY <1>1, <1>2, SumWithOneMore
<1>4. SumFunctionOnSet(g, S) = SumFunctionOnSet(g, R) + g[x]
  BY <1>1, <1>2, SumWithOneMore
<1>5. \A y \in R : f[y] \in Nat /\ g[y] = f[y]
  BY <1>1, <1>2
<1>6. SumFunctionOnSet(f, R) = SumFunctionOnSet(g, R)
  BY <1>1, <1>5, SumOfSame
<1>7. SumFunctionOnSet(f, R) \in Nat
  BY <1>1, <1>5, SumIsNat
<1>8. PICK r \in Nat : r = SumFunctionOnSet(f, R)
  BY <1>7
<1>9. f[x] \in Nat /\ g[x] \in Nat
  OBVIOUS
<1>. QED  BY <1>3, <1>4, <1>6, <1>8, <1>9

(* A sum of zeros is zero. *)
LEMMA SumOfZeros ==
  ASSUME NEW S, IsFiniteSet(S), NEW f, \A x \in S : f[x] = 0
  PROVE  SumFunctionOnSet(f, S) = 0
<1> DEFINE I == {R \in SUBSET S : SumFunctionOnSet(f, R) = 0}
<1>1. {} \in I
  BY SumOfNone
<1>2. ASSUME NEW R \in SUBSET S, R # {}, \A x \in R : R \ {x} \in I PROVE R \in I
  <2>1. PICK x \in R : TRUE
    BY <1>2
  <2> DEFINE Q == R \ {x}
  <2>2. SumFunctionOnSet(f, Q) = 0
    BY <1>2
  <2>3. IsFiniteSet(Q) /\ x \notin Q /\ Q \cup {x} = R
    BY FS_Subset
  <2>4. f[x] = 0 /\ \A y \in Q \cup {x} : f[y] \in Nat
    OBVIOUS
  <2> HIDE DEF Q
  <2>5. SumFunctionOnSet(f, Q \cup {x}) = SumFunctionOnSet(f, Q) + f[x]
    BY <2>3, <2>4, SumWithOneMore
  <2>6. SumFunctionOnSet(f, Q \cup {x}) = 0
    BY <2>2, <2>4, <2>5
  <2>7. SumFunctionOnSet(f, R) = 0
    BY <2>3, <2>6
  <2>. QED  BY <2>7
<1> HIDE DEF I
<1>3. \A R \in SUBSET S : R \in I
  BY <1>1, <1>2, FiniteSetInduction
<1>. QED  BY <1>3 DEF I

(* Smaller summands have a smaller sum. *)
LEMMA SumIsAtMost ==
  ASSUME NEW S, IsFiniteSet(S), NEW f, NEW g,
         \A y \in S : f[y] \in Nat /\ g[y] \in Nat /\ f[y] <= g[y]
  PROVE  SumFunctionOnSet(f, S) <= SumFunctionOnSet(g, S)
<1> DEFINE I == {R \in SUBSET S : SumFunctionOnSet(f, R) <= SumFunctionOnSet(g, R)}
<1>1. {} \in I
  BY SumOfNone
<1>2. ASSUME NEW R \in SUBSET S, R # {}, \A x \in R : R \ {x} \in I PROVE R \in I
  <2>1. PICK x \in R : TRUE
    BY <1>2
  <2> DEFINE Q == R \ {x}
  <2>2. SumFunctionOnSet(f, Q) <= SumFunctionOnSet(g, Q)
    BY <1>2
  <2>3. IsFiniteSet(Q) /\ x \notin Q /\ Q \cup {x} = R
    BY FS_Subset
  <2>4. \A y \in Q \cup {x} : f[y] \in Nat /\ g[y] \in Nat
    OBVIOUS
  <2> HIDE DEF Q
  <2>5. SumFunctionOnSet(f, R) = SumFunctionOnSet(f, Q) + f[x]
    BY <2>3, <2>4, SumWithOneMore
  <2>6. SumFunctionOnSet(g, R) = SumFunctionOnSet(g, Q) + g[x]
    BY <2>3, <2>4, SumWithOneMore
  <2>7. SumFunctionOnSet(f, Q) \in Nat /\ SumFunctionOnSet(g, Q) \in Nat
    BY <2>3, <2>4, SumIsNat
  <2>8. f[x] \in Nat /\ g[x] \in Nat /\ f[x] <= g[x]
    OBVIOUS
  <2>9. SumFunctionOnSet(f, R) <= SumFunctionOnSet(g, R)
    BY <2>2, <2>5, <2>6, <2>7, <2>8
  <2>. QED  BY <2>9
<1> HIDE DEF I
<1>3. \A R \in SUBSET S : R \in I
  BY <1>1, <1>2, FiniteSetInduction
<1>. QED  BY <1>3 DEF I

(* Sums are added summand by summand. *)
LEMMA SumOfSums ==
  ASSUME NEW S, IsFiniteSet(S), NEW f, NEW g, NEW h,
         \A y \in S : f[y] \in Nat /\ g[y] \in Nat /\ h[y] = f[y] + g[y]
  PROVE  SumFunctionOnSet(h, S) = SumFunctionOnSet(f, S) + SumFunctionOnSet(g, S)
<1> DEFINE I == {R \in SUBSET S : SumFunctionOnSet(h, R)
                                     = SumFunctionOnSet(f, R) + SumFunctionOnSet(g, R)}
<1>1. {} \in I
  BY SumOfNone
<1>2. ASSUME NEW R \in SUBSET S, R # {}, \A x \in R : R \ {x} \in I PROVE R \in I
  <2>1. PICK x \in R : TRUE
    BY <1>2
  <2> DEFINE Q == R \ {x}
  <2>2. SumFunctionOnSet(h, Q) = SumFunctionOnSet(f, Q) + SumFunctionOnSet(g, Q)
    BY <1>2
  <2>3. IsFiniteSet(Q) /\ x \notin Q /\ Q \cup {x} = R
    BY FS_Subset
  <2>4. \A y \in Q \cup {x} : f[y] \in Nat /\ g[y] \in Nat /\ h[y] \in Nat
    OBVIOUS
  <2> HIDE DEF Q
  <2>5. SumFunctionOnSet(f, R) = SumFunctionOnSet(f, Q) + f[x]
    BY <2>3, <2>4, SumWithOneMore
  <2>6. SumFunctionOnSet(g, R) = SumFunctionOnSet(g, Q) + g[x]
    BY <2>3, <2>4, SumWithOneMore
  <2>7. SumFunctionOnSet(h, R) = SumFunctionOnSet(h, Q) + h[x]
    BY <2>3, <2>4, SumWithOneMore
  <2>8. SumFunctionOnSet(f, Q) \in Nat /\ SumFunctionOnSet(g, Q) \in Nat
    BY <2>3, <2>4, SumIsNat
  <2>9. f[x] \in Nat /\ g[x] \in Nat /\ h[x] = f[x] + g[x]
    OBVIOUS
  <2>10. SumFunctionOnSet(h, R) = SumFunctionOnSet(f, R) + SumFunctionOnSet(g, R)
    BY <2>2, <2>5, <2>6, <2>7, <2>8, <2>9
  <2>. QED  BY <2>10
<1> HIDE DEF I
<1>3. \A R \in SUBSET S : R \in I
  BY <1>1, <1>2, FiniteSetInduction
<1>. QED  BY <1>3 DEF I

(* So many summands are not zero at most. *)
LEMMA SumCountsAtLeast ==
  ASSUME NEW S, IsFiniteSet(S), NEW f, \A y \in S : f[y] \in Nat /\ f[y] > 0
  PROVE  Cardinality(S) <= SumFunctionOnSet(f, S)
<1> DEFINE I == {R \in SUBSET S : Cardinality(R) <= SumFunctionOnSet(f, R)}
<1>1. {} \in I
  BY SumOfNone, FS_EmptySet
<1>2. ASSUME NEW R \in SUBSET S, R # {}, \A x \in R : R \ {x} \in I PROVE R \in I
  <2>1. PICK x \in R : TRUE
    BY <1>2
  <2> DEFINE Q == R \ {x}
  <2>2. Cardinality(Q) <= SumFunctionOnSet(f, Q)
    BY <1>2
  <2>3. IsFiniteSet(Q) /\ IsFiniteSet(R) /\ x \notin Q /\ Q \cup {x} = R
    BY FS_Subset
  <2>4. \A y \in Q \cup {x} : f[y] \in Nat
    OBVIOUS
  <2>5. Cardinality(Q) = Cardinality(R) - 1 /\ Cardinality(R) \in Nat
    BY <2>3, FS_RemoveElement, FS_CardinalityType
  <2> HIDE DEF Q
  <2>6. SumFunctionOnSet(f, R) = SumFunctionOnSet(f, Q) + f[x]
    BY <2>3, <2>4, SumWithOneMore
  <2>7. SumFunctionOnSet(f, Q) \in Nat /\ f[x] \in Nat /\ f[x] > 0
    BY <2>3, <2>4, SumIsNat
  <2>8. Cardinality(R) <= SumFunctionOnSet(f, R)
    BY <2>2, <2>5, <2>6, <2>7
  <2>. QED  BY <2>8
<1> HIDE DEF I
<1>3. \A R \in SUBSET S : R \in I
  BY <1>1, <1>2, FiniteSetInduction
<1>. QED  BY <1>3 DEF I

(* A part of the summands has at most the sum of all. *)
LEMMA SumOfPart ==
  ASSUME NEW S, IsFiniteSet(S), NEW R \in SUBSET S, NEW f, \A y \in S : f[y] \in Nat
  PROVE  SumFunctionOnSet(f, R) <= SumFunctionOnSet(f, S)
<1> DEFINE I == {Q \in SUBSET S : SumFunctionOnSet(f, Q \cap R) <= SumFunctionOnSet(f, Q)}
<1>1. {} \in I
  <2>1. {} \cap R = {}
    OBVIOUS
  <2>. QED  BY <2>1, SumOfNone
<1>2. ASSUME NEW T \in SUBSET S, T # {}, \A x \in T : T \ {x} \in I PROVE T \in I
  <2>1. PICK x \in T : TRUE
    BY <1>2
  <2> DEFINE Q == T \ {x}
             P == Q \cap R
  <2>2. SumFunctionOnSet(f, P) <= SumFunctionOnSet(f, Q)
    BY <1>2
  <2>3. /\ IsFiniteSet(Q) /\ x \notin Q /\ Q \cup {x} = T /\ f[x] \in Nat
        /\ IsFiniteSet(P) /\ x \notin P
        /\ T \cap R = P \cup (IF x \in R THEN {x} ELSE {})
    BY FS_Subset
  <2>4. \A y \in Q \cup {x} : f[y] \in Nat
    OBVIOUS
  <2>5. \A y \in P \cup {x} : f[y] \in Nat
    OBVIOUS
  <2> HIDE DEF Q, P
  <2>6. SumFunctionOnSet(f, T) = SumFunctionOnSet(f, Q) + f[x]
    BY <2>3, <2>4, SumWithOneMore
  <2>7. SumFunctionOnSet(f, P) \in Nat /\ SumFunctionOnSet(f, Q) \in Nat
    BY <2>3, <2>4, <2>5, SumIsNat
  <2>8. SumFunctionOnSet(f, P \cup {x}) = SumFunctionOnSet(f, P) + f[x]
    BY <2>3, <2>5, SumWithOneMore
  <2>9. T \cap R = P \/ T \cap R = P \cup {x}
    BY <2>3
  <2>10. SumFunctionOnSet(f, T \cap R) <= SumFunctionOnSet(f, T)
    <3>1. PICK p \in Nat, r \in Nat : p = SumFunctionOnSet(f, P) /\ r = SumFunctionOnSet(f, Q)
      BY <2>7
    <3>2. p <= r /\ f[x] \in Nat
      BY <2>2, <2>3, <3>1
    <3>3. SumFunctionOnSet(f, T) = r + f[x]
      BY <2>6, <3>1
    <3>4. CASE T \cap R = P
      <4>1. SumFunctionOnSet(f, T \cap R) = p
        BY <3>1, <3>4
      <4>. QED  BY <3>2, <3>3, <4>1
    <3>5. CASE T \cap R = P \cup {x}
      <4>1. SumFunctionOnSet(f, T \cap R) = p + f[x]
        BY <2>8, <3>1, <3>5
      <4>. QED  BY <3>2, <3>3, <4>1
    <3>. QED  BY <2>9, <3>4, <3>5
  <2>. QED  BY <2>10
<1> HIDE DEF I
<1>3. S \in I
  BY <1>1, <1>2, FiniteSetInduction
<1>4. S \cap R = R
  OBVIOUS
<1>. QED  BY <1>3, <1>4 DEF I

(* The first k + 1 of a sequence of numbers, and those of a sequence that   *)
(* goes on with another one. *)
LEMMA SumUpto ==
  ASSUME NEW k \in Nat, NEW f, \A i \in 1..k + 1 : f[i] \in Nat
  PROVE  SumFunctionOnSet(f, 1..k + 1) = SumFunctionOnSet(f, 1..k) + f[k + 1]
<1>1. 1..k + 1 = (1..k) \cup {k + 1} /\ k + 1 \notin 1..k
  OBVIOUS
<1>2. IsFiniteSet(1..k)
  BY FS_Interval
<1>3. PICK S : S = 1..k
  OBVIOUS
<1>4. \A i \in S \cup {k + 1} : f[i] \in Nat
  <2>1. S \cup {k + 1} = 1..k + 1
    BY <1>1, <1>3
  <2>. QED  BY <2>1
<1>5. SumFunctionOnSet(f, S \cup {k + 1}) = SumFunctionOnSet(f, S) + f[k + 1]
  BY <1>1, <1>2, <1>3, <1>4, SumWithOneMore
<1>. QED  BY <1>1, <1>3, <1>5

(* A sum over n + m indices is that over the first n and that over the     *)
(* rest.                                                                   *)
LEMMA SumOfConcat ==
  ASSUME NEW n \in Nat, NEW m \in Nat, NEW f, NEW g, \A i \in 1..n + m : f[i] \in Nat,
         \A j \in 1..m : g[j] = f[n + j]
  PROVE  SumFunctionOnSet(f, 1..n + m) = SumFunctionOnSet(f, 1..n) + SumFunctionOnSet(g, 1..m)
<1> DEFINE I == {k \in Nat : k <= m =>
                   SumFunctionOnSet(f, 1..n + k)
                     = SumFunctionOnSet(f, 1..n) + SumFunctionOnSet(g, 1..k)}
<1>1. SumFunctionOnSet(f, 1..n) \in Nat
  <2>1. IsFiniteSet(1..n) /\ \A i \in 1..n : f[i] \in Nat
    BY FS_Interval
  <2>. QED  BY <2>1, SumIsNat
<1>2. 0 \in I
  <2>1. 1..0 = {} /\ n + 0 = n
    OBVIOUS
  <2>. QED  BY <1>1, <2>1, SumOfNone
<1>3. ASSUME NEW k \in Nat, k \in I PROVE k + 1 \in I
  <2> SUFFICES ASSUME k + 1 <= m
               PROVE  SumFunctionOnSet(f, 1..n + (k + 1))
                        = SumFunctionOnSet(f, 1..n) + SumFunctionOnSet(g, 1..k + 1)
    OBVIOUS
  <2>1. SumFunctionOnSet(f, 1..n + k) = SumFunctionOnSet(f, 1..n) + SumFunctionOnSet(g, 1..k)
    BY <1>3
  <2>2. n + k \in Nat /\ (n + k) + 1 = n + (k + 1) /\ \A i \in 1..(n + k) + 1 : f[i] \in Nat
    OBVIOUS
  <2>3. SumFunctionOnSet(f, 1..n + (k + 1)) = SumFunctionOnSet(f, 1..n + k) + f[n + (k + 1)]
    <3>1. SumFunctionOnSet(f, 1..(n + k) + 1) = SumFunctionOnSet(f, 1..n + k) + f[(n + k) + 1]
      BY <2>2, SumUpto
    <3>. QED  BY <2>2, <3>1
  <2>4. \A j \in 1..k + 1 : g[j] \in Nat /\ g[j] = f[n + j]
    <3>1. \A j \in 1..k + 1 : j \in 1..m /\ n + j \in 1..n + m
      OBVIOUS
    <3>. QED  BY <3>1
  <2>5. SumFunctionOnSet(g, 1..k + 1) = SumFunctionOnSet(g, 1..k) + g[k + 1]
    BY <2>4, SumUpto
  <2>6. g[k + 1] = f[n + (k + 1)] /\ g[k + 1] \in Nat
    BY <2>4
  <2>7. SumFunctionOnSet(g, 1..k) \in Nat
    <3>1. IsFiniteSet(1..k) /\ \A j \in 1..k : g[j] \in Nat
      BY <2>4, FS_Interval
    <3>. QED  BY <3>1, SumIsNat
  <2>. QED  BY <1>1, <2>1, <2>3, <2>5, <2>6, <2>7
<1>4. m \in I
  <2> HIDE DEF I
  <2>. QED  BY <1>2, <1>3, NatSetInduction
<1>. QED  BY <1>4

-----------------------------------------------------------------------------
(* The weight of a sequence, from the weights of its elements. *)
Weight(q, weigh) == SumFunctionOnSet([i \in 1..Len(q) |-> weigh[q[i]]], 1..Len(q))

(* A weight is a natural number, and nothing weighs nothing. *)
LEMMA WeightIsNat ==
  ASSUME NEW S, NEW weigh \in [S -> Nat], NEW q \in Seq(S)
  PROVE  Weight(q, weigh) \in Nat /\ Weight(<<>>, weigh) = 0
<1> DEFINE f == [i \in 1..Len(q) |-> weigh[q[i]]]
<1>1. PICK n \in Nat : n = Len(q)
  BY LenProperties
<1>2. \A i \in 1..n : q[i] \in S
  BY <1>1, ElementOfSeq
<1>3. \A i \in 1..n : f[i] \in Nat
  BY <1>1, <1>2
<1>4. IsFiniteSet(1..n)
  BY FS_Interval
<1> HIDE DEF f
<1>5. SumFunctionOnSet(f, 1..n) \in Nat
  BY <1>3, <1>4, SumIsNat
<1>6. Weight(<<>>, weigh) = 0
  <2>1. 1..Len(<<>>) = {}
    OBVIOUS
  <2>. QED  BY <2>1, SumOfNone DEF Weight
<1>. QED  BY <1>1, <1>5, <1>6 DEF Weight, f

(* A concatenation weighs what its parts weigh. *)
LEMMA WeightOfConcat ==
  ASSUME NEW S, NEW weigh \in [S -> Nat], NEW q \in Seq(S), NEW r \in Seq(S)
  PROVE  Weight(q \o r, weigh) = Weight(q, weigh) + Weight(r, weigh)
<1> DEFINE t == q \o r
           h == [i \in 1..Len(t) |-> weigh[t[i]]]
           f == [i \in 1..Len(q) |-> weigh[q[i]]]
           g == [i \in 1..Len(r) |-> weigh[r[i]]]
<1>1. PICK n \in Nat : n = Len(q)
  BY LenProperties
<1>2. PICK m \in Nat : m = Len(r)
  BY LenProperties
<1>3. /\ \A i \in 1..n : q[i] \in S
      /\ \A i \in 1..m : r[i] \in S
  BY <1>1, <1>2, ElementOfSeq
<1>4. /\ Len(t) = n + m
      /\ \A i \in 1..n + m : t[i] = IF i <= n THEN q[i] ELSE r[i - n]
  BY <1>1, <1>2, ConcatProperties
<1> HIDE DEF t
<1>5. \A i \in 1..n : h[i] = f[i] /\ f[i] \in Nat
  <2>1. \A i \in 1..n : i \in 1..n + m
    OBVIOUS
  <2>. QED  BY <1>1, <1>3, <1>4, <2>1
<1>6. \A j \in 1..m : g[j] = h[n + j] /\ g[j] \in Nat
  <2>1. \A j \in 1..m : n + j \in 1..n + m /\ ~ (n + j <= n) /\ (n + j) - n = j
    OBVIOUS
  <2>. QED  BY <1>2, <1>3, <1>4, <2>1
<1> HIDE DEF f, g, h
<1>7. \A i \in 1..n + m : h[i] \in Nat
  <2>1. ASSUME NEW i \in 1..n + m PROVE h[i] \in Nat
    <3>1. CASE i <= n
      <4>1. i \in 1..n
        BY <3>1
      <4>. QED  BY <1>5, <4>1
    <3>2. CASE ~ (i <= n)
      <4>1. i - n \in 1..m /\ n + (i - n) = i
        BY <3>2
      <4>. QED  BY <1>6, <4>1
    <3>. QED  BY <3>1, <3>2
  <2>. QED  BY <2>1
<1>8. SumFunctionOnSet(h, 1..n + m) = SumFunctionOnSet(h, 1..n) + SumFunctionOnSet(g, 1..m)
  <2>1. \A j \in 1..m : g[j] = h[n + j]
    BY <1>6
  <2>2. n \in Nat /\ m \in Nat
    OBVIOUS
  <2>. QED  BY <1>7, <2>1, <2>2, SumOfConcat, SMTT(60)
<1>9. SumFunctionOnSet(h, 1..n) = SumFunctionOnSet(f, 1..n)
  <2>1. IsFiniteSet(1..n)
    BY FS_Interval
  <2>2. \A i \in 1..n : h[i] \in Nat /\ f[i] = h[i]
    BY <1>5
  <2>. QED  BY <2>1, <2>2, SumOfSame, Zenon
<1>. QED  BY <1>1, <1>2, <1>4, <1>8, <1>9 DEF Weight, f, g, h, t

(* One more element adds its own weight. *)
LEMMA WeightOfAppend ==
  ASSUME NEW S, NEW weigh \in [S -> Nat], NEW q \in Seq(S), NEW x \in S
  PROVE  Weight(Append(q, x), weigh) = Weight(q, weigh) + weigh[x]
<1>1. <<x>> \in Seq(S) /\ Len(<<x>>) = 1 /\ <<x>>[1] = x
  OBVIOUS
<1>2. Append(q, x) = q \o <<x>>
  BY AppendIsConcat
<1>3. Weight(<<x>>, weigh) = weigh[x]
  <2> DEFINE f == [i \in 1..1 |-> weigh[<<x>>[i]]]
  <2>1. f[1] = weigh[x] /\ weigh[x] \in Nat
    BY <1>1
  <2>2. \A i \in 1..0 + 1 : f[i] \in Nat
    BY <2>1
  <2>3. Weight(<<x>>, weigh) = SumFunctionOnSet(f, 1..1)
    BY <1>1 DEF Weight
  <2> HIDE DEF f
  <2>4. SumFunctionOnSet(f, 1..0 + 1) = SumFunctionOnSet(f, 1..0) + f[0 + 1]
    BY <2>2, SumUpto
  <2>5. 1..0 = {} /\ 0 + 1 = 1
    OBVIOUS
  <2>6. SumFunctionOnSet(f, 1..1) = 0 + f[1]
    BY <2>4, <2>5, SumOfNone
  <2>. QED  BY <2>1, <2>3, <2>6
<1>. QED  BY <1>1, <1>2, <1>3, WeightOfConcat

(* What is picked weighs no more. *)
LEMMA WeightOfPicked ==
  ASSUME NEW S, NEW weigh \in [S -> Nat], NEW s \in Seq(S), NEW K \in SUBSET (1..Len(s))
  PROVE  Weight(Picked(s, K), weigh) <= Weight(s, weigh)
<1> DEFINE h == Picking(s, K)
           f == [i \in 1..Len(s) |-> weigh[s[i]]]
           I == {k \in Nat : k <= Len(s) => Weight(h[k], weigh) <= SumFunctionOnSet(f, 1..k)}
<1>1. PICK n \in Nat : n = Len(s) /\ \A i \in 1..n : s[i] \in S
  BY LenProperties, ElementOfSeq
<1>2. /\ Picked(s, K) = h[n] /\ h[0] = <<>>
      /\ \A i \in 1..n : h[i] = IF i \in K THEN Append(h[i - 1], s[i]) ELSE h[i - 1]
      /\ \A i \in 0..n : h[i] \in Seq(S)
  BY SMTT(60), <1>1, PickedSteps
<1>3. \A i \in 1..n : f[i] = weigh[s[i]] /\ f[i] \in Nat
  BY <1>1
<1> HIDE DEF h, f
<1>4. 0 \in I
  <2>1. 1..0 = {}
    OBVIOUS
  <2>. QED  BY <1>1, <1>2, <2>1, SumOfNone, WeightIsNat
<1>5. ASSUME NEW k \in Nat, k \in I PROVE k + 1 \in I
  <2> SUFFICES ASSUME k + 1 <= n
               PROVE  Weight(h[k + 1], weigh) <= SumFunctionOnSet(f, 1..k + 1)
    BY <1>1
  <2>1. Weight(h[k], weigh) <= SumFunctionOnSet(f, 1..k)
    BY <1>1, <1>5
  <2>2. k + 1 \in 1..n /\ (k + 1) - 1 = k /\ k \in 0..n /\ \A i \in 1..k + 1 : i \in 1..n
    OBVIOUS
  <2>3. SumFunctionOnSet(f, 1..k + 1) = SumFunctionOnSet(f, 1..k) + f[k + 1]
    BY <1>3, <2>2, SumUpto
  <2>4. h[k] \in Seq(S) /\ s[k + 1] \in S /\ f[k + 1] = weigh[s[k + 1]] /\ f[k + 1] \in Nat
    BY <1>1, <1>2, <1>3, <2>2
  <2>5. Weight(h[k + 1], weigh) = Weight(h[k], weigh) + (IF k + 1 \in K THEN f[k + 1] ELSE 0)
    <3>1. CASE k + 1 \in K
      <4>1. h[k + 1] = Append(h[k], s[k + 1])
        BY <1>2, <2>2, <3>1
      <4>2. Weight(Append(h[k], s[k + 1]), weigh) = Weight(h[k], weigh) + weigh[s[k + 1]]
        BY <2>4, WeightOfAppend
      <4>. QED  BY <2>4, <3>1, <4>1, <4>2
    <3>2. CASE k + 1 \notin K
      <4>1. h[k + 1] = h[k]
        BY <1>2, <2>2, <3>2
      <4>2. Weight(h[k], weigh) \in Nat
        BY <2>4, WeightIsNat
      <4>. QED  BY <3>2, <4>1, <4>2
    <3>. QED  BY <3>1, <3>2
  <2>6. Weight(h[k], weigh) \in Nat /\ SumFunctionOnSet(f, 1..k) \in Nat
    <3>1. IsFiniteSet(1..k) /\ \A i \in 1..k : f[i] \in Nat
      BY <1>3, <2>2, FS_Interval
    <3>. QED  BY <2>4, <3>1, WeightIsNat, SumIsNat
  <2>. QED  BY <2>1, <2>3, <2>4, <2>5, <2>6
<1>6. n \in I
  <2> HIDE DEF I
  <2>. QED  BY <1>4, <1>5, NatSetInduction
<1>. QED  BY <1>1, <1>2, <1>6 DEF Weight, f

(* A flattened sequence weighs what the sequences in it weigh. *)
LEMMA WeightOfFlattened ==
  ASSUME NEW S, NEW weigh \in [S -> Nat], NEW seqs \in Seq(Seq(S))
  PROVE  Weight(FlattenSeq(seqs), weigh)
           = SumFunctionOnSet([i \in 1..Len(seqs) |-> Weight(seqs[i], weigh)], 1..Len(seqs))
<1> DEFINE h == Flattening(seqs)
           f == [i \in 1..Len(seqs) |-> Weight(seqs[i], weigh)]
           I == {k \in Nat : k + 1 <= Len(seqs) =>
                   Weight(h[k + 1], weigh) = SumFunctionOnSet(f, 1..k + 1)}
<1>1. PICK n \in Nat : n = Len(seqs) /\ \A i \in 1..n : seqs[i] \in Seq(S)
  BY LenProperties, ElementOfSeq
<1>2. \A i \in 1..n : f[i] = Weight(seqs[i], weigh) /\ f[i] \in Nat
  BY <1>1, WeightIsNat
<1> HIDE DEF f
<1>3. CASE n = 0
  <2>1. seqs = <<>> /\ 1..0 = {}
    <3>1. PICK T : T = Seq(S)
      OBVIOUS
    <3>2. seqs \in Seq(T) /\ Len(seqs) = 0
      BY <1>1, <1>3, <3>1
    <3>. QED  BY <3>2, EmptySeq
  <2>2. FlattenSeq(seqs) = <<>>
    BY <2>1 DEF FlattenSeq
  <2>3. SumFunctionOnSet(f, 1..n) = 0
    BY <1>3, <2>1, SumOfNone
  <2>. QED  BY <1>1, <2>2, <2>3, WeightIsNat DEF f
<1>4. CASE n # 0
  <2>1. /\ FlattenSeq(seqs) = h[n] /\ h[1] = seqs[1]
        /\ \A i \in 2..n : h[i] = h[i - 1] \o seqs[i]
        /\ \A i \in 1..n : h[i] \in Seq(S)
    BY <1>1, <1>4, FlatteningSteps
  <2> HIDE DEF h
  <2>2. 0 \in I
    <3>1. 1 \in 1..n /\ 1..0 = {} /\ 0 + 1 = 1 /\ \A i \in 1..0 + 1 : i \in 1..n
      BY <1>4
    <3>2. SumFunctionOnSet(f, 1..0 + 1) = SumFunctionOnSet(f, 1..0) + f[0 + 1]
      BY <1>2, <3>1, SumUpto
    <3>3. SumFunctionOnSet(f, 1..0) = 0 /\ f[0 + 1] = Weight(seqs[1], weigh) /\ f[0 + 1] \in Nat
      BY <1>2, <3>1, SumOfNone
    <3>. QED  BY <2>1, <3>1, <3>2, <3>3
  <2>3. ASSUME NEW k \in Nat, k \in I PROVE k + 1 \in I
    <3> SUFFICES ASSUME (k + 1) + 1 <= n
                 PROVE  Weight(h[(k + 1) + 1], weigh) = SumFunctionOnSet(f, 1..(k + 1) + 1)
      BY <1>1
    <3>1. Weight(h[k + 1], weigh) = SumFunctionOnSet(f, 1..k + 1)
      BY <1>1, <2>3
    <3> DEFINE j == (k + 1) + 1
    <3>2. /\ j \in 2..n /\ j \in 1..n /\ j - 1 = k + 1 /\ k + 1 \in 1..n /\ k + 1 \in Nat
          /\ \A i \in 1..(k + 1) + 1 : i \in 1..n
      OBVIOUS
    <3>3. SumFunctionOnSet(f, 1..(k + 1) + 1) = SumFunctionOnSet(f, 1..k + 1) + f[(k + 1) + 1]
      BY <1>2, <3>2, SumUpto
    <3> HIDE DEF j
    <3>4. h[j] = h[k + 1] \o seqs[j] /\ h[k + 1] \in Seq(S) /\ seqs[j] \in Seq(S)
      BY <1>1, <2>1, <3>2
    <3>5. Weight(h[j], weigh) = Weight(h[k + 1], weigh) + Weight(seqs[j], weigh)
      BY <3>4, WeightOfConcat
    <3>6. f[j] = Weight(seqs[j], weigh)
      BY <1>2, <3>2
    <3>. QED  BY <3>1, <3>3, <3>5, <3>6 DEF j
  <2>4. n - 1 \in I
    <3> HIDE DEF I
    <3>1. n - 1 \in Nat
      BY <1>4
    <3>. QED  BY <2>2, <2>3, <3>1, NatSetInduction
  <2>5. (n - 1) + 1 = n
    OBVIOUS
  <2>6. Weight(h[n], weigh) = SumFunctionOnSet(f, 1..n)
    BY <1>1, <2>4, <2>5
  <2>. QED  BY <1>1, <2>1, <2>6 DEF f
<1>. QED  BY <1>3, <1>4

-----------------------------------------------------------------------------
(* What every call preserves: no conjunct but NeutralIsEmpty can be proved *)
(* without the type, and the action property needs ContestedMargin.        *)
NodeInv(n) ==
  /\ n \in NodeStates
  /\ \A s \in Side : n.garrison[s] = 1 <=> n.type = "SupplyLine" /\ n.ownership = s
  /\ \A s \in Side :
       n.ownership = s => GetTotalCount(n, s) > GetTotalCount(n, Enemy(s))
  /\ n.ownership = "Contested" =>
       \A s \in Side : GetTotalCount(n, s) <= GetTotalCount(n, Enemy(s)) + 1
  /\ n.ownership = "Neutral" /\ n.type # "Headquarters" =>
       \A s \in Side : GetTotalCount(n, s) = 0

(* The two sides, and each is the other's enemy. *)
LEMMA Sides ==
  /\ Enemy("A") = "B" /\ Enemy("B") = "A"
  /\ \A s \in Side : s = "A" \/ s = "B"
  /\ "A" \in Side /\ "B" \in Side
BY DEF Side, Enemy

(* The garrison the invariant calls for. *)
Garrison(type, owner) ==
  [s \in Side |-> IF type = "SupplyLine" /\ owner = s THEN 1 ELSE 0]

(* UpdateOwnership after any change of the mobile units of a node that     *)
(* satisfied the invariant, written out: the owner is the one the count    *)
(* with the old garrison calls for, and the garrison follows it.           *)
LEMMA UpdateResult ==
  ASSUME NEW n, NodeInv(n), NEW m \in [Side -> Nat]
  PROVE  LET moved == [n EXCEPT !.mobile = m]
             owner == IF n.type = "Headquarters" THEN "Neutral" ELSE OwnerByCount(moved)
         IN  UpdateOwnership(moved) =
               [type |-> n.type, ownership |-> owner,
                mobile |-> m, garrison |-> Garrison(n.type, owner)]
<1> DEFINE moved == [n EXCEPT !.mobile = m]
           owner == IF n.type = "Headquarters" THEN "Neutral" ELSE OwnerByCount(moved)
           owned == [moved EXCEPT !.ownership = owner]
<1>1. n = [type |-> n.type, ownership |-> n.ownership,
           mobile |-> n.mobile, garrison |-> n.garrison]
  BY DEF NodeInv, NodeStates
<1>2. n.garrison = Garrison(n.type, n.ownership)
  BY DEF NodeInv, NodeStates, Garrison
<1>3. owned = [type |-> n.type, ownership |-> owner,
               mobile |-> m, garrison |-> Garrison(n.type, n.ownership)]
  <2>1. moved = [type |-> n.type, ownership |-> n.ownership,
                 mobile |-> m, garrison |-> n.garrison]
    BY <1>1
  <2> HIDE DEF moved, owner
  <2>2. owned = [type |-> n.type, ownership |-> owner,
                 mobile |-> m, garrison |-> n.garrison]
    BY <2>1
  <2>3. QED
    BY <1>2, <2>2
<1>4. moved.type = n.type /\ moved.ownership = n.ownership
  BY <1>1
<1> HIDE DEF owned
<1>5. CASE n.type = "Headquarters" \/ owner = n.ownership
  <2>1. UpdateOwnership(moved) = owned
    BY <1>4, <1>5 DEF UpdateOwnership, owned
  <2>2. Garrison(n.type, n.ownership) = Garrison(n.type, owner)
    BY <1>5 DEF Garrison
  <2>3. QED
    BY <1>3, <2>1, <2>2
<1>6. CASE n.type # "Headquarters" /\ owner # n.ownership
  <2>1. UpdateOwnership(moved) = ActivateSupplyLineIfNeeded(DeactivateSupplyLine(owned))
    BY <1>4, <1>6 DEF UpdateOwnership, owned
  <2>2. CASE n.type = "SupplyLine"
    <3>1. DeactivateSupplyLine(owned) =
            [type |-> n.type, ownership |-> owner, mobile |-> m,
             garrison |-> [s \in Side |-> 0]]
      BY <1>3, <1>6, <2>2 DEF DeactivateSupplyLine, Garrison
    <3>2. ActivateSupplyLineIfNeeded(DeactivateSupplyLine(owned)) =
            [type |-> n.type, ownership |-> owner, mobile |-> m,
             garrison |-> Garrison(n.type, owner)]
      BY <2>2, <3>1 DEF ActivateSupplyLineIfNeeded, Garrison
    <3>3. QED
      BY <2>1, <3>2
  <2>3. CASE n.type # "SupplyLine"
    <3>1. Garrison(n.type, n.ownership) = Garrison(n.type, owner)
      BY <2>3 DEF Garrison
    <3>2. QED
      BY <1>3, <2>1, <2>3, <3>1 DEF DeactivateSupplyLine, ActivateSupplyLineIfNeeded
  <2>4. QED
    BY <2>2, <2>3
<1>7. QED
  BY <1>5, <1>6

(* So UpdateOwnership re-establishes the invariant. *)
LEMMA UpdateEstablishes ==
  ASSUME NEW n, NodeInv(n), NEW m \in [Side -> Nat]
  PROVE  /\ NodeInv(UpdateOwnership([n EXCEPT !.mobile = m]))
         /\ UpdateOwnership([n EXCEPT !.mobile = m]).mobile = m
         /\ UpdateOwnership([n EXCEPT !.mobile = m]).type = n.type
<1> DEFINE moved == [n EXCEPT !.mobile = m]
           owner == IF n.type = "Headquarters" THEN "Neutral" ELSE OwnerByCount(moved)
           after == [type |-> n.type, ownership |-> owner,
                     mobile |-> m, garrison |-> Garrison(n.type, owner)]
           a == m["A"] + n.garrison["A"]
           b == m["B"] + n.garrison["B"]
<1>1. UpdateOwnership(moved) = after
  BY UpdateResult
<1>2. /\ n.type \in NodeTypes
      /\ n.garrison["A"] \in {0, 1} /\ n.garrison["B"] \in {0, 1}
      /\ ~ (n.garrison["A"] = 1 /\ n.garrison["B"] = 1)
      /\ n.type # "SupplyLine" => n.garrison["A"] = 0 /\ n.garrison["B"] = 0
  BY Sides DEF NodeInv, NodeStates
<1>3. m["A"] \in Nat /\ m["B"] \in Nat
  BY Sides
<1>4. moved.mobile = m /\ moved.garrison = n.garrison
  BY DEF NodeInv, NodeStates
<1>5. OwnerByCount(moved) = IF a > b THEN "A" ELSE IF a < b THEN "B"
                            ELSE IF a = 0 THEN "Neutral" ELSE "Contested"
  BY <1>4 DEF OwnerByCount, GetTotalCount
<1>6. owner \in Ownerships
  BY <1>5 DEF Ownerships, Side
<1>7. after \in NodeStates
  BY <1>2, <1>6 DEF NodeStates, Garrison
<1>8. \A s \in Side : after.garrison[s] = IF n.type = "SupplyLine" /\ owner = s THEN 1 ELSE 0
  BY DEF Garrison
<1> HIDE DEF owner
<1>9. \A s \in Side : after.garrison[s] = 1 <=> after.type = "SupplyLine" /\ after.ownership = s
  <2>1. after.type = n.type /\ after.ownership = owner
    OBVIOUS
  <2>2. \A s \in Side : after.garrison[s] = 1 <=> n.type = "SupplyLine" /\ owner = s
    <3>1. TAKE s \in Side
    <3>2. CASE n.type = "SupplyLine" /\ owner = s
      BY <1>8, <3>2
    <3>3. CASE ~ (n.type = "SupplyLine" /\ owner = s)
      BY <1>8, <3>3
    <3>4. QED
      BY <3>2, <3>3
  <2> HIDE DEF after
  <2>3. QED
    BY <2>1, <2>2
<1>10. /\ GetTotalCount(after, "A") =
              m["A"] + (IF n.type = "SupplyLine" /\ owner = "A" THEN 1 ELSE 0)
       /\ GetTotalCount(after, "B") =
              m["B"] + (IF n.type = "SupplyLine" /\ owner = "B" THEN 1 ELSE 0)
  BY <1>8, Sides DEF GetTotalCount
<1>11. owner = IF n.type = "Headquarters" THEN "Neutral"
               ELSE IF a > b THEN "A" ELSE IF a < b THEN "B"
               ELSE IF a = 0 THEN "Neutral" ELSE "Contested"
  BY <1>5 DEF owner
<1>12. \A s \in Side :
         owner = s => GetTotalCount(after, s) > GetTotalCount(after, Enemy(s))
  <2>1. CASE owner = "A"
    BY <1>2, <1>3, <1>10, <1>11, <2>1, Sides
  <2>2. CASE owner = "B"
    BY <1>2, <1>3, <1>10, <1>11, <2>2, Sides
  <2>3. QED
    BY <2>1, <2>2, Sides
<1>13. owner = "Contested" =>
         \A s \in Side : GetTotalCount(after, s) <= GetTotalCount(after, Enemy(s)) + 1
  <2> SUFFICES ASSUME owner = "Contested"
               PROVE  /\ GetTotalCount(after, "A") <= GetTotalCount(after, "B") + 1
                      /\ GetTotalCount(after, "B") <= GetTotalCount(after, "A") + 1
    BY Sides
  <2>1. a = b
    BY <1>2, <1>3, <1>11
  <2>2. GetTotalCount(after, "A") = m["A"] /\ GetTotalCount(after, "B") = m["B"]
    BY <1>3, <1>10
  <2>3. QED
    BY <1>2, <1>3, <2>1, <2>2
<1>14. owner = "Neutral" /\ n.type # "Headquarters" =>
         \A s \in Side : GetTotalCount(after, s) = 0
  <2> SUFFICES ASSUME owner = "Neutral", n.type # "Headquarters"
               PROVE  GetTotalCount(after, "A") = 0 /\ GetTotalCount(after, "B") = 0
    BY Sides
  <2>1. a = 0 /\ b = 0
    BY <1>2, <1>3, <1>11
  <2>2. GetTotalCount(after, "A") = m["A"] /\ GetTotalCount(after, "B") = m["B"]
    BY <1>3, <1>10
  <2>3. QED
    BY <1>2, <1>3, <2>1, <2>2
<1>15. NodeInv(after)
  BY <1>7, <1>9, <1>12, <1>13, <1>14 DEF NodeInv
<1>16. QED
  BY <1>1, <1>15

-----------------------------------------------------------------------------
(* The same for the two calls the room makes. *)
LEMMA ArriveEstablishes ==
  ASSUME NEW n, NodeInv(n), NEW side \in Side, NEW count \in Nat
  PROVE  /\ NodeInv(ArriveMobileUnits(n, side, count))
         /\ ArriveMobileUnits(n, side, count).mobile =
              [n.mobile EXCEPT ![side] = @ + count]
         /\ ArriveMobileUnits(n, side, count).type = n.type
<1> DEFINE m == [n.mobile EXCEPT ![side] = @ + count]
           after == UpdateOwnership([n EXCEPT !.mobile = m])
<1>1. m \in [Side -> Nat] /\ [n EXCEPT !.mobile[side] = @ + count] = [n EXCEPT !.mobile = m]
  BY DEF NodeInv, NodeStates
<1>2. NodeInv(after) /\ after.mobile = m /\ after.type = n.type
  BY <1>1, UpdateEstablishes
<1> HIDE DEF after
<1>3. ActivateSupplyLineIfNeeded(after) = after
  <2>1. CASE after.type = "SupplyLine"
    <3>1. after.garrison = [s \in Side |-> IF after.ownership = s THEN 1 ELSE after.garrison[s]]
      BY <1>2, <2>1 DEF NodeInv, NodeStates
    <3>2. QED
      BY <1>2, <2>1, <3>1 DEF ActivateSupplyLineIfNeeded, NodeInv, NodeStates
  <2>2. CASE after.type # "SupplyLine"
    BY <2>2 DEF ActivateSupplyLineIfNeeded
  <2>3. QED
    BY <2>1, <2>2
<1>4. QED
  BY <1>1, <1>2, <1>3 DEF ArriveMobileUnits, after

(* Units that leave a node leave it consistent, with what remains of them. *)
LEMMA DepartEstablishes ==
  ASSUME NEW n, NodeInv(n), NEW side \in Side, NEW requested \in Nat
  PROVE  /\ NodeInv(DepartMobileUnits(n, side, requested))
         /\ DepartMobileUnits(n, side, requested).mobile =
              [n.mobile EXCEPT ![side] = IF requested < @ THEN @ - requested ELSE 0]
         /\ DepartMobileUnits(n, side, requested).type = n.type
<1> DEFINE actual == IF requested < n.mobile[side] THEN requested ELSE n.mobile[side]
           left == n.mobile[side] - actual
           m == [n.mobile EXCEPT ![side] = left]
<1>1. n.mobile \in [Side -> Nat] /\ n.mobile[side] \in Nat
  BY DEF NodeInv, NodeStates
<1>2. left \in 0..n.mobile[side]
  BY <1>1
<1>3. m \in [Side -> Nat]
  BY <1>1, <1>2
<1>4. [n EXCEPT !.mobile[side] = @ - actual] = [n EXCEPT !.mobile = m]
  BY DEF NodeInv, NodeStates
<1>5. DepartMobileUnits(n, side, requested) = UpdateOwnership([n EXCEPT !.mobile = m])
  BY <1>4 DEF DepartMobileUnits
<1>6. /\ NodeInv(DepartMobileUnits(n, side, requested))
      /\ DepartMobileUnits(n, side, requested).mobile = m
      /\ DepartMobileUnits(n, side, requested).type = n.type
  BY <1>3, <1>5, UpdateEstablishes
<1>7. m = [n.mobile EXCEPT ![side] = IF requested < @ THEN @ - requested ELSE 0]
  BY <1>1
<1>8. QED
  BY <1>6, <1>7

(* A node as InitializeMap creates it, and a start node as AddPlayer leaves *)
(* it: no garrison is set, so it must not be a supply line.                *)
LEMMA NewEstablishes ==
  ASSUME NEW type \in NodeTypes
  PROVE  /\ NodeInv(NewNode(type))
         /\ NewNode(type).mobile = [s \in Side |-> 0] /\ NewNode(type).type = type
BY DEF NewNode, NodeInv, NodeStates, Side, Enemy, GetTotalCount, Ownerships

(* The units of one side alone. *)
Alone(side, count) == [s \in Side |-> IF s = side THEN count ELSE 0]

(* The start node of a player, which is no supply line. *)
LEMMA PlaceEstablishes ==
  ASSUME NEW type \in NodeTypes \ {"SupplyLine"}, NEW side \in Side, NEW count \in Nat \ {0}
  PROVE  /\ NodeInv(PlaceStartingUnits(NewNode(type), side, count))
         /\ PlaceStartingUnits(NewNode(type), side, count).mobile = Alone(side, count)
         /\ PlaceStartingUnits(NewNode(type), side, count).type = type
<1> DEFINE m == Alone(side, count)
           node == [type |-> type, ownership |-> side,
                    mobile |-> m, garrison |-> [s \in Side |-> 0]]
<1>1. PlaceStartingUnits(NewNode(type), side, count) = node
  <2>1. PlaceStartingUnits(NewNode(type), side, count) =
          [type |-> type, ownership |-> side,
           mobile |-> [[s \in Side |-> 0] EXCEPT ![side] = 0 + count],
           garrison |-> [s \in Side |-> 0]]
    <3> DEFINE none == [s \in Side |-> 0]
               old == [type |-> type, ownership |-> "Neutral",
                       mobile |-> none, garrison |-> none]
    <3>1. none[side] = 0 /\ NewNode(type) = old
      BY DEF NewNode
    <3> HIDE DEF none
    <3> DEFINE grown == [none EXCEPT ![side] = none[side] + count]
               mid == [type |-> type, ownership |-> "Neutral",
                       mobile |-> grown, garrison |-> none]
    <3>2. [old EXCEPT !.mobile[side] = @ + count] = mid
      OBVIOUS
    <3>3. PlaceStartingUnits(old, side, count) =
            [[old EXCEPT !.mobile[side] = @ + count] EXCEPT !.ownership = side]
      BY DEF PlaceStartingUnits
    <3>4. [mid EXCEPT !.ownership = side] =
            [type |-> type, ownership |-> side, mobile |-> grown, garrison |-> none]
      <4> HIDE DEF grown
      <4>. QED  OBVIOUS
    <3>5. PlaceStartingUnits(old, side, count) =
            [type |-> type, ownership |-> side, mobile |-> grown, garrison |-> none]
      <4> HIDE DEF old, mid, grown
      <4>. QED  BY <3>2, <3>3, <3>4
    <3>. QED  BY <3>1, <3>5 DEF none
  <2>2. [[s \in Side |-> 0] EXCEPT ![side] = 0 + count] = m
    BY DEF Alone
  <2>. QED  BY <2>1, <2>2
<1>2. node \in NodeStates
  BY DEF NodeStates, NodeTypes, Ownerships, Alone
<1>3. \A s \in Side : GetTotalCount(node, s) = IF s = side THEN count ELSE 0
  BY DEF GetTotalCount, Alone
<1>4. side # "Contested" /\ side # "Neutral"
  BY Sides
<1>5. GetTotalCount(node, side) > GetTotalCount(node, Enemy(side))
  <2> HIDE DEF node
  <2>1. Enemy(side) \in Side /\ Enemy(side) # side
    BY Sides
  <2>2. GetTotalCount(node, side) = count /\ GetTotalCount(node, Enemy(side)) = 0
    BY <1>3, <2>1
  <2>. QED  BY <2>2
<1>6. node.ownership = side /\ node.type = type /\ node.mobile = m /\ \A s \in Side : node.garrison[s] = 0
  OBVIOUS
<1> HIDE DEF node
<1>7. NodeInv(node)
  BY <1>2, <1>4, <1>5, <1>6 DEF NodeInv
<1>. QED  BY <1>1, <1>6, <1>7
=============================================================================
