------------------------- MODULE MatchmakingProofs -------------------------
(***************************************************************************)
(* Matchmaking for any number of players, servers and calls: the types,    *)
(* what ended calls leave behind, and -- when every player joins once --   *)
(* that nobody is matched twice, overtaken or forgotten.                   *)
(***************************************************************************)
EXTENDS Matchmaking, OperatorLemmas

Steps == {"idle", "count", "pop", "return", "read", "settle", "release"}
Labels ==
  {"idle", "registering", "storing", "cleaning", "pushing", "waiting", "expecting",
   "cancelling", "cancelled", "leaving", "forgetting", "removing", "done", "refused", "failed"}
States == {"creating", "published", "failed"}

Matchers ==
  [at : Servers \cup {None}, step : Steps, i : {1, 2},
   popped : [{1, 2} -> Players \cup {None}], known : SUBSET {1, 2}]
Matches ==
  [players : [{1, 2} -> Players], at : Servers \cup {None}, state : States,
   heard : SUBSET Servers]

(* An attempt runs on a server; it begins with the first player, and reads  *)
(* the details of two. *)
TypeInv ==
  /\ queue \in Seq(Players) /\ details \in SUBSET Players
  /\ matcher \in Matchers
  /\ matcher.step # "idle" => matcher.at \in Servers
  /\ matcher.step = "count" => matcher.i = 1
  /\ matcher.step \in {"read", "settle"} => \A i \in {1, 2} : matcher.popped[i] # None
  /\ triggers \in [Servers -> Nat]
  /\ rooms \in Seq(Matches)
  /\ waiting \in [Servers -> [Players -> Joins \cup {None}]]
  /\ pc \in [Calls -> Labels]
  /\ result \in [Joins -> {"none", "matched", "error"}]

(* Calls have a caller and a host, which are not None. *)
LEMMA CallFacts ==
  /\ \A c \in Joins : c \in Calls /\ c \notin Leaves
  /\ \A c \in Calls : Caller[c] \in Players /\ Host[c] \in Servers /\ c # None
  /\ None \notin Players
BY CallerAssumption, HostAssumption, NoneAssumption DEF Calls

(* What an idle matcher has in hand: nothing. *)
LEMMA IdleFacts ==
  /\ Idle \in Matchers /\ Idle.step = "idle" /\ Idle.i = 1 /\ Idle.known = {}
  /\ \A i \in {1, 2} : Idle.popped[i] = None
<1>1. <<None, None>> \in [{1, 2} -> Players \cup {None}]
  <2>1. <<None, None>> \in [1..2 -> Players \cup {None}] /\ 1..2 = {1, 2}
    OBVIOUS
  <2>. QED  BY <2>1
<1>. QED  BY <1>1 DEF Idle, Matchers, Steps

(* It holds at first. *)
LEMMA TypeInit == Init => TypeInv
<1> SUFFICES ASSUME Init PROVE TypeInv
  OBVIOUS
<1>1. queue = <<>> /\ queue \in Seq(Players) /\ rooms = <<>> /\ rooms \in Seq(Matches)
  BY EmptySeq DEF Init
<1>2. matcher \in Matchers /\ matcher.step = "idle"
  BY IdleFacts DEF Init
<1>. QED
  BY <1>1, <1>2 DEF Init, TypeInv, Labels

(* The queue without a player. *)
LEMMA WithoutFacts ==
  ASSUME TypeInv, NEW p
  PROVE  Without(p) \in Seq(Players) /\ Thinner(Without(p), queue)
<1> DEFINE K == {i \in 1..Len(queue) : queue[i] # p}
<1>1. queue \in Seq(Players) /\ K \in SUBSET (1..Len(queue)) /\ Without(p) = Picked(queue, K)
  BY DEF TypeInv, Without, Filtered
<1> HIDE DEF K
<1>. QED  BY <1>1, PickedElements, ThinnerPicked

(* The calls of the players. *)
LEMMA TypeCalls ==
  ASSUME TypeInv, NEW c \in Calls,
         \/ c \in Joins /\ (\/ Check(c) \/ Enqueue(c) \/ EnqueueFails(c) \/ Look(c) \/ Tell(c)
                            \/ Cancel(c) \/ Unregister(c))
         \/ Dequeue(c) \/ DequeueFails(c)
  PROVE  TypeInv'
<1>1. Caller[c] \in Players /\ Host[c] \in Servers
  BY CallFacts
<1>2. ASSUME NEW label \in Labels, Goto(c, label) PROVE pc' \in [Calls -> Labels]
  BY <1>2 DEF Goto, TypeInv
<1>3. queue \in Seq(Players) /\ Without(Caller[c]) \in Seq(Players) /\ Append(queue, Caller[c]) \in Seq(Players)
  BY <1>1, WithoutFacts, AppendProperties DEF TypeInv
<1>4. CASE UNCHANGED <<redis, matching, waiting, result>> /\ \E label \in Labels : Goto(c, label)
  BY <1>2, <1>4 DEF TypeInv, redis, matching
<1>5. CASE c \in Joins /\ Check(c)
  BY <1>4, <1>5 DEF Check, Labels
<1>6. CASE c \in Joins /\ Register(c)
  BY <1>1, <1>2, <1>6 DEF Register, TypeInv, redis, matching, Labels
<1>7. CASE c \in Joins /\ Store(c)
  BY <1>1, <1>2, <1>7 DEF Store, TypeInv, matching, Labels
<1>8. CASE c \in Joins /\ Clean(c)
  BY <1>2, <1>3, <1>8 DEF Clean, TypeInv, matching, Labels
<1>9. CASE c \in Joins /\ Push(c)
  <2>1. triggers' \in [Servers -> Nat]
    BY <1>1, <1>9 DEF Push, Trigger, TypeInv
  <2>. QED  BY <1>2, <1>3, <1>9, <2>1 DEF Push, TypeInv, Labels
<1>10. CASE c \in Joins /\ EnqueueFails(c)
  BY <1>2, <1>3, <1>10 DEF EnqueueFails, TypeInv, redis, matching, Labels
<1>11. CASE c \in Joins /\ (Look(c) \/ Tell(c) \/ Cancel(c))
  BY <1>4, <1>11 DEF Look, Tell, Cancel, Labels
<1>12. CASE c \in Joins /\ Unregister(c)
  BY <1>1, <1>2, <1>12 DEF Unregister, TypeInv, redis, matching, Labels
<1>13. CASE DropDetails(c)
  BY <1>2, <1>13 DEF DropDetails, TypeInv, matching, Labels
<1>14. CASE DropPlace(c)
  BY <1>2, <1>3, <1>14 DEF DropPlace, TypeInv, matching, Labels
<1>15. CASE DequeueFails(c)
  BY <1>4, <1>15 DEF DequeueFails, Labels
<1>. QED
  BY <1>5, <1>6, <1>7, <1>8, <1>9, <1>10, <1>11, <1>12, <1>13, <1>14, <1>15
  DEF Enqueue, Dequeue

(* A pair as a sequence. *)
LEMMA PairIsSeq ==
  ASSUME NEW S, NEW q \in [{1, 2} -> S]
  PROVE  q \in Seq(S) /\ Len(q) = 2 /\ q[1] \in S /\ q[2] \in S
<1>1. 1..2 = {1, 2}
  OBVIOUS
<1>2. q \in [1..2 -> S]
  BY <1>1, Zenon
<1>3. q \in Seq(S)
  <2>1. \E n \in Nat : q \in [1..n -> S]
    BY <1>2
  <2>. QED  BY <2>1, SeqDef, Zenon
<1>4. DOMAIN q = 1..2
  BY <1>2, Zenon
<1>5. Len(q) = 2
  <2>1. PICK n \in Nat : n = Len(q)
    BY <1>3, LenProperties
  <2>2. DOMAIN q = 1..n
    BY <1>3, <2>1, LenProperties, Zenon
  <2>3. 1..n = 1..2
    BY <1>4, <2>2, Zenon
  <2>. QED  BY <2>1, <2>3
<1>. QED  BY <1>3, <1>5

(* The attempts still to be made. *)
LEMMA TriggerFacts ==
  ASSUME TypeInv, NEW s \in Servers
  PROVE  /\ [triggers EXCEPT ![s] = @ + 1] \in [Servers -> Nat]
         /\ triggers[s] > 0 => [triggers EXCEPT ![s] = @ - 1] \in [Servers -> Nat]
<1>1. triggers \in [Servers -> Nat]
  BY DEF TypeInv
<1>2. PICK n \in Nat : n = triggers[s]
  BY <1>1
<1>3. n + 1 \in Nat /\ (n > 0 => n - 1 \in Nat)
  OBVIOUS
<1>4. \A m \in Nat : [triggers EXCEPT ![s] = m] \in [Servers -> Nat]
  BY <1>1
<1>. QED  BY <1>2, <1>3, <1>4

(* The matcher as a record. *)
LEMMA MatcherFacts ==
  ASSUME TypeInv
  PROVE  /\ matcher.at \in Servers \cup {None} /\ matcher.step \in Steps
         /\ matcher.i \in {1, 2} /\ 3 - matcher.i \in {1, 2}
         /\ matcher.popped \in [{1, 2} -> Players \cup {None}]
         /\ matcher.known \in SUBSET {1, 2}
         /\ matcher = [at |-> matcher.at, step |-> matcher.step, i |-> matcher.i,
                       popped |-> matcher.popped, known |-> matcher.known]
BY DEF TypeInv, Matchers

(* What stands at the settling: the queue or the details change. *)
LEMMA SettlePlayerTyped ==
  ASSUME TypeInv, matcher.step = "settle", SettlePlayer
  PROVE  queue' \in Seq(Players) /\ details' \in SUBSET Players
<1> DEFINE p == matcher.popped[matcher.i]
<1>1. p \in Players
  BY MatcherFacts DEF TypeInv
<1>2. \/ queue' = <<p>> \o queue /\ details' = details
      \/ details' = details \ {p} /\ queue' = queue
  BY DEF SettlePlayer
<1> HIDE DEF p
<1>3. <<p>> \in Seq(Players) /\ queue \in Seq(Players) /\ details \in SUBSET Players
  BY <1>1 DEF TypeInv
<1>4. <<p>> \o queue \in Seq(Players)
  BY <1>3, ConcatProperties
<1>. QED  BY <1>2, <1>3, <1>4

(* An attempt to match preserves it. *)
LEMMA TypeMatching ==
  ASSUME TypeInv,
         (\E s \in Servers : TakeLock(s) \/ MissLock(s)) \/ TryMatch \/ TryMatchFails
  PROVE  TypeInv'
<1>1. UNCHANGED calls => /\ waiting' \in [Servers -> [Players -> Joins \cup {None}]]
                         /\ pc' \in [Calls -> Labels]
                         /\ result' \in [Joins -> {"none", "matched", "error"}]
  BY DEF calls, TypeInv
<1>2. ASSUME NEW s \in Servers, TakeLock(s) PROVE TypeInv'
  <2>1. triggers' \in [Servers -> Nat]
    BY <1>2, TriggerFacts DEF TakeLock
  <2>2. matcher' \in Matchers /\ matcher'.step = "count" /\ matcher'.i = 1 /\ matcher'.at = s
    BY <1>2, IdleFacts DEF TakeLock, Matchers, Steps
  <2>. QED  BY <1>1, <1>2, <2>1, <2>2 DEF TakeLock, TypeInv, redis
<1>3. ASSUME NEW s \in Servers, MissLock(s) PROVE TypeInv'
  <2>1. triggers' \in [Servers -> Nat]
    BY <1>3, TriggerFacts DEF MissLock
  <2>. QED  BY <1>1, <1>3, <2>1 DEF MissLock, TypeInv, redis
<1>4. ASSUME NEW label \in Steps, Step(label), label \notin {"count", "read", "settle"}
      PROVE  /\ matcher' \in Matchers /\ matcher'.step = label
             /\ matcher'.step \notin {"count", "read", "settle"} /\ matcher'.at = matcher.at
  BY <1>4, MatcherFacts DEF Step, Matchers
<1>5. CASE Count
  BY <1>1, <1>4, <1>5 DEF Count, TypeInv, redis, Steps
<1>6. CASE Pop
  <2> DEFINE p == IF queue = <<>> THEN None ELSE Head(queue)
             both == [matcher.popped EXCEPT ![matcher.i] = p]
             next == IF matcher.i = 1 THEN "pop" ELSE IF Contains(both, None) THEN "return" ELSE "read"
  <2>1. p \in Players \cup {None} /\ queue' \in Seq(Players)
    <3>1. CASE queue = <<>>
      BY <1>6, <3>1 DEF Pop, TypeInv
    <3>2. CASE queue # <<>>
      BY <1>6, <3>2, HeadTailProperties DEF Pop, TypeInv
    <3>. QED  BY <3>1, <3>2
  <2>2. matcher' = [matcher EXCEPT !.popped = both, !.i = 3 - @, !.step = next]
    BY <1>6 DEF Pop
  <2>3. both \in [{1, 2} -> Players \cup {None}]
    <3> HIDE DEF p
    <3>. QED  BY <2>1, MatcherFacts
  <2>4. next = "read" => \A i \in {1, 2} : both[i] # None
    <3> HIDE DEF both
    <3>2. both \in Seq(Players \cup {None}) /\ Len(both) = 2
      BY <2>3, PairIsSeq
    <3>3. ~ Contains(both, None) => both[1] # None /\ both[2] # None
      BY <3>2 DEF Contains
    <3>. QED  BY <3>3
  <2>5. next \in {"pop", "return", "read"}
    OBVIOUS
  <2> HIDE DEF both, next
  <2>6. matcher' \in Matchers /\ matcher'.step = next /\ matcher'.popped = both /\ matcher'.at = matcher.at
    BY <2>2, <2>3, <2>5, MatcherFacts DEF Matchers, Steps
  <2>. QED  BY <1>1, <1>6, <2>1, <2>4, <2>5, <2>6 DEF Pop, TypeInv
<1>7. CASE Return
  <2> DEFINE K == {i \in 1..Len(matcher.popped) : matcher.popped[i] # None}
             back == Filtered(matcher.popped, LAMBDA p : p # None)
  <2>1. back \in Seq(Players)
    <3>2. matcher.popped \in Seq(Players \cup {None})
      BY MatcherFacts, PairIsSeq
    <3>3. back = Picked(matcher.popped, K)
      BY DEF Filtered
    <3>4. K \in SUBSET (1..Len(matcher.popped)) /\ \A i \in K : matcher.popped[i] # None /\ i \in 1..Len(matcher.popped)
      OBVIOUS
    <3> HIDE DEF K, back
    <3>5. back \in Seq(Players \cup {None}) /\ \A j \in 1..Len(back) : \E k \in K : back[j] = matcher.popped[k]
      BY <3>2, <3>3, <3>4, PickedElements
    <3>6. \A j \in 1..Len(back) : back[j] \in Players
      BY <3>4, <3>5, ElementOfSeq
    <3>7. PICK n \in Nat : n = Len(back) /\ back \in [1..n -> Players \cup {None}]
      BY <3>5, LenProperties
    <3>8. back \in [1..n -> Players]
      BY <3>6, <3>7
    <3>. QED  BY <3>8, SeqDef
  <2>2. queue' = back \o queue /\ Step("release")
    BY <1>7 DEF Return
  <2> HIDE DEF back
  <2>3. queue' \in Seq(Players)
    BY <2>1, <2>2, ConcatProperties DEF TypeInv
  <2>. QED  BY <1>1, <1>4, <1>7, <2>2, <2>3 DEF Return, TypeInv, Steps
<1>8. CASE Read
  <2> DEFINE known == IF matcher.popped[matcher.i] \in details
                      THEN matcher.known \cup {matcher.i} ELSE matcher.known
             next == IF matcher.i = 1 THEN "read" ELSE "settle"
  <2>1. matcher' = [matcher EXCEPT !.known = known, !.i = 3 - @, !.step = next]
    BY <1>8 DEF Read
  <2>2. known \in SUBSET {1, 2} /\ next \in {"read", "settle"}
    BY MatcherFacts
  <2> HIDE DEF known, next
  <2>3. /\ matcher' \in Matchers /\ matcher'.popped = matcher.popped
        /\ matcher'.step = next /\ matcher'.at = matcher.at
    BY <2>1, <2>2, MatcherFacts DEF Matchers, Steps
  <2>. QED  BY <1>1, <1>8, <2>2, <2>3 DEF Read, TypeInv, redis
<1>9. CASE Settle
  <2>1. matcher.step = "settle" /\ SettlePlayer /\ SettleNext /\ UNCHANGED calls
    BY <1>9 DEF Settle
  <2>2. queue' \in Seq(Players) /\ details' \in SUBSET Players
    BY <2>1, SettlePlayerTyped
  <2> DEFINE next == IF matcher.i = 1 THEN "settle" ELSE "release"
  <2>3. matcher' = [matcher EXCEPT !.i = 3 - @, !.step = next] /\ next \in {"settle", "release"}
    BY <2>1 DEF SettleNext
  <2> HIDE DEF next
  <2>4. /\ matcher' \in Matchers /\ matcher'.popped = matcher.popped
        /\ matcher'.step \in {"settle", "release"} /\ matcher'.at = matcher.at
    BY <2>3, MatcherFacts DEF Matchers, Steps
  <2>5. triggers' \in [Servers -> Nat]
    <3>1. CASE triggers' = triggers
      BY <3>1 DEF TypeInv
    <3>2. CASE matcher.i = 2
      <4>1. matcher.at \in Servers
        BY <2>1, MatcherFacts DEF TypeInv
      <4>. QED  BY <2>1, <3>2, <4>1, TriggerFacts DEF SettleNext, Trigger
    <3>. QED  BY <2>1, <3>1, <3>2, MatcherFacts DEF SettleNext
  <2>6. rooms' \in Seq(Matches)
    <3>1. NewRoom \in Matches
      <4>1. matcher.popped \in [{1, 2} -> Players]
        BY <2>1, MatcherFacts DEF TypeInv
      <4>. QED  BY <4>1, MatcherFacts DEF NewRoom, Matches, States
    <3>2. rooms' = rooms \/ rooms' = Append(rooms, NewRoom)
      BY <2>1 DEF SettleNext
    <3>3. PICK room \in Matches : room = NewRoom
      BY <3>1
    <3>4. rooms \in Seq(Matches)
      BY DEF TypeInv
    <3>5. Append(rooms, room) \in Seq(Matches)
      BY <3>4, AppendProperties
    <3>. QED  BY <3>2, <3>3, <3>4, <3>5, Zenon
  <2>. QED  BY <1>1, <2>1, <2>2, <2>4, <2>5, <2>6 DEF TypeInv
<1>10. CASE Release
  BY <1>1, <1>10, IdleFacts DEF Release, TypeInv, redis
<1>11. CASE TryMatchFails
  <2>1. queue' \in Seq(Players) /\ details' \in SUBSET Players
    BY <1>11, SettlePlayerTyped DEF TryMatchFails, redis, TypeInv
  <2>. QED  BY <1>1, <1>4, <1>11, <2>1 DEF TryMatchFails, TypeInv, Steps
<1>. QED
  BY <1>2, <1>3, <1>5, <1>6, <1>7, <1>8, <1>9, <1>10, <1>11 DEF TryMatch

(* A match that is told: only its record and the results change. *)
LEMMA TellFacts ==
  ASSUME TypeInv, NEW r \in DOMAIN rooms,
         Publish(r) \/ RoomFails(r) \/ \E s \in Servers : Hear(r, s)
  PROVE  /\ r \in 1..Len(rooms) /\ rooms' \in Seq(Matches) /\ Len(rooms') = Len(rooms)
         /\ \A q \in 1..Len(rooms) : rooms'[q].players = rooms[q].players
         /\ result' \in [Joins -> {"none", "matched", "error"}]
         /\ UNCHANGED <<redis, matcher, triggers, waiting, pc>>
<1>1. rooms \in Seq(Matches) /\ r \in 1..Len(rooms)
  BY LenProperties DEF TypeInv
<1>2. rooms[r] \in Matches
  BY <1>1, ElementOfSeq
<1>3. PICK x \in Matches : rooms' = [rooms EXCEPT ![r] = x] /\ x.players = rooms[r].players
  <2>1. CASE Publish(r)
    <3>1. [rooms[r] EXCEPT !.state = "published"] \in Matches
      BY <1>2 DEF Matches, States
    <3>2. [rooms[r] EXCEPT !.state = "published"].players = rooms[r].players
      BY <1>2 DEF Matches
    <3>. QED  BY <2>1, <3>1, <3>2 DEF Publish
  <2>2. CASE RoomFails(r)
    <3>1. PICK state \in {"failed", "published"} : rooms' = [rooms EXCEPT ![r].state = state]
      BY <2>2 DEF RoomFails
    <3>2. [rooms[r] EXCEPT !.state = state] \in Matches
      BY <1>2 DEF Matches, States
    <3>3. [rooms[r] EXCEPT !.state = state].players = rooms[r].players
      BY <1>2 DEF Matches
    <3>. QED  BY <3>1, <3>2, <3>3
  <2>3. ASSUME NEW s \in Servers, Hear(r, s)
        PROVE  \E x \in Matches : rooms' = [rooms EXCEPT ![r] = x] /\ x.players = rooms[r].players
    <3> DEFINE y == [rooms[r] EXCEPT !.heard = @ \cup {s}]
    <3>1. y \in Matches /\ y.players = rooms[r].players
      BY <1>2 DEF Matches
    <3>2. rooms' = [rooms EXCEPT ![r] = y]
      BY <2>3 DEF Hear
    <3>. QED  BY <3>1, <3>2
  <2>. QED  BY <2>1, <2>2, <2>3
<1>4. /\ rooms' \in Seq(Matches) /\ Len(rooms') = Len(rooms)
      /\ \A q \in 1..Len(rooms) : rooms'[q] = IF q = r THEN x ELSE rooms[q]
  BY <1>1, <1>3, ExceptSeq
<1>5. /\ result' \in [Joins -> {"none", "matched", "error"}]
      /\ UNCHANGED <<redis, matcher, triggers, waiting, pc>>
  <2>1. ASSUME NEW s, NEW players, NEW status \in {"matched", "error"}, Notify(s, players, status)
        PROVE  result' \in [Joins -> {"none", "matched", "error"}]
    BY <2>1 DEF Notify, TypeInv
  <2>2. CASE Publish(r)
    BY <2>2 DEF Publish, TypeInv, calls
  <2>3. CASE RoomFails(r)
    <3>1. Notify(rooms[r].at, rooms[r].players, "error") /\ UNCHANGED <<redis, matcher, triggers, waiting, pc>>
      BY <2>3 DEF RoomFails
    <3>. QED  BY <2>1, <3>1
  <2>4. ASSUME NEW s \in Servers, Hear(r, s)
        PROVE  /\ result' \in [Joins -> {"none", "matched", "error"}]
               /\ UNCHANGED <<redis, matcher, triggers, waiting, pc>>
    <3>1. Notify(s, rooms[r].players, "matched") /\ UNCHANGED <<redis, matcher, triggers, waiting, pc>>
      BY <2>4 DEF Hear
    <3>. QED  BY <2>1, <3>1
  <2>. QED  BY <2>2, <2>3, <2>4
<1>6. ASSUME NEW q \in 1..Len(rooms) PROVE rooms'[q].players = rooms[q].players
  BY <1>3, <1>4
<1>. QED
  BY <1>1, <1>4, <1>5, <1>6

(* So every step preserves it. *)
LEMMA TypeNext == TypeInv /\ [Next]_vars => TypeInv'
<1> SUFFICES ASSUME TypeInv, [Next]_vars PROVE TypeInv'
  OBVIOUS
<1>1. ASSUME NEW c \in Joins,
             \/ Check(c) \/ Enqueue(c) \/ EnqueueFails(c) \/ Look(c) \/ Tell(c) \/ Cancel(c)
             \/ Unregister(c)
      PROVE  TypeInv'
  BY <1>1, TypeCalls, CallFacts
<1>2. ASSUME NEW c \in Calls, Dequeue(c) \/ DequeueFails(c) PROVE TypeInv'
  BY <1>2, TypeCalls
<1>3. ASSUME (\E s \in Servers : TakeLock(s) \/ MissLock(s)) \/ TryMatch \/ TryMatchFails
      PROVE  TypeInv'
  BY <1>3, TypeMatching
<1>4. ASSUME NEW r \in DOMAIN rooms, Publish(r) \/ RoomFails(r) \/ \E s \in Servers : Hear(r, s)
      PROVE  TypeInv'
  BY <1>4, TellFacts DEF TypeInv, redis
<1>5. CASE UNCHANGED vars
  BY <1>5 DEF vars, redis, matching, calls, TypeInv
<1>. QED
  BY <1>1, <1>2, <1>3, <1>4, <1>5 DEF Next

(* The variables have their types: the queue holds players, the matcher has *)
(* at most two of them, and a match is always of two players, even though  *)
(* ListLeftPop may return nothing and Redis may fail at every command. *)
THEOREM MatchmakingTypeCorrect == Spec => []TypeOK
<1>1. TypeInv => TypeOK
  <2> SUFFICES ASSUME TypeInv PROVE TypeOK
    OBVIOUS
  <2>1. matcher.popped \in Seq(Players \cup {None}) /\ Len(matcher.popped) = 2
    BY MatcherFacts, PairIsSeq
  <2>2. ASSUME NEW r \in DOMAIN rooms PROVE None \notin Range(rooms[r].players)
    <3>1. r \in 1..Len(rooms) /\ rooms \in Seq(Matches)
      BY LenProperties DEF TypeInv
    <3>2. rooms[r] \in Matches
      BY <3>1, ElementOfSeq
    <3>3. rooms[r].players \in [{1, 2} -> Players]
      BY <3>2 DEF Matches
    <3>. QED  BY <3>3, CallFacts DEF Range
  <2>. QED  BY <2>1, <2>2, MatcherFacts DEF TypeInv, TypeOK, Steps, Labels
<1>. QED  BY <1>1, TypeInit, TypeNext, PTL DEF Spec

-----------------------------------------------------------------------------
(* Details are stored by a call that has not yet come to remove them. *)
Holding == Labels \ {"idle", "registering", "storing", "removing", "done", "refused"}

SweptInv == \A p \in details : \E d \in Joins : Caller[d] = p /\ pc[d] \in Holding

(* Every step preserves that what has ended is swept. *)
LEMMA SweptNext == TypeInv /\ SweptInv /\ [Next]_vars => SweptInv'
<1> SUFFICES ASSUME TypeInv, SweptInv, [Next]_vars PROVE SweptInv'
  OBVIOUS
<1>1. ASSUME details' \in SUBSET details, UNCHANGED pc PROVE SweptInv'
  BY <1>1 DEF SweptInv
<1>2. ASSUME NEW c \in Calls, NEW label \in Labels, Goto(c, label), details' \in SUBSET details,
             pc[c] \in Holding /\ c \in Joins => label \in Holding \/ Caller[c] \notin details'
      PROVE  SweptInv'
  <2> SUFFICES ASSUME NEW p \in details'
               PROVE  \E d \in Joins : Caller[d] = p /\ pc'[d] \in Holding
    BY DEF SweptInv
  <2>1. PICK d \in Joins : Caller[d] = p /\ pc[d] \in Holding
    BY <1>2 DEF SweptInv
  <2>2. d \in Calls /\ pc \in [Calls -> Labels]
    BY CallFacts DEF TypeInv
  <2>. QED  BY <1>2, <2>1, <2>2 DEF Goto
<1>3. ASSUME NEW c \in Joins, Check(c) \/ Look(c) \/ Tell(c) \/ Cancel(c) \/ Unregister(c) PROVE SweptInv'
  <2>1. PICK label \in Labels : /\ Goto(c, label) /\ UNCHANGED details
                                /\ pc[c] \in Holding => label \in Holding
    BY <1>3 DEF Check, Look, Tell, Cancel, Unregister, Holding, Labels, redis
  <2>. QED  BY <1>2, <2>1, CallFacts
<1>4. ASSUME NEW c \in Joins, Register(c) \/ Clean(c) \/ Push(c) \/ EnqueueFails(c) PROVE SweptInv'
  <2>1. PICK label \in Labels : /\ Goto(c, label) /\ UNCHANGED details
                                /\ pc[c] \in Holding => label \in Holding
    BY <1>4 DEF Register, Clean, Push, EnqueueFails, Holding, Labels, redis
  <2>. QED  BY <1>2, <2>1, CallFacts
<1>5. ASSUME NEW c \in Joins, Store(c) PROVE SweptInv'
  <2> SUFFICES ASSUME NEW p \in details'
               PROVE  \E d \in Joins : Caller[d] = p /\ pc'[d] \in Holding
    BY DEF SweptInv
  <2>1. c \in Calls /\ pc \in [Calls -> Labels] /\ pc' = [pc EXCEPT ![c] = "cleaning"]
    BY <1>5, CallFacts DEF TypeInv, Store, Goto
  <2>2. CASE p = Caller[c]
    BY <2>1, <2>2 DEF Holding, Labels
  <2>3. CASE p \in details
    <3>1. PICK d \in Joins : Caller[d] = p /\ pc[d] \in Holding
      BY <2>3 DEF SweptInv
    <3>. QED  BY <2>1, <3>1, CallFacts DEF Holding, Labels
  <2>. QED  BY <1>5, <2>2, <2>3 DEF Store
<1>6. ASSUME NEW c \in Calls, DropDetails(c) PROVE SweptInv'
  <2>1. PICK label \in {"cancelled", "removing"} : Goto(c, label)
    BY <1>6 DEF DropDetails
  <2>2. details' = details \ {Caller[c]}
    BY <1>6 DEF DropDetails
  <2>. QED  BY <1>2, <2>1, <2>2 DEF Labels
<1>7. ASSUME NEW c \in Calls, DropPlace(c) \/ DequeueFails(c) PROVE SweptInv'
  <2>1. PICK label \in Labels : /\ Goto(c, label) /\ UNCHANGED details
                                /\ pc[c] \in Holding => label \in Holding
    BY <1>7 DEF DropPlace, DequeueFails, Holding, Labels, redis
  <2>. QED  BY <1>2, <2>1
<1>8. ASSUME NEW s \in Servers, TakeLock(s) \/ MissLock(s) PROVE SweptInv'
  <2>1. UNCHANGED <<details, pc>>
    BY <1>8 DEF TakeLock, MissLock, redis, calls
  <2>. QED  BY <1>1, <2>1
<1>9. CASE TryMatch \/ TryMatchFails
  <2>1. UNCHANGED pc
    BY <1>9 DEF TryMatch, TryMatchFails, Count, Pop, Return, Read, Settle, Release, calls
  <2>2. details' \in SUBSET details
    BY <1>9 DEF TryMatch, TryMatchFails, Count, Pop, Return, Read, Settle, Release, SettlePlayer, redis
  <2>. QED  BY <1>1, <2>1, <2>2
<1>10. ASSUME NEW r \in DOMAIN rooms, Publish(r) \/ RoomFails(r) \/ \E s \in Servers : Hear(r, s)
       PROVE  SweptInv'
  <2>1. UNCHANGED <<details, pc>>
    BY <1>10, TellFacts DEF redis
  <2>. QED  BY <1>1, <2>1
<1>11. CASE UNCHANGED vars
  BY <1>1, <1>11 DEF vars, redis, calls
<1>. QED
  BY <1>3, <1>4, <1>5, <1>6, <1>7, <1>8, <1>9, <1>10, <1>11 DEF Next, Enqueue, Dequeue

(* A call that has ended leaves no details behind, whatever happened in     *)
(* between (DequeueAsync removes them before the place in the queue), unless *)
(* another call of the same player stores them: so the matcher sweeps away   *)
(* what an ended call left in the queue. *)
THEOREM EndedAreSwept == Spec => []EndedIsSwept
<1>1. Init => SweptInv
  BY DEF Init, SweptInv
<1>2. SweptInv => EndedIsSwept
  <2> SUFFICES ASSUME SweptInv, NEW c \in Joins, pc[c] = "done", Caller[c] \in details
               PROVE  \E d \in Joins \ {c} : Caller[d] = Caller[c] /\ pc[d] # "idle"
    BY DEF EndedIsSwept
  <2>1. PICK d \in Joins : Caller[d] = Caller[c] /\ pc[d] \in Holding
    BY DEF SweptInv
  <2>. QED  BY <2>1 DEF Holding
<1>. QED  BY <1>1, <1>2, TypeInit, TypeNext, SweptNext, PTL DEF Spec

-----------------------------------------------------------------------------
(* Whom a matcher has in hand, one by one. *)
One(p) == IF p # None THEN <<p>> ELSE <<>>
HeldBy(m) ==
  CASE m.step = "pop" -> 1..(m.i - 1)
    [] m.step \in {"return", "read"} -> 1..2
    [] m.step = "settle" -> IF m.known = {1, 2} THEN 1..2 ELSE m.known \cap m.i..2
    [] OTHER -> {}
Part(m, i) == IF i \in HeldBy(m) THEN One(m.popped[i]) ELSE <<>>
Hand(m) == Part(m, 1) \o Part(m, 2)

(* The players in hand are a list. *)
LEMMA HandTyped ==
  ASSUME NEW m \in Matchers
  PROVE  /\ Part(m, 1) \in Seq(Players) /\ Part(m, 2) \in Seq(Players)
         /\ Hand(m) \in Seq(Players)
<1>1. ASSUME NEW i \in {1, 2} PROVE Part(m, i) \in Seq(Players)
  <2>1. m.popped[i] \in Players \cup {None}
    BY DEF Matchers
  <2>2. PICK p \in Players \cup {None} : p = m.popped[i]
    BY <2>1
  <2>3. One(p) \in Seq(Players)
    BY EmptySeq DEF One
  <2>. QED  BY <2>2, <2>3, EmptySeq DEF Part
<1>2. Part(m, 1) \in Seq(Players) /\ Part(m, 2) \in Seq(Players)
  BY <1>1
<1>. QED  BY <1>2, ConcatProperties DEF Hand

(* Those who are taken from the queue are the ones in that list. *)
LEMMA InHandIsHand == TypeInv => InHand = Hand(matcher)
<1> SUFFICES ASSUME TypeInv PROVE InHand = Hand(matcher)
  OBVIOUS
<1> DEFINE taken == [i \in {1, 2} |-> IF i \in HeldBy(matcher) THEN matcher.popped[i] ELSE None]
           K == {i \in 1..Len(taken) : taken[i] # None}
<1>1. InHand = Picked(taken, K)
  BY DEF InHand, Filtered, HeldBy, IsMatch
<1>2. taken \in [{1, 2} -> Players \cup {None}]
  BY MatcherFacts
<1>3. taken[1] = (IF 1 \in HeldBy(matcher) THEN matcher.popped[1] ELSE None)
  OBVIOUS
<1>4. taken[2] = (IF 2 \in HeldBy(matcher) THEN matcher.popped[2] ELSE None)
  OBVIOUS
<1>5. K \in SUBSET (1..Len(taken)) /\ \A i \in 1..Len(taken) : i \in K <=> taken[i] # None
  OBVIOUS
<1> HIDE DEF taken, K
<1>6. taken \in Seq(Players \cup {None}) /\ Len(taken) = 2
  BY <1>2, PairIsSeq
<1>7. Picked(taken, K) = (IF 1 \in K THEN <<taken[1]>> ELSE <<>>) \o (IF 2 \in K THEN <<taken[2]>> ELSE <<>>)
  BY <1>5, <1>6, PickedOfTwo
<1>8. (1 \in K <=> taken[1] # None) /\ (2 \in K <=> taken[2] # None)
  BY <1>5, <1>6
<1>9. (IF 1 \in K THEN <<taken[1]>> ELSE <<>>) = Part(matcher, 1)
  BY <1>3, <1>8 DEF Part, One
<1>10. (IF 2 \in K THEN <<taken[2]>> ELSE <<>>) = Part(matcher, 2)
  BY <1>4, <1>8 DEF Part, One
<1>. QED  BY <1>1, <1>7, <1>9, <1>10, Zenon DEF Hand

(* The parts at each step. *)
LEMMA PartsOf ==
  ASSUME NEW m, m.i \in {1, 2}, m.known \in SUBSET {1, 2}
  PROVE  /\ m.step \in {"idle", "count", "release"} => Part(m, 1) = <<>> /\ Part(m, 2) = <<>>
         /\ m.step = "pop" => /\ Part(m, 1) = IF m.i = 1 THEN <<>> ELSE One(m.popped[1])
                              /\ Part(m, 2) = <<>>
         /\ m.step \in {"return", "read"} =>
              Part(m, 1) = One(m.popped[1]) /\ Part(m, 2) = One(m.popped[2])
         /\ m.step = "settle" /\ m.known = {1, 2} =>
              Part(m, 1) = One(m.popped[1]) /\ Part(m, 2) = One(m.popped[2])
         /\ m.step = "settle" /\ m.known # {1, 2} =>
              /\ Part(m, 1) = IF m.i = 1 /\ 1 \in m.known THEN One(m.popped[1]) ELSE <<>>
              /\ Part(m, 2) = IF 2 \in m.known THEN One(m.popped[2]) ELSE <<>>
<1>1. 1 \in 1..2 /\ 2 \in 1..2 /\ 2 \in m.i..2 /\ (1 \in m.i..2 <=> m.i = 1)
  OBVIOUS
<1>2. m.i = 1 => 1..(m.i - 1) = {}
  OBVIOUS
<1>3. m.i = 2 => 1..(m.i - 1) = {1}
  OBVIOUS
<1>4. ASSUME m.step \in {"idle", "count", "release"} PROVE HeldBy(m) = {}
  BY <1>4 DEF HeldBy
<1>5. ASSUME m.step = "pop" PROVE HeldBy(m) = IF m.i = 1 THEN {} ELSE {1}
  BY <1>2, <1>3, <1>5 DEF HeldBy
<1>6. ASSUME m.step \in {"return", "read"} PROVE HeldBy(m) = 1..2
  BY <1>6 DEF HeldBy
<1>7. ASSUME m.step = "settle" PROVE HeldBy(m) = IF m.known = {1, 2} THEN 1..2 ELSE m.known \cap m.i..2
  BY <1>7 DEF HeldBy
<1>8. m.step \in {"idle", "count", "release"} => Part(m, 1) = <<>> /\ Part(m, 2) = <<>>
  BY <1>4 DEF Part
<1>9. m.step = "pop" => /\ Part(m, 1) = IF m.i = 1 THEN <<>> ELSE One(m.popped[1])
                        /\ Part(m, 2) = <<>>
  BY <1>5 DEF Part
<1>10. m.step \in {"return", "read"} =>
              Part(m, 1) = One(m.popped[1]) /\ Part(m, 2) = One(m.popped[2])
  BY <1>1, <1>6 DEF Part
<1>11. m.step = "settle" /\ m.known = {1, 2} =>
              Part(m, 1) = One(m.popped[1]) /\ Part(m, 2) = One(m.popped[2])
  BY <1>1, <1>7 DEF Part
<1>12. m.step = "settle" /\ m.known # {1, 2} =>
              /\ Part(m, 1) = IF m.i = 1 /\ 1 \in m.known THEN One(m.popped[1]) ELSE <<>>
              /\ Part(m, 2) = IF 2 \in m.known THEN One(m.popped[2]) ELSE <<>>
  BY <1>1, <1>7 DEF Part
<1>. QED  BY <1>8, <1>9, <1>10, <1>11, <1>12, Zenon

-----------------------------------------------------------------------------
(* Everybody who waits to be matched, in order: those in hand, then the     *)
(* queue. *)
Line == InHand \o queue

(* The line is the hand and the queue behind it. *)
LEMMA LineParts ==
  TypeInv => /\ Line = Part(matcher, 1) \o (Part(matcher, 2) \o queue)
             /\ Line = Hand(matcher) \o queue /\ Line \in Seq(Players) /\ queue \in Seq(Players)
             /\ matcher \in Matchers
<1> SUFFICES ASSUME TypeInv
             PROVE  /\ Line = Part(matcher, 1) \o (Part(matcher, 2) \o queue)
                    /\ Line = Hand(matcher) \o queue /\ Line \in Seq(Players)
                    /\ queue \in Seq(Players) /\ matcher \in Matchers
  OBVIOUS
<1>1. queue \in Seq(Players) /\ matcher \in Matchers
  BY DEF TypeInv
<1>2. Line = Hand(matcher) \o queue
  BY InHandIsHand, Zenon DEF Line
<1>3. /\ Part(matcher, 1) \in Seq(Players) /\ Part(matcher, 2) \in Seq(Players)
      /\ Hand(matcher) \in Seq(Players)
  BY <1>1, HandTyped
<1>4. (Part(matcher, 1) \o Part(matcher, 2)) \o queue = Part(matcher, 1) \o (Part(matcher, 2) \o queue)
  BY SMTT(60), <1>1, <1>3, ConcatAssociative
<1>5. Hand(matcher) \o queue \in Seq(Players)
  BY <1>1, <1>3, ConcatProperties
<1>. QED  BY <1>1, <1>2, <1>4, <1>5, Zenon DEF Hand

(* The line grows thinner when the queue does, or when one in hand is let go. *)
LEMMA ThinnerLine ==
  ASSUME NEW a \in Seq(Players), NEW b \in Seq(Players), NEW q \in Seq(Players),
         NEW c \in {a, <<>>}, NEW d \in {b, <<>>}, NEW r \in Seq(Players), Thinner(r, q)
  PROVE  Thinner(c \o (d \o r), a \o (b \o q))
<1>1. Thinner(c, a) /\ Thinner(d, b) /\ c \in Seq(Players) /\ d \in Seq(Players)
  BY ThinnerSame, EmptySeq
<1>2. Thinner(d \o r, b \o q)
  BY <1>1, ThinnerConcat
<1>3. d \o r \in Seq(Players) /\ b \o q \in Seq(Players)
  BY <1>1, ConcatProperties
<1>. QED  BY <1>1, <1>2, <1>3, ThinnerConcat

(* The front of a queue. *)
LEMMA FrontAndRest ==
  ASSUME NEW S, NEW s \in Seq(S)
  PROVE  (IF s = <<>> THEN <<>> ELSE <<Head(s)>>) \o (IF s = <<>> THEN <<>> ELSE Tail(s)) = s
<1>1. CASE s = <<>>
  <2>1. <<>> \o s = s
    BY ConcatEmptySeq
  <2>. QED  BY <1>1, <2>1
<1>2. CASE s # <<>>
  <2>1. PICK n \in Nat \ {0} : n = Len(s)
    BY <1>2, EmptySeq
  <2>2. 1 \in 1..Len(s) /\ Len(s) \in 1..Len(s) /\ 1 + 1 = 2
    BY <2>1
  <2>3. SubSeq(s, 1, Len(s)) = <<s[1]>> \o SubSeq(s, 1 + 1, Len(s))
    BY <2>2, SubSeqRecursiveFirst
  <2>4. SubSeq(s, 1, Len(s)) = s /\ Tail(s) = SubSeq(s, 2, Len(s))
    BY <1>2, SubSeqFull, TailIsSubSeq
  <2>5. Head(s) = s[1]
    OBVIOUS
  <2>6. <<Head(s)>> \o Tail(s) = s
    BY <2>2, <2>3, <2>4, <2>5, Zenon
  <2>. QED  BY <1>2, <2>6
<1>. QED  BY <1>1, <1>2

(* The same players are matched, and the line only grows thinner. *)
SameMatches ==
  /\ Len(rooms') = Len(rooms)
  /\ \A q \in 1..Len(rooms) : rooms'[q].players = rooms[q].players
LineThins == Thinner(Line', Line)

(* When the parts and the queue after a step are given, so is the line. *)
LEMMA LinePrimed ==
  ASSUME TypeInv, TypeInv'
  PROVE  /\ Line = Part(matcher, 1) \o (Part(matcher, 2) \o queue)
         /\ Line' = Part(matcher', 1) \o (Part(matcher', 2) \o queue')
         /\ \A i \in {1, 2} : Part(matcher, i) \in Seq(Players) /\ Part(matcher', i) \in Seq(Players)
         /\ queue \in Seq(Players) /\ queue' \in Seq(Players)
         /\ matcher \in Matchers /\ matcher' \in Matchers
<1>1. (TypeInv => /\ Line = Part(matcher, 1) \o (Part(matcher, 2) \o queue)
                  /\ Line = Hand(matcher) \o queue /\ Line \in Seq(Players) /\ queue \in Seq(Players)
                  /\ matcher \in Matchers)'
  BY LineParts, PTL
<1>2. matcher \in Matchers /\ matcher' \in Matchers
  BY DEF TypeInv
<1>. QED  BY <1>1, <1>2, LineParts, HandTyped

(* Those in hand stay in hand or go, and so do those in the queue. *)
LEMMA LineOfLess ==
  ASSUME TypeInv, TypeInv', Thinner(queue', queue),
         \A i \in {1, 2} : Part(matcher', i) \in {Part(matcher, i), <<>>}
  PROVE  LineThins
<1>1. Part(matcher', 1) \in {Part(matcher, 1), <<>>} /\ Part(matcher', 2) \in {Part(matcher, 2), <<>>}
  OBVIOUS
<1>2. Thinner(Part(matcher', 1) \o (Part(matcher', 2) \o queue'), Part(matcher, 1) \o (Part(matcher, 2) \o queue))
  BY <1>1, LinePrimed, ThinnerLine
<1>. QED  BY <1>2, LinePrimed, Zenon DEF LineThins

(* A line that stays as it is thins. *)
LEMMA LineOfSame ==
  ASSUME TypeInv, TypeInv', Line' = Line
  PROVE  LineThins
<1>1. PICK line \in Seq(Players) : line = Line
  BY LineParts
<1>2. Thinner(line, line)
  BY ThinnerSame
<1>. QED  BY <1>1, <1>2, Zenon DEF LineThins

(* Pop takes the first of the queue in hand: the line stays as it is. *)
LEMMA PopLine ==
  ASSUME TypeInv, TypeInv', Pop
  PROVE  Line' = Line
<1> DEFINE p == IF queue = <<>> THEN None ELSE Head(queue)
           both == [matcher.popped EXCEPT ![matcher.i] = p]
           next == IF matcher.i = 1 THEN "pop" ELSE IF Contains(both, None) THEN "return" ELSE "read"
           front == IF queue = <<>> THEN <<>> ELSE <<Head(queue)>>
           rest == IF queue = <<>> THEN <<>> ELSE Tail(queue)
<1>1. matcher.step = "pop" /\ queue' = rest
      /\ matcher' = [matcher EXCEPT !.popped = both, !.i = 3 - @, !.step = next]
  BY DEF Pop
<1>2. front \o rest = queue
  BY FrontAndRest DEF TypeInv
<1>3. One(p) = front
  <2>1. CASE queue = <<>>
    BY <2>1 DEF One
  <2>2. CASE queue # <<>>
    <3>1. Head(queue) \in Players
      BY <2>2, HeadTailProperties DEF TypeInv
    <3>. QED  BY <2>2, <3>1, CallFacts DEF One
  <2>. QED  BY <2>1, <2>2
<1>4. front \in Seq(Players) /\ rest \in Seq(Players)
  <2>2. CASE queue = <<>>
    BY <2>2, EmptySeq
  <2>3. CASE queue # <<>>
    <3>1. Head(queue) \in Players /\ Tail(queue) \in Seq(Players)
      BY <2>3, HeadTailProperties DEF TypeInv
    <3>. QED  BY <2>3, <3>1
  <2>. QED  BY <2>2, <2>3
<1>5. next \in {"pop", "return", "read"} /\ (matcher.i = 1 => next = "pop") /\ (matcher.i = 2 => next # "pop")
  OBVIOUS
<1>6. both[1] = (IF matcher.i = 1 THEN p ELSE matcher.popped[1])
      /\ both[2] = (IF matcher.i = 2 THEN p ELSE matcher.popped[2])
  BY MatcherFacts
<1> HIDE DEF p, both, next, front, rest
<1>7. /\ matcher'.step = next /\ matcher'.i = 3 - matcher.i /\ matcher'.popped = both
      /\ matcher'.known \in SUBSET {1, 2} /\ matcher'.i \in {1, 2}
  BY <1>1, MatcherFacts
<1>8. <<>> \o queue = queue /\ <<>> \o rest = rest
  BY <1>4, ConcatEmptySeq DEF TypeInv
<1>9. CASE matcher.i = 1
  <2>1. Part(matcher, 1) = <<>> /\ Part(matcher, 2) = <<>>
    BY <1>1, <1>9, PartsOf, MatcherFacts
  <2>2. Part(matcher', 1) = One(p) /\ Part(matcher', 2) = <<>>
    <3>1. matcher'.step = "pop" /\ matcher'.i = 2 /\ matcher'.popped[1] = p
      BY <1>5, <1>6, <1>7, <1>9
    <3>. QED  BY <1>7, <3>1, PartsOf
  <2>3. Line = queue /\ Line' = front \o rest
    BY <1>1, <1>3, <1>8, <2>1, <2>2, LinePrimed, Zenon
  <2>. QED  BY <1>2, <2>3, Zenon
<1>10. CASE matcher.i = 2
  <2>1. Part(matcher, 1) = One(matcher.popped[1]) /\ Part(matcher, 2) = <<>>
    BY <1>1, <1>10, PartsOf, MatcherFacts
  <2>2. Part(matcher', 1) = One(matcher.popped[1]) /\ Part(matcher', 2) = One(p)
    <3>1. matcher'.step \in {"return", "read"}
      BY <1>5, <1>7, <1>10
    <3>2. matcher'.popped[1] = matcher.popped[1] /\ matcher'.popped[2] = p
      BY <1>6, <1>7, <1>10
    <3>. QED  BY <1>7, <3>1, <3>2, PartsOf
  <2>3. Line = One(matcher.popped[1]) \o queue /\ Line' = One(matcher.popped[1]) \o (front \o rest)
    BY <1>1, <1>3, <1>8, <2>1, <2>2, LinePrimed, Zenon
  <2>. QED  BY <1>2, <2>3, Zenon
<1>. QED  BY <1>9, <1>10, MatcherFacts

(* Return puts the one in hand back, as the first of the queue. *)
LEMMA ReturnLine ==
  ASSUME TypeInv, TypeInv', Return
  PROVE  Line' = Line
<1> DEFINE q == matcher.popped
           K == {i \in 1..Len(q) : q[i] # None}
<1>1. matcher.step = "return" /\ queue' = Picked(q, K) \o queue
      /\ matcher' = [matcher EXCEPT !.step = "release"]
  BY DEF Return, Step, Filtered
<1>2. q \in Seq(Players \cup {None}) /\ Len(q) = 2
  BY MatcherFacts, PairIsSeq
<1>3. K \in SUBSET (1..Len(q)) /\ \A i \in 1..Len(q) : i \in K <=> q[i] # None
  OBVIOUS
<1> HIDE DEF q, K
<1>4. Picked(q, K) = (IF 1 \in K THEN <<q[1]>> ELSE <<>>) \o (IF 2 \in K THEN <<q[2]>> ELSE <<>>)
  BY <1>2, <1>3, PickedOfTwo
<1>5. (1 \in K <=> q[1] # None) /\ (2 \in K <=> q[2] # None)
  BY <1>2, <1>3
<1>6. Part(matcher, 1) = One(q[1]) /\ Part(matcher, 2) = One(q[2])
  BY <1>1, PartsOf, MatcherFacts DEF q
<1>7. Picked(q, K) = Part(matcher, 1) \o Part(matcher, 2)
  BY <1>4, <1>5, <1>6 DEF One
<1>8. Part(matcher', 1) = <<>> /\ Part(matcher', 2) = <<>>
  <2>1. matcher'.step = "release" /\ matcher'.i \in {1, 2} /\ matcher'.known \in SUBSET {1, 2}
    BY <1>1, MatcherFacts
  <2>. QED  BY <2>1, PartsOf
<1>9. /\ Part(matcher, 1) \in Seq(Players) /\ Part(matcher, 2) \in Seq(Players)
      /\ queue \in Seq(Players) /\ queue' \in Seq(Players)
  BY LinePrimed
<1>10. Line' = queue'
  <2>1. <<>> \o queue' = queue'
    BY <1>9, ConcatEmptySeq
  <2>. QED  BY <1>8, <2>1, LinePrimed, Zenon
<1>11. (Part(matcher, 1) \o Part(matcher, 2)) \o queue = Part(matcher, 1) \o (Part(matcher, 2) \o queue)
  BY SMTT(60), <1>9, ConcatAssociative
<1>. QED  BY <1>1, <1>7, <1>10, <1>11, LinePrimed, Zenon

(* Read keeps those it has details of, when it is done. *)
LEMMA ReadLine ==
  ASSUME TypeInv, TypeInv', Read
  PROVE  LineThins
<1>1. /\ matcher.step = "read" /\ queue' = queue
      /\ matcher'.step \in {"read", "settle"} /\ matcher'.popped = matcher.popped
      /\ matcher'.i \in {1, 2} /\ matcher'.known \in SUBSET {1, 2}
      /\ matcher'.step = "settle" => matcher'.i = 1
  BY MatcherFacts DEF Read, redis
<1>2. Part(matcher, 1) = One(matcher.popped[1]) /\ Part(matcher, 2) = One(matcher.popped[2])
  BY <1>1, PartsOf, MatcherFacts
<1>3. /\ Part(matcher', 1) \in {One(matcher.popped[1]), <<>>}
      /\ Part(matcher', 2) \in {One(matcher.popped[2]), <<>>}
  <2>1. CASE matcher'.step = "read"
    BY <1>1, <2>1, PartsOf
  <2>2. CASE matcher'.step = "settle"
    BY <1>1, <2>2, PartsOf
  <2>. QED  BY <1>1, <2>1, <2>2
<1>4. Thinner(queue', queue)
  BY <1>1, ThinnerSame DEF TypeInv
<1>5. \A i \in {1, 2} : Part(matcher', i) \in {Part(matcher, i), <<>>}
  BY <1>2, <1>3
<1>. QED  BY <1>4, <1>5, LineOfLess

(* A player who goes back was the only one in hand: the line stays. *)
LEMMA PutBackLine ==
  ASSUME TypeInv, TypeInv', matcher.step = "settle", ~ IsMatch, matcher.i \in matcher.known,
         queue' = <<matcher.popped[matcher.i]>> \o queue,
         Part(matcher', 1) = <<>>, Part(matcher', 2) = <<>>
  PROVE  Line' = Line
<1>1. matcher.i \in {1, 2} /\ matcher.known \in SUBSET {1, 2} /\ matcher.known # {1, 2}
  BY MatcherFacts DEF IsMatch
<1>2. PICK p : p = matcher.popped[matcher.i] /\ p # None
  BY <1>1 DEF TypeInv
<1>3. /\ Part(matcher, 1) = IF matcher.i = 1 /\ 1 \in matcher.known THEN One(matcher.popped[1]) ELSE <<>>
      /\ Part(matcher, 2) = IF 2 \in matcher.known THEN One(matcher.popped[2]) ELSE <<>>
  BY <1>1, PartsOf
<1>4. One(p) = <<p>> /\ queue' = <<p>> \o queue
  BY <1>2 DEF One
<1>5. queue \in Seq(Players) /\ queue' \in Seq(Players)
  BY LinePrimed
<1>6. <<>> \o queue = queue /\ <<>> \o queue' = queue'
  BY <1>5, ConcatEmptySeq
<1>7. <<>> \o (<<p>> \o queue) = <<p>> \o queue
  BY <1>4, <1>6
<1>8. Line' = <<p>> \o queue
  BY <1>4, <1>6, LinePrimed, Zenon
<1>9. CASE matcher.i = 1
  <2>1. 1 \in matcher.known /\ 2 \notin matcher.known
    BY <1>1, <1>9
  <2>2. Part(matcher, 1) = One(p) /\ Part(matcher, 2) = <<>>
    BY <1>2, <1>3, <1>9, <2>1
  <2>3. Line = <<p>> \o queue
    BY <1>4, <1>6, <2>2, LinePrimed, Zenon
  <2>. QED  BY <1>8, <2>3, Zenon
<1>10. CASE matcher.i = 2
  <2>1. Part(matcher, 1) = <<>> /\ Part(matcher, 2) = One(p)
    BY <1>2, <1>3, <1>10
  <2>2. Line = <<p>> \o queue
    BY <1>4, <1>7, <2>1, LinePrimed, Zenon
  <2>. QED  BY <1>8, <2>2, Zenon
<1>. QED  BY <1>1, <1>9, <1>10

(* The two in hand become a match. *)
MakesMatch ==
  /\ matcher.step = "settle" /\ IsMatch
  /\ Line = matcher.popped \o queue /\ Line' = queue
  /\ rooms' = Append(rooms, NewRoom) /\ NewRoom \in Matches

(* To settle an attempt keeps the line, or matches its first two. *)
LEMMA SettleLine ==
  ASSUME TypeInv, TypeInv', Settle
  PROVE  (Line' = Line /\ SameMatches) \/ MakesMatch
<1> DEFINE next == IF matcher.i = 1 THEN "settle" ELSE "release"
<1>1. /\ matcher.step = "settle" /\ SettlePlayer
      /\ matcher' = [matcher EXCEPT !.i = 3 - @, !.step = next]
  BY DEF Settle, SettleNext
<1>2. matcher.i = 1 \/ ~ IsMatch => rooms' = rooms
  BY DEF Settle, SettleNext
<1>3. matcher.i = 2 /\ IsMatch => rooms' = Append(rooms, NewRoom)
  BY DEF Settle, SettleNext
<1>4. next \in {"settle", "release"} /\ (matcher.i = 1 => next = "settle") /\ (matcher.i = 2 => next = "release")
  OBVIOUS
<1> HIDE DEF next
<1>5. /\ matcher'.step = next /\ matcher'.i = 3 - matcher.i /\ matcher'.popped = matcher.popped
      /\ matcher'.known = matcher.known /\ matcher'.known \in SUBSET {1, 2} /\ matcher'.i \in {1, 2}
  BY <1>1, MatcherFacts
<1>6. rooms' = rooms => SameMatches
  BY DEF SameMatches
<1>7. CASE ~ IsMatch
  <2>1. matcher.known # {1, 2}
    BY <1>7 DEF IsMatch
  <2>2. /\ Part(matcher, 1) = IF matcher.i = 1 /\ 1 \in matcher.known THEN One(matcher.popped[1]) ELSE <<>>
        /\ Part(matcher, 2) = IF 2 \in matcher.known THEN One(matcher.popped[2]) ELSE <<>>
    BY <1>1, <2>1, PartsOf, MatcherFacts
  <2>3. /\ Part(matcher', 1) = <<>>
        /\ Part(matcher', 2) = IF matcher.i = 1 THEN Part(matcher, 2) ELSE <<>>
    <3>1. CASE matcher.i = 1
      <4>1. matcher'.step = "settle" /\ matcher'.i = 2 /\ matcher'.known # {1, 2}
        BY <1>4, <1>5, <2>1, <3>1
      <4>2. Part(matcher', 1) = <<>> /\ Part(matcher', 2) = IF 2 \in matcher.known THEN One(matcher.popped[2]) ELSE <<>>
        BY <1>5, <4>1, PartsOf
      <4>. QED  BY <2>2, <3>1, <4>2
    <3>2. CASE matcher.i = 2
      BY <1>4, <1>5, <3>2, PartsOf
    <3>. QED  BY <3>1, <3>2, MatcherFacts
  <2>4. Line' = Line
    <3>1. CASE matcher.i \in matcher.known
      <4>1. queue' = <<matcher.popped[matcher.i]>> \o queue
        BY <1>1, <1>7, <3>1 DEF SettlePlayer
      <4>2. Part(matcher', 2) = <<>>
        BY <2>1, <2>2, <2>3, <3>1, MatcherFacts
      <4>. QED  BY <1>1, <1>7, <2>3, <3>1, <4>1, <4>2, PutBackLine
    <3>2. CASE matcher.i \notin matcher.known
      <4>1. queue' = queue
        BY <1>1, <3>2 DEF SettlePlayer
      <4>2. Part(matcher, 1) = <<>> /\ Part(matcher', 2) = Part(matcher, 2)
        BY <2>2, <2>3, <3>2, MatcherFacts
      <4>. QED  BY <2>3, <4>1, <4>2, LinePrimed, Zenon
    <3>. QED  BY <3>1, <3>2
  <2>. QED  BY <1>2, <1>6, <1>7, <2>4
<1>8. CASE IsMatch
  <2>1. matcher.known = {1, 2} /\ queue' = queue
    BY <1>1, <1>8 DEF IsMatch, SettlePlayer
  <2>2. Part(matcher, 1) = One(matcher.popped[1]) /\ Part(matcher, 2) = One(matcher.popped[2])
    BY <1>1, <2>1, PartsOf, MatcherFacts
  <2>3. CASE matcher.i = 1
    <3>1. matcher'.step = "settle" /\ matcher'.known = {1, 2}
      BY <1>4, <1>5, <2>1, <2>3
    <3>2. Part(matcher', 1) = One(matcher.popped[1]) /\ Part(matcher', 2) = One(matcher.popped[2])
      BY <1>5, <3>1, PartsOf
    <3>3. Line' = Line
      BY <2>1, <2>2, <3>2, LinePrimed, Zenon
    <3>. QED  BY <1>2, <1>6, <2>3, <3>3
  <2>4. CASE matcher.i = 2
    <3>1. matcher.popped \in [{1, 2} -> Players]
      BY <1>1, MatcherFacts DEF TypeInv
    <3>2. NewRoom \in Matches
      BY <3>1, MatcherFacts DEF NewRoom, Matches, States
    <3>3. Part(matcher', 1) = <<>> /\ Part(matcher', 2) = <<>>
      BY <1>4, <1>5, <2>4, PartsOf
    <3>4. queue \in Seq(Players) /\ <<>> \o queue = queue
      BY ConcatEmptySeq DEF TypeInv
    <3>5. Line' = queue
      BY <2>1, <3>3, <3>4, LinePrimed, Zenon
    <3>6. Part(matcher, 1) \o Part(matcher, 2) = matcher.popped
      <4>1. PICK q : q = matcher.popped
        OBVIOUS
      <4>2. q \in Seq(Players) /\ Len(q) = 2 /\ q[1] \in Players /\ q[2] \in Players
        BY <3>1, <4>1, PairIsSeq
      <4>3. Part(matcher, 1) = <<q[1]>> /\ Part(matcher, 2) = <<q[2]>>
        BY <2>2, <4>1, <4>2, CallFacts DEF One
      <4>4. <<q[1]>> \o <<q[2]>> = q
        <5>1. PICK a \in Players : a = q[1]
          BY <4>2
        <5>2. PICK b \in Players : b = q[2]
          BY <4>2
        <5>3. <<a>> \in Seq(Players) /\ <<b>> \in Seq(Players) /\ Len(<<a>>) = 1 /\ Len(<<b>>) = 1
          OBVIOUS
        <5>4. /\ <<a>> \o <<b>> \in Seq(Players) /\ Len(<<a>> \o <<b>>) = 2
              /\ (<<a>> \o <<b>>)[1] = a /\ (<<a>> \o <<b>>)[2] = b
          BY <5>3, ConcatProperties
        <5>5. PICK ab : ab = <<a>> \o <<b>>
          OBVIOUS
        <5>6. \A i \in 1..2 : i = 1 \/ i = 2
          OBVIOUS
        <5>7. ab = q
          <6>1. \A i \in 1..Len(ab) : ab[i] = q[i]
            BY <4>2, <5>1, <5>2, <5>4, <5>5, <5>6
          <6>. QED  BY <4>2, <5>4, <5>5, <6>1, SeqEqual
        <5>. QED  BY <5>1, <5>2, <5>5, <5>7, Zenon
      <4>. QED  BY <4>1, <4>3, <4>4, Zenon
    <3>7. Line = matcher.popped \o queue
      <4>0. /\ Part(matcher, 1) \in Seq(Players) /\ Part(matcher, 2) \in Seq(Players)
            /\ queue \in Seq(Players)
        BY LinePrimed
      <4>1. (Part(matcher, 1) \o Part(matcher, 2)) \o queue = Part(matcher, 1) \o (Part(matcher, 2) \o queue)
        BY SMTT(60), <4>0, ConcatAssociative
      <4>. QED  BY <3>6, <4>1, LinePrimed, Zenon
    <3>. QED  BY <1>1, <1>3, <1>8, <2>4, <3>2, <3>5, <3>7 DEF MakesMatch
  <2>. QED  BY <2>3, <2>4, MatcherFacts
<1>. QED  BY <1>7, <1>8

(* An attempt that fails lets go of all, but one may be back already. *)
LEMMA FailedLine ==
  ASSUME TypeInv, TypeInv', TryMatchFails
  PROVE  LineThins /\ SameMatches
<1>1. rooms' = rooms /\ matcher' = [matcher EXCEPT !.step = "release"]
  BY DEF TryMatchFails, Step
<1>2. Part(matcher', 1) = <<>> /\ Part(matcher', 2) = <<>>
  <2>1. matcher'.step = "release" /\ matcher'.i \in {1, 2} /\ matcher'.known \in SUBSET {1, 2}
    BY <1>1, MatcherFacts
  <2>. QED  BY <2>1, PartsOf
<1>3. SameMatches
  BY <1>1 DEF SameMatches
<1>4. ASSUME queue' = queue PROVE LineThins
  <2>1. Thinner(queue', queue)
    BY <1>4, ThinnerSame DEF TypeInv
  <2>2. \A i \in {1, 2} : Part(matcher', i) \in {Part(matcher, i), <<>>}
    BY <1>2
  <2>. QED  BY <2>1, <2>2, LineOfLess
<1>5. ASSUME matcher.step = "settle", SettlePlayer, queue' # queue PROVE LineThins
  <2>1. ~ IsMatch /\ matcher.i \in matcher.known /\ queue' = <<matcher.popped[matcher.i]>> \o queue
    BY <1>5 DEF SettlePlayer
  <2>2. Line' = Line
    BY <1>2, <1>5, <2>1, PutBackLine
  <2>. QED  BY <2>2, LineOfSame
<1>6. queue' = queue \/ (matcher.step = "settle" /\ SettlePlayer)
  BY DEF TryMatchFails, redis
<1>. QED  BY <1>3, <1>4, <1>5, <1>6

(* All that the matchers do: only Read, and an attempt that fails, let go   *)
(* of a player whom they do not match. *)
LEMMA MatchingLine ==
  ASSUME TypeInv, TypeInv',
         (\E s \in Servers : TakeLock(s) \/ MissLock(s)) \/ TryMatch \/ TryMatchFails
  PROVE  /\ \/ Line' = Line /\ SameMatches
            \/ (Read \/ TryMatchFails) /\ LineThins /\ SameMatches
            \/ MakesMatch
         /\ UNCHANGED pc
<1>1. UNCHANGED pc
  BY DEF TakeLock, MissLock, TryMatch, TryMatchFails, Count, Pop, Return, Read, Settle, Release, calls
<1>2. rooms' = rooms => SameMatches
  BY DEF SameMatches
<1>3. ASSUME Part(matcher, 1) = <<>>, Part(matcher, 2) = <<>>,
             Part(matcher', 1) = <<>>, Part(matcher', 2) = <<>>, queue' = queue
      PROVE  Line' = Line
  BY <1>3, LinePrimed, Zenon
<1>4. ASSUME matcher.step \in {"idle", "count", "release"}
      PROVE  Part(matcher, 1) = <<>> /\ Part(matcher, 2) = <<>>
  BY <1>4, PartsOf, MatcherFacts
<1>5. ASSUME NEW s \in Servers, TakeLock(s) PROVE Line' = Line /\ SameMatches
  <2>1. matcher'.step = "count" /\ matcher'.i \in {1, 2} /\ matcher'.known \in SUBSET {1, 2}
    BY <1>5, IdleFacts DEF TakeLock, Matchers
  <2>2. Part(matcher', 1) = <<>> /\ Part(matcher', 2) = <<>>
    BY <2>1, PartsOf
  <2>. QED  BY <1>2, <1>3, <1>4, <1>5, <2>2 DEF TakeLock, redis
<1>6. ASSUME NEW s \in Servers, MissLock(s) PROVE Line' = Line /\ SameMatches
  <2>1. matcher' = matcher /\ queue' = queue /\ rooms' = rooms
    BY <1>6 DEF MissLock, redis
  <2>2. Line' = Line
    BY <2>1, LinePrimed, Zenon
  <2>. QED  BY <1>2, <2>1, <2>2
<1>7. CASE Count
  <2>1. /\ matcher.step = "count"
        /\ matcher'.step \in {"release", "pop"} /\ matcher'.i = 1 /\ matcher'.known \in SUBSET {1, 2}
        /\ queue' = queue /\ rooms' = rooms
    BY <1>7, MatcherFacts DEF Count, Step, redis, TypeInv
  <2>2. Part(matcher', 1) = <<>> /\ Part(matcher', 2) = <<>>
    BY <2>1, PartsOf
  <2>. QED  BY <1>1, <1>2, <1>3, <1>4, <2>1, <2>2
<1>8. CASE Pop
  <2>1. rooms' = rooms
    BY <1>8 DEF Pop
  <2>. QED  BY <1>1, <1>2, <1>8, <2>1, PopLine
<1>9. CASE Return
  <2>1. rooms' = rooms
    BY <1>9 DEF Return
  <2>. QED  BY <1>1, <1>2, <1>9, <2>1, ReturnLine
<1>10. CASE Read
  <2>1. rooms' = rooms
    BY <1>10 DEF Read
  <2>. QED  BY <1>1, <1>2, <1>10, <2>1, ReadLine
<1>11. CASE Settle
  BY <1>1, <1>11, SettleLine
<1>12. CASE Release
  <2>1. /\ matcher.step = "release" /\ matcher' = Idle /\ queue' = queue /\ rooms' = rooms
    BY <1>12 DEF Release, redis
  <2>2. Part(matcher', 1) = <<>> /\ Part(matcher', 2) = <<>>
    BY <2>1, IdleFacts, PartsOf
  <2>. QED  BY <1>1, <1>2, <1>3, <1>4, <2>1, <2>2
<1>. QED  BY <1>1, <1>5, <1>6, <1>7, <1>8, <1>9, <1>10, <1>11, <1>12, FailedLine DEF TryMatch

-----------------------------------------------------------------------------
(* The calls that have not yet put their player into the queue. *)
Early == {"idle", "registering", "storing", "cleaning", "pushing"}
JoinsLine(c) == pc[c] = "pushing" /\ pc'[c] \notin Early /\ Line' = Append(Line, Caller[c])
NotEarlyAgain == \A c \in Joins : pc'[c] \in Early => pc[c] \in Early

(* What a step does to the line and to the matches. *)
LineStep ==
  /\ (SameMatches /\ (LineThins \/ \E c \in Joins : JoinsLine(c))) \/ MakesMatch
  /\ NotEarlyAgain

(* A step of a call thins the line or puts its player at the end. *)
LEMMA CallsLine ==
  ASSUME TypeInv, TypeInv', NEW c \in Calls,
         \/ c \in Joins /\ (\/ Check(c) \/ Enqueue(c) \/ EnqueueFails(c) \/ Look(c) \/ Tell(c)
                            \/ Cancel(c) \/ Unregister(c))
         \/ Dequeue(c) \/ DequeueFails(c)
  PROVE  LineStep
<1> DEFINE Pushed(x) == /\ c \in Joins /\ pc[c] = "pushing" /\ x \notin Early
                        /\ queue' = Append(queue, Caller[c])
<1>1. UNCHANGED <<matcher, rooms>>
  BY DEF Check, Enqueue, Register, Store, Clean, Push, EnqueueFails, Look, Tell, Cancel, Unregister,
         Dequeue, DropDetails, DropPlace, DequeueFails, matching
<1>2. PICK x \in Labels : Goto(c, x) /\ (x \in Early /\ c \in Joins => pc[c] \in Early)
                          /\ (queue' \in {queue, Without(Caller[c])} \/ Pushed(x))
  <2>1. CASE c \in Joins /\ (Check(c) \/ Look(c) \/ Tell(c) \/ Cancel(c) \/ Unregister(c))
    BY <2>1 DEF Check, Look, Tell, Cancel, Unregister, Early, Labels, redis
  <2>2. CASE c \in Joins /\ (Register(c) \/ Store(c) \/ Clean(c))
    BY <2>2 DEF Register, Store, Clean, Early, Labels, redis
  <2>3. CASE c \in Joins /\ (Push(c) \/ EnqueueFails(c))
    BY <2>3 DEF Push, EnqueueFails, Early, Labels, redis
  <2>4. CASE DropDetails(c)
    BY <2>4 DEF DropDetails, Early, Labels, redis
  <2>5. CASE DropPlace(c)
    BY <2>5 DEF DropPlace, Early, Labels, redis
  <2>6. CASE DequeueFails(c)
    BY <2>6 DEF DequeueFails, Early, Labels, redis
  <2>. QED  BY <2>1, <2>2, <2>3, <2>4, <2>5, <2>6 DEF Enqueue, Dequeue
<1>3. SameMatches
  BY <1>1 DEF SameMatches
<1>4. NotEarlyAgain
  <2> SUFFICES ASSUME NEW d \in Joins, pc'[d] \in Early PROVE pc[d] \in Early
    BY DEF NotEarlyAgain
  <2>1. d \in Calls /\ pc \in [Calls -> Labels]
    BY CallFacts DEF TypeInv
  <2>. QED  BY <1>2, <2>1 DEF Goto
<1>5. CASE queue' \in {queue, Without(Caller[c])}
  <2>1. Thinner(queue', queue)
    <3>1. Thinner(queue, queue)
      BY ThinnerSame DEF TypeInv
    <3>2. Thinner(Without(Caller[c]), queue)
      BY WithoutFacts
    <3>. QED  BY <1>5, <3>1, <3>2
  <2>2. \A i \in {1, 2} : Part(matcher', i) \in {Part(matcher, i), <<>>}
    BY <1>1
  <2>3. LineThins
    BY <2>1, <2>2, LineOfLess
  <2>. QED  BY <1>3, <1>4, <2>3 DEF LineStep
<1>6. CASE Pushed(x)
  <2>1. Line = Hand(matcher) \o queue /\ Hand(matcher) \in Seq(Players) /\ queue \in Seq(Players)
    BY LineParts, HandTyped
  <2>2. Line' = Hand(matcher') \o queue'
    <3>1. (TypeInv => Line = Hand(matcher) \o queue)'
      <4>1. TypeInv => Line = Hand(matcher) \o queue
        BY LineParts
      <4>. QED  BY LineParts, PTL
    <3>. QED  BY <3>1
  <2>3. PICK p \in Players : p = Caller[c]
    BY CallFacts
  <2>4. Line' = Hand(matcher) \o Append(queue, p)
    BY <1>1, <1>6, <2>2, <2>3, Zenon
  <2>5. /\ Append(queue, p) = queue \o <<p>> /\ <<p>> \in Seq(Players)
        /\ Hand(matcher) \o queue \in Seq(Players)
    BY <2>1, AppendIsConcat, ConcatProperties
  <2>6. Hand(matcher) \o (queue \o <<p>>) = (Hand(matcher) \o queue) \o <<p>>
    BY <2>1, <2>5, ConcatAssociative
  <2>7. Append(Hand(matcher) \o queue, p) = (Hand(matcher) \o queue) \o <<p>>
    BY <2>5, AppendIsConcat
  <2>8. Line' = Append(Line, Caller[c])
    BY <2>1, <2>3, <2>4, <2>5, <2>6, <2>7, Zenon
  <2>9. pc'[c] = x
    BY <1>2 DEF Goto, TypeInv
  <2>10. JoinsLine(c)
    BY <1>6, <2>8, <2>9 DEF JoinsLine
  <2>. QED  BY <1>3, <1>4, <1>6, <2>10 DEF LineStep
<1>. QED  BY <1>2, <1>5, <1>6

(* So every step thins it, adds one at its end, or makes a match. *)
LEMMA LineNext == TypeInv /\ TypeInv' /\ [Next]_vars => LineStep
<1> SUFFICES ASSUME TypeInv, TypeInv', [Next]_vars PROVE LineStep
  OBVIOUS
<1>1. ASSUME NEW c \in Joins,
             \/ Check(c) \/ Enqueue(c) \/ EnqueueFails(c) \/ Look(c) \/ Tell(c) \/ Cancel(c)
             \/ Unregister(c)
      PROVE  LineStep
  BY <1>1, CallsLine, CallFacts
<1>2. ASSUME NEW c \in Calls, Dequeue(c) \/ DequeueFails(c) PROVE LineStep
  BY <1>2, CallsLine
<1>3. ASSUME (\E s \in Servers : TakeLock(s) \/ MissLock(s)) \/ TryMatch \/ TryMatchFails
      PROVE  LineStep
  <2>1. NotEarlyAgain
    BY <1>3, MatchingLine DEF NotEarlyAgain
  <2>2. Line' = Line => LineThins
    BY LineOfSame
  <2>. QED  BY <1>3, <2>1, <2>2, MatchingLine DEF LineStep
<1>4. ASSUME queue' = queue, matcher' = matcher, pc' = pc PROVE LineThins /\ NotEarlyAgain
  <2>1. Thinner(queue', queue)
    BY <1>4, ThinnerSame DEF TypeInv
  <2>2. \A i \in {1, 2} : Part(matcher', i) \in {Part(matcher, i), <<>>}
    BY <1>4
  <2>. QED  BY <1>4, <2>1, <2>2, LineOfLess DEF NotEarlyAgain
<1>5. ASSUME NEW r \in DOMAIN rooms, Publish(r) \/ RoomFails(r) \/ \E s \in Servers : Hear(r, s)
      PROVE  LineStep
  <2>1. UNCHANGED <<redis, matcher, pc>> /\ SameMatches
    BY <1>5, TellFacts DEF SameMatches
  <2>. QED  BY <1>4, <2>1 DEF LineStep, redis
<1>6. CASE UNCHANGED vars
  <2>1. queue' = queue /\ matcher' = matcher /\ pc' = pc /\ rooms' = rooms
    BY <1>6 DEF vars, redis, matching, calls
  <2>. QED  BY <1>4, <2>1 DEF LineStep, SameMatches
<1>. QED
  BY <1>1, <1>2, <1>3, <1>5, <1>6 DEF Next

-----------------------------------------------------------------------------
(* Every player joins once.  (One who joins on two servers is in the queue  *)
(* twice and may be matched with himself; the runs assume the same.) *)
OneJoinEach == \A c, d \in Joins : Caller[c] = Caller[d] => c = d

Distinct(line) == \A k, l \in 1..Len(line) : line[k] = line[l] => k = l
Free(p) == ~ Matched(p) /\ \A k \in 1..Len(Line) : Line[k] # p

(* Nobody stands in the line twice or is in it and matched, and who has not *)
(* come to the queue yet is neither. *)
LineInv ==
  /\ Distinct(Line)
  /\ \A k \in 1..Len(Line) : ~ Matched(Line[k])
  /\ \A c \in Joins : pc[c] \in Early => Free(Caller[c])
  /\ MatchedOnce

(* A thinner list has no new element, and none twice if none was. *)
LEMMA ThinnerElements ==
  ASSUME NEW S, NEW old \in Seq(S), NEW new \in Seq(S), Thinner(new, old)
  PROVE  /\ \A k \in 1..Len(new) : \E l \in 1..Len(old) : new[k] = old[l]
         /\ Distinct(old) => Distinct(new)
<1>1. PICK n \in Nat, m \in Nat : n = Len(new) /\ m = Len(old)
  BY LenProperties
<1>2. PICK place : IsThinning(new, old, place)
  BY DEF Thinner
<1>3. /\ \A j \in 1..n : place[j] \in 1..m /\ new[j] = old[place[j]]
      /\ \A i, j \in 1..n : i < j => place[i] < place[j]
  BY <1>1, <1>2 DEF IsThinning
<1>4. ASSUME Distinct(old), NEW k \in 1..n, NEW l \in 1..n, new[k] = new[l] PROVE k = l
  <2>1. place[k] = place[l]
    BY <1>1, <1>3, <1>4 DEF Distinct
  <2>2. place[k] \in 1..m /\ place[l] \in 1..m
    BY <1>3
  <2>3. ~ (k < l) /\ ~ (l < k)
    BY <1>3, <2>1, <2>2
  <2>. QED  BY <2>3
<1>. QED  BY <1>1, <1>3, <1>4 DEF Distinct

(* What is left is in the old order. *)
LEMMA ThinnerOrder ==
  ASSUME NEW S, NEW old \in Seq(S), NEW new \in Seq(S), Thinner(new, old), Distinct(old),
         NEW p, NEW q, Before(p, q, old), Before(q, p, new)
  PROVE  FALSE
<1>1. PICK n \in Nat, m \in Nat : /\ n = Len(new) /\ m = Len(old)
                                 /\ DOMAIN new = 1..n /\ DOMAIN old = 1..m
  BY LenProperties
<1>2. PICK place : IsThinning(new, old, place)
  BY DEF Thinner
<1>3. /\ \A j \in 1..n : place[j] \in 1..m /\ new[j] = old[place[j]]
      /\ \A i, j \in 1..n : i < j => place[i] < place[j]
  BY <1>1, <1>2 DEF IsThinning
<1>4. PICK i \in 1..m, j \in 1..m : i < j /\ old[i] = p /\ old[j] = q
  BY <1>1 DEF Before
<1>5. PICK k \in 1..n, l \in 1..n : k < l /\ new[k] = q /\ new[l] = p
  BY <1>1 DEF Before
<1>6. place[k] = j /\ place[l] = i
  BY <1>1, <1>3, <1>4, <1>5 DEF Distinct
<1>7. place[k] < place[l]
  BY <1>3, <1>5
<1>. QED  BY <1>4, <1>6, <1>7

(* The matched players, when the records of the matches are given. *)
LEMMA SameMatched ==
  ASSUME TypeInv, TypeInv', SameMatches
  PROVE  (\A p : Matched(p)' <=> Matched(p)) /\ (MatchedOnce => MatchedOnce')
<1>1. PICK n \in Nat : n = Len(rooms) /\ DOMAIN rooms = 1..n /\ DOMAIN rooms' = 1..n
  <2>1. rooms \in Seq(Matches) /\ rooms' \in Seq(Matches)
    BY DEF TypeInv
  <2>. QED  BY <2>1, LenProperties DEF SameMatches
<1>2. \A q \in 1..n : rooms'[q].players = rooms[q].players
  BY <1>1 DEF SameMatches
<1>. QED  BY <1>1, <1>2 DEF Matched, MatchedOnce

(* A match takes two from the line who were not matched before. *)
LEMMA MatchMade ==
  ASSUME TypeInv, TypeInv', LineInv, MakesMatch
  PROVE  /\ LineThins /\ MatchedOnce'
         /\ \A p : Matched(p)' => Matched(p) \/ \E k \in 1..Len(Line) : Line[k] = p
         /\ \A k \in 1..Len(Line') : ~ Matched(Line[k])'
<1>1. PICK both : both = matcher.popped
  OBVIOUS
<1>2. /\ both \in Seq(Players) /\ Len(both) = 2 /\ queue \in Seq(Players)
      /\ both \in [{1, 2} -> Players]
  <2>1. both \in [{1, 2} -> Players]
    BY <1>1, MatcherFacts DEF MakesMatch, TypeInv
  <2>. QED  BY <2>1, PairIsSeq DEF TypeInv
<1>3. Line = both \o queue /\ Line' = queue /\ rooms' = Append(rooms, NewRoom) /\ NewRoom \in Matches
  BY <1>1 DEF MakesMatch
<1>4. NewRoom.players = both
  BY <1>1 DEF NewRoom
<1>5. PICK n \in Nat : n = Len(queue)
  BY <1>2, LenProperties
<1>6. PICK line \in Seq(Players) : line = Line
  BY LineParts
<1>7. /\ Len(line) = n + 2 /\ line[1] = both[1] /\ line[2] = both[2]
      /\ \A k \in 1..n : line[k + 2] = queue[k]
  <2>0. /\ Len(both \o queue) = Len(both) + Len(queue)
        /\ \A k \in 1..Len(both) + Len(queue) :
             (both \o queue)[k] = IF k <= Len(both) THEN both[k] ELSE queue[k - Len(both)]
    <3>1. both \in Seq(Players) /\ queue \in Seq(Players)
      BY <1>2
    <3>. QED  BY <3>1, ConcatProperties, Zenon
  <2>1. \A k \in 1..n + 2 : (both \o queue)[k] = IF k <= 2 THEN both[k] ELSE queue[k - 2]
    <3>1. Len(both) + Len(queue) = n + 2 /\ Len(both) = 2
      BY <1>2, <1>5
    <3>. QED  BY <2>0, <3>1
  <2>2. Len(both \o queue) = n + 2
    <3>1. Len(both) + Len(queue) = n + 2
      BY <1>2, <1>5
    <3>. QED  BY <2>0, <3>1
  <2>3. line = both \o queue
    BY <1>3, <1>6
  <2>4. \A k \in 1..n + 2 : line[k] = IF k <= 2 THEN both[k] ELSE queue[k - 2]
    BY <2>1, <2>3, Zenon
  <2>5. Len(line) = n + 2
    BY <2>2, <2>3, Zenon
  <2>6. ASSUME NEW k \in 1..n PROVE line[k + 2] = queue[k]
    <3>1. k + 2 \in 1..n + 2 /\ ~ (k + 2 <= 2) /\ (k + 2) - 2 = k
      OBVIOUS
    <3>. QED  BY <2>4, <3>1
  <2>. QED  BY <2>4, <2>5, <2>6
<1>8. LineThins
  <2>1. Thinner(<<>>, both) /\ Thinner(queue, queue) /\ <<>> \in Seq(Players)
    BY <1>2, ThinnerSame, EmptySeq
  <2>2. Thinner(<<>> \o queue, both \o queue)
    BY <1>2, <2>1, ThinnerConcat
  <2>3. <<>> \o queue = queue
    BY <1>2, ConcatEmptySeq
  <2>. QED  BY <1>3, <2>2, <2>3, Zenon DEF LineThins
<1>9. PICK m \in Nat : m = Len(rooms) /\ DOMAIN rooms = 1..m /\ DOMAIN rooms' = 1..m + 1
  <2>1. rooms \in Seq(Matches) /\ rooms' \in Seq(Matches)
    BY DEF TypeInv
  <2>. QED  BY <1>3, <2>1, LenProperties, AppendProperties
<1>10. (\A r \in 1..m : rooms'[r] = rooms[r]) /\ rooms'[m + 1].players = both
  <2>1. rooms \in Seq(Matches)
    BY DEF TypeInv
  <2>2. PICK room \in Matches : room = NewRoom
    BY <1>3
  <2>3. rooms' = Append(rooms, room)
    BY <1>3, <2>2
  <2>4. (\A r \in 1..m : rooms'[r] = rooms[r]) /\ rooms'[m + 1] = room
    BY <1>9, <2>1, <2>3, AppendProperties
  <2>. QED  BY <1>4, <2>2, <2>4
<1>11. ASSUME NEW p PROVE Matched(p)' <=> Matched(p) \/ p = both[1] \/ p = both[2]
  BY <1>9, <1>10 DEF Matched
<1>12. Distinct(line) /\ \A k \in 1..n + 2 : ~ Matched(line[k])
  BY <1>6, <1>7 DEF LineInv
<1>13. both[1] # both[2] /\ ~ Matched(both[1]) /\ ~ Matched(both[2])
  <2>1. 1 \in 1..n + 2 /\ 2 \in 1..n + 2
    OBVIOUS
  <2>. QED  BY <1>7, <1>12, <2>1 DEF Distinct
<1>14. MatchedOnce'
  <2> SUFFICES ASSUME NEW r \in 1..m + 1, NEW q \in 1..m + 1, NEW i \in {1, 2}, NEW j \in {1, 2},
                      rooms'[r].players[i] = rooms'[q].players[j]
               PROVE  r = q /\ i = j
    BY <1>9 DEF MatchedOnce
  <2>1. ASSUME NEW x \in 1..m, NEW a \in {1, 2}, NEW b \in {1, 2} PROVE rooms[x].players[a] # both[b]
    <3>1. Matched(rooms[x].players[a])
      BY <1>9 DEF Matched
    <3>. QED  BY <1>13, <3>1
  <2>2. CASE r = m + 1 /\ q = m + 1
    BY <1>10, <1>13, <2>2
  <2>3. CASE r \in 1..m /\ q = m + 1
    BY <1>10, <2>1, <2>3
  <2>4. CASE r = m + 1 /\ q \in 1..m
    BY <1>10, <2>1, <2>4
  <2>5. CASE r \in 1..m /\ q \in 1..m
    BY <1>9, <1>10, <2>5 DEF LineInv, MatchedOnce
  <2>. QED  BY <2>2, <2>3, <2>4, <2>5
<1>15. ASSUME NEW k \in 1..n, NEW p, p = queue[k] PROVE ~ Matched(p)'
  <2>1. k + 2 \in 1..n + 2 /\ 1 \in 1..n + 2 /\ 2 \in 1..n + 2 /\ k + 2 # 1 /\ k + 2 # 2
    OBVIOUS
  <2>2. p = line[k + 2] /\ ~ Matched(line[k + 2])
    BY <1>7, <1>12, <1>15, <2>1
  <2>3. p # both[1] /\ p # both[2]
    BY <1>7, <1>12, <2>1, <2>2 DEF Distinct
  <2>. QED  BY <1>11, <2>2, <2>3
<1>16. ASSUME NEW k \in 1..Len(Line') PROVE ~ Matched(Line[k])'
  <2>1. k \in 1..n /\ Line'[k] = queue[k]
    BY <1>3, <1>5
  <2>2. PICK p : p = queue[k]
    OBVIOUS
  <2>3. ~ Matched(p)'
    BY <1>15, <2>1, <2>2
  <2>. QED  BY <2>1, <2>2, <2>3 DEF Matched
<1>17. ASSUME NEW p, Matched(p)' PROVE Matched(p) \/ \E k \in 1..Len(Line) : Line[k] = p
  <2>1. 1 \in 1..Len(line) /\ 2 \in 1..Len(line)
    BY <1>7
  <2>. QED  BY <1>6, <1>7, <1>11, <1>17, <2>1
<1>. QED  BY <1>8, <1>14, <1>16, <1>17

(* Whatever the step, nobody waits who is matched, and nobody twice. *)
LEMMA LineInvNext ==
  ASSUME OneJoinEach, TypeInv, TypeInv', LineInv, LineStep
  PROVE  LineInv'
<1>1. PICK old \in Seq(Players), new \in Seq(Players) : old = Line /\ new = Line'
  <2>1. Line \in Seq(Players)
    BY LineParts
  <2>2. Line' \in Seq(Players)
    <3>1. (TypeInv => Line \in Seq(Players))'
      <4>1. TypeInv => Line \in Seq(Players)
        BY LineParts
      <4>. QED  BY LineParts, PTL
    <3>. QED  BY <3>1
  <2>. QED  BY <2>1, <2>2
<1>2. PICK n \in Nat, m \in Nat : n = Len(old) /\ m = Len(new)
  BY LenProperties
<1>3. /\ Distinct(old)
      /\ \A k \in 1..n : ~ Matched(old[k])
      /\ \A c \in Joins : pc[c] \in Early =>
           ~ Matched(Caller[c]) /\ \A k \in 1..n : old[k] # Caller[c]
      /\ MatchedOnce
  BY <1>1, <1>2 DEF LineInv, Free
<1>4. \A c \in Joins : pc'[c] \in Early => pc[c] \in Early
  BY DEF LineStep, NotEarlyAgain
<1>5. ASSUME Distinct(new), MatchedOnce',
             \A k \in 1..m : ~ Matched(new[k])',
             \A c \in Joins : pc'[c] \in Early =>
               ~ Matched(Caller[c])' /\ \A k \in 1..m : new[k] # Caller[c]
      PROVE  LineInv'
  <2>1. Distinct(Line)'
    BY <1>1, <1>5 DEF Distinct
  <2>2. \A k \in 1..Len(Line') : ~ Matched(Line[k])'
    BY <1>1, <1>2, <1>5 DEF Matched
  <2>3. \A c \in Joins : pc'[c] \in Early => Free(Caller[c])'
    BY <1>1, <1>2, <1>5 DEF Matched, Free
  <2>. QED  BY <1>5, <2>1, <2>2, <2>3 DEF LineInv
<1>6. CASE LineThins /\ MakesMatch
  <2>1. /\ MatchedOnce'
        /\ \A p : Matched(p)' => Matched(p) \/ \E k \in 1..n : old[k] = p
    BY <1>1, <1>2, <1>6, MatchMade
  <2>2. \A k \in 1..m : ~ Matched(new[k])'
    <3>1. \A k \in 1..Len(Line') : ~ Matched(Line[k])'
      BY <1>6, MatchMade
    <3>. QED  BY <1>1, <1>2, <3>1 DEF Matched
  <2>3. Thinner(new, old)
    BY <1>1, <1>6 DEF LineThins
  <2>4. (\A k \in 1..m : \E l \in 1..n : new[k] = old[l]) /\ Distinct(new)
    BY <1>2, <1>3, <2>3, ThinnerElements
  <2>5. ASSUME NEW c \in Joins, pc'[c] \in Early
        PROVE  ~ Matched(Caller[c])' /\ \A k \in 1..m : new[k] # Caller[c]
    <3>1. pc[c] \in Early
      BY <1>4, <2>5
    <3>2. PICK p : p = Caller[c]
      OBVIOUS
    <3>3. ~ Matched(p) /\ \A k \in 1..n : old[k] # p
      BY <1>3, <3>1, <3>2
    <3>4. ~ Matched(p)'
      BY <2>1, <3>3
    <3>5. \A k \in 1..m : new[k] # p
      BY <2>4, <3>3
    <3>. QED  BY <3>2, <3>4, <3>5
  <2>. QED  BY <1>5, <2>1, <2>2, <2>4, <2>5
<1>7. CASE SameMatches
  <2>1. (\A p : Matched(p)' <=> Matched(p)) /\ MatchedOnce'
    BY <1>3, <1>7, SameMatched
  <2>2. CASE LineThins
    <3>1. Thinner(new, old)
      BY <1>1, <2>2 DEF LineThins
    <3>2. (\A k \in 1..m : \E l \in 1..n : new[k] = old[l]) /\ Distinct(new)
      BY <1>2, <1>3, <3>1, ThinnerElements
    <3>3. ASSUME NEW k \in 1..m PROVE ~ Matched(new[k])'
      <4>1. PICK l \in 1..n : new[k] = old[l]
        BY <3>2
      <4>2. PICK p : p = new[k]
        OBVIOUS
      <4>3. ~ Matched(p)
        BY <1>3, <4>1, <4>2
      <4>4. ~ Matched(p)'
        BY <2>1, <4>3
      <4>. QED  BY <4>2, <4>4
    <3>4. ASSUME NEW c \in Joins, pc'[c] \in Early
          PROVE  ~ Matched(Caller[c])' /\ \A k \in 1..m : new[k] # Caller[c]
      <4>1. PICK p : p = Caller[c]
        OBVIOUS
      <4>2. ~ Matched(p) /\ \A k \in 1..n : old[k] # p
        BY <1>3, <1>4, <3>4, <4>1
      <4>3. ~ Matched(p)' /\ \A k \in 1..m : new[k] # p
        BY <2>1, <3>2, <4>2
      <4>. QED  BY <4>1, <4>3
    <3>. QED  BY <1>5, <2>1, <3>2, <3>3, <3>4
  <2>3. ASSUME NEW c \in Joins, JoinsLine(c) PROVE LineInv'
    <3>1. PICK p \in Players : p = Caller[c]
      BY CallFacts
    <3>2. new = Append(old, p)
      BY <1>1, <2>3, <3>1 DEF JoinsLine
    <3>3. /\ m = n + 1 /\ \A k \in 1..n : new[k] = old[k]
          /\ new[n + 1] = p
      BY <1>2, <3>2, AppendProperties
    <3>4. ~ Matched(p) /\ \A k \in 1..n : old[k] # p
      BY <1>3, <2>3, <3>1 DEF JoinsLine, Early
    <3>5. \A k \in 1..m : k \in 1..n \/ k = n + 1
      BY <3>3
    <3>6. Distinct(new)
      <4> SUFFICES ASSUME NEW k \in 1..m, NEW l \in 1..m, new[k] = new[l] PROVE k = l
        BY <1>2 DEF Distinct
      <4>. QED  BY <1>2, <1>3, <3>3, <3>4, <3>5 DEF Distinct
    <3>7. ASSUME NEW k \in 1..m PROVE ~ Matched(new[k])'
      <4>1. PICK x : x = new[k]
        OBVIOUS
      <4>2. ~ Matched(x)
        BY <1>3, <3>3, <3>4, <3>5, <4>1
      <4>3. ~ Matched(x)'
        BY <2>1, <4>2
      <4>. QED  BY <4>1, <4>3
    <3>8. ASSUME NEW d \in Joins, pc'[d] \in Early
          PROVE  ~ Matched(Caller[d])' /\ \A k \in 1..m : new[k] # Caller[d]
      <4>1. PICK x : x = Caller[d]
        OBVIOUS
      <4>2. d # c
        BY <2>3, <3>8 DEF JoinsLine
      <4>3. x # p
        BY <3>1, <4>1, <4>2 DEF OneJoinEach
      <4>4. ~ Matched(x) /\ \A k \in 1..n : old[k] # x
        BY <1>3, <1>4, <3>8, <4>1
      <4>5. ~ Matched(x)' /\ \A k \in 1..m : new[k] # x
        BY <2>1, <3>3, <3>5, <4>3, <4>4
      <4>. QED  BY <4>1, <4>5
    <3>. QED  BY <1>5, <2>1, <3>6, <3>7, <3>8
  <2>4. CASE \E c \in Joins : JoinsLine(c)
    BY <2>3, <2>4
  <2>. QED  BY <1>6, <1>7, <2>2, <2>4, MatchMade DEF LineStep
<1>8. CASE MakesMatch
  BY <1>6, <1>8, MatchMade
<1>. QED  BY <1>7, <1>8 DEF LineStep

(* It holds at first. *)
LEMMA LineInvInit == Init => TypeInv /\ LineInv
<1> SUFFICES ASSUME Init PROVE LineInv
  BY TypeInit
<1>1. TypeInv /\ rooms = <<>> /\ queue = <<>> /\ matcher.step = "idle"
  BY TypeInit, IdleFacts DEF Init
<1>2. DOMAIN rooms = {}
  <2>1. DOMAIN rooms = 1..0
    BY <1>1
  <2>. QED  BY <2>1
<1>3. Part(matcher, 1) = <<>> /\ Part(matcher, 2) = <<>>
  BY <1>1, PartsOf, MatcherFacts
<1>4. <<>> \o <<>> = <<>> /\ Len(<<>>) = 0
  BY ConcatEmptySeq, EmptySeq
<1>5. Line = <<>> 
  BY <1>1, <1>3, <1>4, LineParts, Zenon
<1>6. Len(Line) = 0 /\ 1..0 = {}
  BY <1>4, <1>5
<1>. QED  BY <1>2, <1>6 DEF LineInv, Free, Matched, MatchedOnce, Distinct

-----------------------------------------------------------------------------
(* When every player joins once, nobody is matched twice or with himself,   *)
(* for any number of players and servers, whoever leaves meanwhile and       *)
(* whichever commands of Redis fail: what the matcher pops, puts back or     *)
(* lets go is never at two places. *)
THEOREM NobodyIsMatchedTwice == ASSUME OneJoinEach PROVE Spec => []MatchedOnce
<1>1. TypeInv /\ LineInv /\ [Next]_vars => (TypeInv /\ LineInv)'
  BY TypeNext, LineNext, LineInvNext
<1>2. LineInv => MatchedOnce
  BY DEF LineInv
<1>. QED  BY <1>1, <1>2, LineInvInit, PTL DEF Spec

(* And nobody overtakes: of two players in the queue or in hand the first   *)
(* stays before the second, also when the matcher puts one back. *)
THEOREM OrderIsKept == ASSUME OneJoinEach PROVE Spec => NobodyOvertakes
<1>1. TypeInv /\ LineInv /\ [Next]_vars => (TypeInv /\ LineInv)'
  BY TypeNext, LineNext, LineInvNext
<1>2. ASSUME TypeInv, LineInv, TypeInv', [Next]_vars, NEW p \in Players, NEW q \in Players,
             Before(p, q, InHand \o queue), Before(q, p, (InHand \o queue)')
      PROVE  FALSE
  <2>1. PICK old \in Seq(Players), new \in Seq(Players) : old = Line /\ new = Line'
    <3>1. Line \in Seq(Players)
      BY <1>2, LineParts
    <3>2. (TypeInv => Line \in Seq(Players))'
      <4>1. TypeInv => Line \in Seq(Players)
        BY LineParts
      <4>. QED  BY LineParts, PTL
    <3>. QED  BY <1>2, <3>1, <3>2
  <2>2. Before(p, q, old) /\ Before(q, p, new)
    BY <1>2, <2>1 DEF Line
  <2>3. Distinct(old)
    BY <1>2, <2>1 DEF LineInv
  <2>4. CASE LineThins
    <3>1. Thinner(new, old)
      BY <2>1, <2>4 DEF LineThins
    <3>. QED  BY <2>2, <2>3, <3>1, ThinnerOrder
  <2>5. ASSUME NEW c \in Joins, JoinsLine(c) PROVE FALSE
    <3>1. PICK x \in Players : x = Caller[c]
      BY CallFacts
    <3>2. PICK n \in Nat : n = Len(old)
      BY LenProperties
    <3>3. new = Append(old, x)
      BY <2>1, <2>5, <3>1 DEF JoinsLine
    <3>4. Len(new) = n + 1 /\ (\A k \in 1..n : new[k] = old[k]) /\ new[n + 1] = x
      BY <3>2, <3>3, AppendProperties
    <3>5. \A k \in 1..n : old[k] # x
      BY <1>2, <2>1, <2>5, <3>1, <3>2 DEF LineInv, Free, JoinsLine, Early
    <3>6. DOMAIN old = 1..n /\ DOMAIN new = 1..n + 1
      BY <3>2, <3>4, LenProperties
    <3>7. PICK i \in 1..n, j \in 1..n : i < j /\ old[i] = p /\ old[j] = q
      BY <2>2, <3>6 DEF Before
    <3>8. PICK k \in 1..n + 1, l \in 1..n + 1 : k < l /\ new[k] = q /\ new[l] = p
      BY <2>2, <3>6 DEF Before
    <3>9. k # n + 1 /\ l # n + 1
      BY <3>4, <3>5, <3>7, <3>8
    <3>10. k \in 1..n /\ l \in 1..n /\ old[k] = q /\ old[l] = p
      BY <3>4, <3>8, <3>9
    <3>11. k = j /\ l = i
      BY <2>3, <3>2, <3>7, <3>10 DEF Distinct
    <3>. QED  BY <3>7, <3>8, <3>11
  <2>6. LineThins \/ \E c \in Joins : JoinsLine(c)
    BY <1>2, LineNext, MatchMade DEF LineStep
  <2>. QED  BY <2>4, <2>5, <2>6
<1>3. TypeInv /\ LineInv /\ TypeInv' /\ [Next]_vars =>
        [\A p, q \in Players :
           Before(p, q, InHand \o queue) => ~Before(q, p, (InHand \o queue)')]_vars
  BY <1>2
<1>. QED  BY <1>1, <1>3, LineInvInit, PTL DEF Spec, NobodyOvertakes

-----------------------------------------------------------------------------
(* Who may be missing: while Redis obeys, the matcher lets go only of those *)
(* who have asked to leave. *)
HasLeft(p) == \E d \in Leaves : Caller[d] = p /\ pc[d] # "idle"
Gone(p) == \A c \in Joins : Waits(c) /\ Caller[c] = p => HasLeft(p)
InLine(p) == \E k \in 1..Len(Line) : Line[k] = p

(* His details are stored, and a call of his has not yet come to remove     *)
(* them. *)
Stored(c) == Waits(c) \/ pc[c] \in {"cleaning", "pushing"}

(* The first of a match has lost his details, the second has not. *)
HandedOver(p) ==
  matcher.step = "settle" /\ IsMatch /\ matcher.i = 2 /\ matcher.popped[1] = p

(* The matcher has found no details of him. *)
Unknown(i) ==
  /\ i \notin matcher.known
  /\ matcher.step = "settle" \/ (matcher.step = "read" /\ i < matcher.i)

GoneInv ==
  /\ \A c \in Joins : pc[c] \in Early => \A i \in {1, 2} : matcher.popped[i] # Caller[c]
  /\ \A c \in Joins : Stored(c) =>
       HasLeft(Caller[c]) \/ Matched(Caller[c]) \/ Caller[c] \in details \/ HandedOver(Caller[c])
  /\ \A i \in {1, 2} : Unknown(i) => Gone(matcher.popped[i])
  /\ \A c \in Joins : Waits(c) =>
       HasLeft(Caller[c]) \/ Matched(Caller[c]) \/ InLine(Caller[c])

(* The line before and after a step, as lists. *)
LEMMA LineIsSeq ==
  ASSUME TypeInv, TypeInv'
  PROVE  /\ Line \in Seq(Players) /\ Line' \in Seq(Players)
         /\ Line = Hand(matcher) \o queue /\ Line' = Hand(matcher') \o queue'
         /\ Hand(matcher) \in Seq(Players) /\ Hand(matcher') \in Seq(Players)
         /\ queue \in Seq(Players) /\ queue' \in Seq(Players)
<1>1. (TypeInv => /\ Line = Part(matcher, 1) \o (Part(matcher, 2) \o queue)
                  /\ Line = Hand(matcher) \o queue /\ Line \in Seq(Players) /\ queue \in Seq(Players)
                  /\ matcher \in Matchers)'
  BY LineParts, PTL
<1>. QED  BY <1>1, LineParts, HandTyped

(* The line consists of the hand and the queue. *)
LEMMA InLineSplit ==
  ASSUME TypeInv, TypeInv'
  PROVE  /\ \A p : InLine(p) <=> p \in Range(Hand(matcher)) \/ p \in Range(queue)
         /\ \A p : InLine(p)' <=> p \in Range(Hand(matcher')) \/ p \in Range(queue')
<1>1. ASSUME NEW a \in Seq(Players), NEW b \in Seq(Players), NEW p
      PROVE  (\E k \in 1..Len(a \o b) : (a \o b)[k] = p) <=> p \in Range(a) \/ p \in Range(b)
  <2>1. a \o b \in Seq(Players) /\ Range(a \o b) = Range(a) \cup Range(b)
    BY ConcatProperties, RangeConcatenation
  <2>2. Range(a \o b) = {(a \o b)[i] : i \in 1..Len(a \o b)}
    BY <2>1, RangeEquality
  <2>. QED  BY <2>1, <2>2
<1>2. ASSUME NEW p PROVE InLine(p) <=> p \in Range(Hand(matcher)) \/ p \in Range(queue)
  <2>1. PICK a \in Seq(Players), b \in Seq(Players) : a = Hand(matcher) /\ b = queue
    BY LineIsSeq
  <2>2. Line = a \o b
    BY <2>1, LineIsSeq
  <2>3. (\E k \in 1..Len(a \o b) : (a \o b)[k] = p) <=> p \in Range(a) \/ p \in Range(b)
    BY <1>1
  <2>. QED  BY <2>1, <2>2, <2>3 DEF InLine
<1>3. ASSUME NEW p PROVE InLine(p)' <=> p \in Range(Hand(matcher')) \/ p \in Range(queue')
  <2>1. PICK a \in Seq(Players), b \in Seq(Players) : a = Hand(matcher') /\ b = queue'
    BY LineIsSeq
  <2>2. Line' = a \o b
    BY <2>1, LineIsSeq
  <2>3. (\E k \in 1..Len(a \o b) : (a \o b)[k] = p) <=> p \in Range(a) \/ p \in Range(b)
    BY <1>1
  <2>. QED  BY <2>1, <2>2, <2>3 DEF InLine
<1>. QED  BY <1>2, <1>3

(* Those in hand. *)
LEMMA HandRange ==
  ASSUME NEW m \in Matchers, NEW p
  PROVE  p \in Range(Hand(m)) <=> \E i \in {1, 2} : i \in HeldBy(m) /\ m.popped[i] = p /\ p # None
<1>1. Part(m, 1) \in Seq(Players) /\ Part(m, 2) \in Seq(Players)
  BY HandTyped
<1>2. Range(Hand(m)) = Range(Part(m, 1)) \cup Range(Part(m, 2))
  BY <1>1, RangeConcatenation DEF Hand
<1>3. ASSUME NEW x PROVE Range(<<x>>) = {x}
  <2>1. DOMAIN <<x>> = {1} /\ <<x>>[1] = x
    OBVIOUS
  <2>. QED  BY <2>1 DEF Range
<1>4. Range(<<>>) = {}
  BY DEF Range
<1>5. ASSUME NEW i \in {1, 2}
      PROVE  p \in Range(Part(m, i)) <=> i \in HeldBy(m) /\ m.popped[i] = p /\ p # None
  BY <1>3, <1>4 DEF Part, One
<1>. QED  BY <1>2, <1>5

(* A player stays in the queue until it is his place that is dropped. *)
LEMMA QueueKeeps ==
  ASSUME TypeInv, NEW p, NEW x \in Players, p \in Range(queue)
  PROVE  /\ p \in Range(Append(queue, x))
         /\ p # x => p \in Range(Without(x))
<1>1. queue \in Seq(Players)
  BY DEF TypeInv
<1>2. PICK k \in 1..Len(queue) : queue[k] = p
  BY <1>1, RangeEquality
<1>3. p \in Range(Append(queue, x))
  <2>1. Append(queue, x) \in Seq(Players) /\ Len(Append(queue, x)) = Len(queue) + 1
        /\ Append(queue, x)[k] = p /\ Len(queue) \in Nat
    BY <1>1, <1>2, AppendProperties, LenProperties
  <2>2. k \in 1..Len(Append(queue, x))
    BY <2>1
  <2>. QED  BY <2>1, <2>2, RangeEquality
<1>4. ASSUME p # x PROVE p \in Range(Without(x))
  <2> DEFINE K == {i \in 1..Len(queue) : queue[i] # x}
  <2>1. K \in SUBSET (1..Len(queue)) /\ Without(x) = Picked(queue, K) /\ k \in K
    BY <1>2, <1>4 DEF Without, Filtered
  <2> HIDE DEF K
  <2>2. PICK j \in 1..Len(Without(x)) : Without(x)[j] = queue[k]
    <3>1. \A i \in K : \E j \in 1..Len(Picked(queue, K)) : Picked(queue, K)[j] = queue[i]
      BY <1>1, <2>1, PickedElements, Zenon
    <3>. QED  BY <2>1, <3>1
  <2>3. Without(x) \in Seq(Players)
    BY WithoutFacts
  <2>. QED  BY <1>2, <2>2, <2>3, RangeEquality
<1>. QED  BY <1>3, <1>4

(* A step of a call keeps track of those who are missing. *)
LEMMA GoneCalls ==
  ASSUME ~ RedisMayFail, OneJoinEach, TypeInv, TypeInv', LineInv, GoneInv, NEW c \in Calls,
         \/ c \in Joins /\ (\/ Check(c) \/ Enqueue(c) \/ EnqueueFails(c) \/ Look(c) \/ Tell(c)
                            \/ Cancel(c) \/ Unregister(c))
         \/ Dequeue(c) \/ DequeueFails(c)
  PROVE  GoneInv'
<1> DEFINE p == Caller[c]
           WaitedOrPushed == /\ pc[c] \in Early => pc[c] = "pushing" /\ queue' = Append(queue, p)
                             /\ pc[c] \notin Early => Waits(c) /\ queue' = queue
<1>1. UNCHANGED <<matcher, rooms>>
  BY DEF Check, Enqueue, Register, Store, Clean, Push, EnqueueFails, Look, Tell, Cancel, Unregister,
         Dequeue, DropDetails, DropPlace, DequeueFails, matching
<1>2. \A q : Matched(q)' <=> Matched(q)
  BY <1>1, SameMatched DEF SameMatches
<1>3. PICK x \in Labels \ {"idle"} :
        /\ Goto(c, x)
        /\ details \ {p} \subseteq details'
        /\ queue' \in {queue, Without(p), Append(queue, p)}
        /\ c \in Joins =>
             /\ x \in Early => pc[c] \in Early
             /\ x \in {"cleaning", "pushing", "waiting", "expecting"} => p \in details' \/ (Stored(c) /\ details' = details)
             /\ x \in {"waiting", "expecting"} => WaitedOrPushed
  <2>1. CASE c \in Joins /\ (Check(c) \/ Look(c) \/ Tell(c) \/ Cancel(c) \/ Unregister(c))
    BY <2>1 DEF Check, Look, Tell, Cancel, Unregister, Early, Labels, redis, Stored, Waits
  <2>2. CASE c \in Joins /\ (Register(c) \/ Store(c) \/ Clean(c) \/ Push(c))
    BY <2>2 DEF Register, Store, Clean, Push, Early, Labels, redis, Stored, Waits
  <2>3. CASE DropDetails(c)
    BY <2>3 DEF DropDetails, Early, Labels, redis
  <2>4. CASE DropPlace(c)
    BY <2>4 DEF DropPlace, Early, Labels, redis
  <2>. QED  BY <2>1, <2>2, <2>3, <2>4 DEF Enqueue, Dequeue, EnqueueFails, DequeueFails
<1> HIDE DEF WaitedOrPushed
<1>4. pc' = [pc EXCEPT ![c] = x] /\ pc \in [Calls -> Labels] /\ p \in Players
  BY <1>3, CallFacts DEF Goto, TypeInv
<1>5. ASSUME NEW q PROVE HasLeft(q) => HasLeft(q)'
  BY <1>4 DEF HasLeft, Calls
<1>6. c \notin Joins => HasLeft(p)'
  BY <1>4 DEF HasLeft, Calls
<1>7. ASSUME NEW d \in Joins, d # c
      PROVE  /\ pc'[d] = pc[d]
             /\ Caller[d] \in details => Caller[d] \in details' \/ HasLeft(Caller[d])'
             /\ InLine(Caller[d]) => InLine(Caller[d])' \/ HasLeft(Caller[d])'
  <2>1. pc'[d] = pc[d]
    BY <1>4, <1>7, CallFacts
  <2>2. CASE Caller[d] = p
    <3>1. c \notin Joins
      BY <1>7, <2>2 DEF OneJoinEach
    <3>. QED  BY <1>6, <2>1, <2>2, <3>1 DEF HasLeft
  <2>3. CASE Caller[d] # p
    <3>1. PICK q : q = Caller[d]
      OBVIOUS
    <3>2. q \in Range(queue) => q \in Range(queue')
      BY <1>3, <1>4, <2>3, <3>1, QueueKeeps
    <3>3. InLine(q) => InLine(q)'
      BY <1>1, <3>2, InLineSplit
    <3>4. InLine(Caller[d]) => InLine(Caller[d])'
      BY <3>1, <3>3 DEF InLine
    <3>. QED  BY <1>3, <2>1, <2>3, <3>4
  <2>. QED  BY <2>2, <2>3
<1>8. \A d \in Joins : pc'[d] \in Early => pc[d] \in Early
  BY <1>3, <1>4, <1>7
<1>9. ASSUME NEW d \in Joins, pc'[d] \in Early, NEW i \in {1, 2} PROVE matcher'.popped[i] # Caller[d]
  BY <1>1, <1>8, <1>9 DEF GoneInv
<1>10. ASSUME NEW d \in Joins, Stored(d)'
       PROVE  \/ HasLeft(Caller[d])' \/ Matched(Caller[d])' \/ Caller[d] \in details'
              \/ HandedOver(Caller[d])'
  <2>1. PICK q : q = Caller[d]
    OBVIOUS
  <2>2. HandedOver(q) => HandedOver(q)'
    BY <1>1 DEF HandedOver, IsMatch
  <2>3. ASSUME Stored(d), q \in details => q \in details' \/ HasLeft(q)'
        PROVE  HasLeft(q)' \/ Matched(q)' \/ q \in details' \/ HandedOver(q)'
    BY <1>2, <1>5, <2>1, <2>2, <2>3 DEF GoneInv
  <2>4. CASE d # c
    <3>1. Stored(d)
      BY <1>7, <1>10, <2>4 DEF Stored, Waits
    <3>2. q \in details => q \in details' \/ HasLeft(q)'
      BY <1>7, <2>1, <2>4 DEF HasLeft
    <3>3. HasLeft(q)' \/ Matched(q)' \/ q \in details' \/ HandedOver(q)'
      BY <2>3, <3>1, <3>2
    <3>. QED  BY <2>1, <3>3 DEF HasLeft, Matched, HandedOver
  <2>5. CASE d = c
    <3>1. x \in {"cleaning", "pushing", "waiting", "expecting"}
      BY <1>4, <1>10, <2>5 DEF Stored, Waits
    <3>2. q \in details' \/ (Stored(d) /\ details' = details)
      BY <1>3, <2>1, <2>5, <3>1
    <3>3. HasLeft(q)' \/ Matched(q)' \/ q \in details' \/ HandedOver(q)'
      BY <2>3, <3>2
    <3>. QED  BY <2>1, <3>3 DEF HasLeft, Matched, HandedOver
  <2>. QED  BY <2>4, <2>5
<1>11. ASSUME NEW i \in {1, 2}, Unknown(i)' PROVE Gone(matcher.popped[i])'
  <2>1. PICK q : q = matcher.popped[i] /\ q = matcher'.popped[i]
    BY <1>1
  <2>2. Gone(q)
    BY <1>1, <1>11, <2>1 DEF GoneInv, Unknown
  <2>3. ASSUME NEW d \in Joins, Waits(d)', Caller[d] = q PROVE HasLeft(q)'
    <3>1. CASE Waits(d)
      BY <1>5, <2>2, <2>3, <3>1 DEF Gone
    <3>2. CASE ~ Waits(d)
      <4>1. d = c /\ x \in {"waiting", "expecting"}
        BY <1>4, <1>7, <2>3, <3>2 DEF Waits
      <4>2. pc[c] \in Early
        BY <1>3, <2>3, <3>2, <4>1 DEF WaitedOrPushed
      <4>. QED  BY <2>1, <2>3, <4>1, <4>2 DEF GoneInv
    <3>. QED  BY <3>1, <3>2
  <2>4. Gone(q)'
    BY <2>3 DEF Gone
  <2>. QED  BY <2>1, <2>4 DEF Gone, HasLeft
<1>12. ASSUME NEW d \in Joins, Waits(d)'
       PROVE  HasLeft(Caller[d])' \/ Matched(Caller[d])' \/ InLine(Caller[d])'
  <2>1. PICK q : q = Caller[d]
    OBVIOUS
  <2>2. ASSUME Waits(d), InLine(q) => InLine(q)' \/ HasLeft(q)'
        PROVE  HasLeft(q)' \/ Matched(q)' \/ InLine(q)'
    BY <1>2, <1>5, <2>1, <2>2 DEF GoneInv
  <2>3. CASE d # c
    <3>1. Waits(d)
      BY <1>7, <1>12, <2>3 DEF Waits
    <3>2. InLine(q) => InLine(q)' \/ HasLeft(q)'
      BY <1>7, <2>1, <2>3 DEF InLine, HasLeft
    <3>3. HasLeft(q)' \/ Matched(q)' \/ InLine(q)'
      BY <2>2, <3>1, <3>2
    <3>. QED  BY <2>1, <3>3 DEF HasLeft, Matched, InLine
  <2>4. CASE d = c
    <3>1. x \in {"waiting", "expecting"} /\ q = p
      BY <1>4, <1>12, <2>1, <2>4 DEF Waits
    <3>2. CASE pc[c] \in Early
      <4>1. queue' = Append(queue, p)
        BY <1>3, <2>4, <3>1, <3>2 DEF WaitedOrPushed
      <4>2. queue \in Seq(Players)
        BY DEF TypeInv
      <4>3. Append(queue, p) \in Seq(Players) /\ Append(queue, p)[Len(queue) + 1] = p
            /\ Len(Append(queue, p)) = Len(queue) + 1 /\ Len(queue) \in Nat
        BY <1>4, <4>2, AppendProperties, LenProperties
      <4>4. p \in Range(queue')
        <5>1. Len(queue) + 1 \in 1..Len(Append(queue, p))
          BY <4>3
        <5>. QED  BY <4>1, <4>3, <5>1, RangeEquality
      <4>5. InLine(q)'
        BY <3>1, <4>4, InLineSplit
      <4>. QED  BY <2>1, <4>5 DEF InLine
    <3>3. CASE pc[c] \notin Early
      <4>1. Waits(d) /\ queue' = queue
        BY <1>3, <2>4, <3>1, <3>3 DEF WaitedOrPushed
      <4>2. InLine(q) => InLine(q)'
        BY <1>1, <4>1, InLineSplit
      <4>3. HasLeft(q)' \/ Matched(q)' \/ InLine(q)'
        BY <2>2, <4>1, <4>2
      <4>. QED  BY <2>1, <4>3 DEF HasLeft, Matched, InLine
    <3>. QED  BY <3>2, <3>3
  <2>. QED  BY <2>3, <2>4
<1>. QED  BY <1>9, <1>10, <1>11, <1>12 DEF GoneInv

(* A match is handed over, and both its players are matched. *)
LEMMA MatchedAfter ==
  ASSUME TypeInv, TypeInv', SameMatches \/ MakesMatch
  PROVE  /\ \A p : Matched(p) => Matched(p)'
         /\ MakesMatch => \A i \in {1, 2} : \A p : p = matcher.popped[i] => Matched(p)'
<1>1. CASE SameMatches
  <2>1. ~ MakesMatch
    <3>1. rooms \in Seq(Matches)
      BY DEF TypeInv
    <3>2. PICK n \in Nat : n = Len(rooms)
      BY <3>1, LenProperties
    <3>3. ASSUME MakesMatch PROVE Len(rooms') = n + 1
      BY <3>1, <3>2, <3>3, AppendProperties DEF MakesMatch
    <3>. QED  BY <1>1, <3>2, <3>3 DEF SameMatches
  <2>2. \A p : Matched(p) => Matched(p)'
    <3>1. \A r \in DOMAIN rooms : r \in DOMAIN rooms' /\ rooms'[r].players = rooms[r].players
      BY <1>1, LenProperties DEF SameMatches, TypeInv
    <3>. QED  BY <3>1 DEF Matched
  <2>. QED  BY <2>1, <2>2
<1>2. CASE MakesMatch
  <2>1. rooms \in Seq(Matches) /\ rooms' \in Seq(Matches)
    BY DEF TypeInv
  <2>2. PICK room \in Matches : room = NewRoom /\ rooms' = Append(rooms, room)
    BY <1>2 DEF MakesMatch
  <2>3. PICK n \in Nat : n = Len(rooms) /\ DOMAIN rooms = 1..n
    BY <2>1, LenProperties
  <2>4. (\A r \in 1..n : rooms'[r] = rooms[r]) /\ rooms'[n + 1] = room /\ Len(rooms') = n + 1
    BY <2>1, <2>2, <2>3, AppendProperties
  <2>5. DOMAIN rooms' = 1..n + 1
    BY <2>1, <2>4, LenProperties
  <2>6. room.players = matcher.popped
    BY <2>2 DEF NewRoom
  <2>7. ASSUME NEW p, Matched(p) PROVE Matched(p)'
    BY <2>3, <2>4, <2>5, <2>7 DEF Matched
  <2>8. ASSUME NEW i \in {1, 2}, NEW p, p = matcher.popped[i] PROVE Matched(p)'
    <3>1. n + 1 \in DOMAIN rooms' /\ rooms'[n + 1].players[i] = p
      BY <2>4, <2>5, <2>6, <2>8
    <3>. QED  BY <3>1 DEF Matched
  <2>. QED  BY <2>7, <2>8
<1>. QED  BY <1>1, <1>2

(* Whom Read drops he has found no details of. *)
LEMMA ReadLoses ==
  ASSUME TypeInv, TypeInv', Read, NEW p, InLine(p), ~ InLine(p)'
  PROVE  \E i \in {1, 2} : matcher.popped[i] = p /\ Unknown(i)'
<1>1. /\ matcher.step = "read" /\ queue' = queue
      /\ matcher'.step \in {"read", "settle"} /\ matcher'.popped = matcher.popped
      /\ matcher'.i \in {1, 2} /\ matcher'.known \in SUBSET {1, 2}
      /\ matcher'.step = "settle" => matcher'.i = 1
  BY MatcherFacts DEF Read, redis
<1>2. PICK i \in {1, 2} : matcher.popped[i] = p /\ p # None
  <2>1. p \in Range(Hand(matcher))
    BY <1>1, InLineSplit
  <2>. QED  BY <2>1, HandRange DEF TypeInv
<1>3. i \notin HeldBy(matcher')
  <2>1. p \notin Range(Hand(matcher'))
    BY InLineSplit
  <2>2. matcher' \in Matchers
    BY DEF TypeInv
  <2>. QED  BY <1>1, <1>2, <2>1, <2>2, HandRange
<1>4. i \in 1..2
  OBVIOUS
<1>5. matcher'.step = "settle" /\ i \notin matcher'.known
  <2>1. CASE matcher'.step = "read"
    BY <1>3, <1>4, <2>1 DEF HeldBy
  <2>2. CASE matcher'.step = "settle"
    BY <1>1, <1>3, <1>4, <2>2 DEF HeldBy
  <2>. QED  BY <1>1, <2>1, <2>2
<1>. QED  BY <1>1, <1>2, <1>5 DEF Unknown

(* The players popped are of the line, or were popped before. *)
LEMMA PoppedAfter ==
  ASSUME TypeInv, TypeInv',
         (\E s \in Servers : TakeLock(s) \/ MissLock(s)) \/ TryMatch \/ TryMatchFails
  PROVE  \A i \in {1, 2} : \/ matcher'.popped[i] = matcher.popped[i] \/ matcher'.popped[i] = None
                           \/ InLine(matcher'.popped[i])
<1>1. CASE Pop
  <2> DEFINE p == IF queue = <<>> THEN None ELSE Head(queue)
  <2>1. \A i \in {1, 2} : matcher'.popped[i] = matcher.popped[i] \/ matcher'.popped[i] = p
    BY <1>1, MatcherFacts DEF Pop
  <2>2. p = None \/ InLine(p)
    <3>1. CASE queue # <<>>
      <4>1. queue \in Seq(Players)
        BY DEF TypeInv
      <4>2. 1 \in 1..Len(queue) /\ Head(queue) = queue[1]
        BY <3>1, <4>1, EmptySeq
      <4>3. p \in Range(queue)
        BY <3>1, <4>1, <4>2, RangeEquality
      <4> HIDE DEF p
      <4>. QED  BY <4>3, InLineSplit
    <3>. QED  BY <3>1
  <2> HIDE DEF p
  <2>. QED  BY <2>1, <2>2
<1>2. CASE matcher'.popped = matcher.popped
  BY <1>2
<1>3. CASE matcher'.popped = Idle.popped
  BY <1>3, IdleFacts
<1>4. (matcher'.popped = Idle.popped \/ matcher'.popped = matcher.popped) \/ Pop
  <2>1. ASSUME NEW label, Step(label) PROVE matcher'.popped = matcher.popped
    BY <2>1, MatcherFacts DEF Step
  <2>2. ASSUME NEW s \in Servers, TakeLock(s) \/ MissLock(s)
        PROVE  matcher'.popped = Idle.popped \/ matcher'.popped = matcher.popped
    BY <2>2, IdleFacts DEF TakeLock, MissLock, Matchers
  <2>3. CASE Read \/ Settle
    BY <2>3, MatcherFacts DEF Read, Settle, SettleNext
  <2>4. CASE Release
    BY <2>4 DEF Release
  <2>5. CASE Count \/ Return \/ TryMatchFails
    BY <2>1, <2>5 DEF Count, Return, TryMatchFails
  <2>. QED  BY <2>2, <2>3, <2>4, <2>5 DEF TryMatch
<1>. QED  BY <1>1, <1>2, <1>3, <1>4

(* So does an attempt to match. *)
LEMMA GoneMatching ==
  ASSUME ~ RedisMayFail, TypeInv, TypeInv', LineInv, GoneInv,
         (\E s \in Servers : TakeLock(s) \/ MissLock(s)) \/ TryMatch \/ TryMatchFails
  PROVE  GoneInv'
<1>1. UNCHANGED pc /\ ~ TryMatchFails
  BY MatchingLine DEF TryMatchFails
<1>2. /\ \/ Line' = Line /\ SameMatches
         \/ Read /\ LineThins /\ SameMatches
         \/ MakesMatch
  BY <1>1, MatchingLine
<1>3. \A q : Matched(q) => Matched(q)'
  BY <1>2, MatchedAfter
<1>4. \A q : (HasLeft(q)' <=> HasLeft(q)) /\ (Gone(q)' <=> Gone(q))
  BY <1>1 DEF HasLeft, Gone, Waits
<1>5. ASSUME NEW d \in Joins, pc'[d] \in Early, NEW i \in {1, 2} PROVE matcher'.popped[i] # Caller[d]
  <2>1. pc[d] \in Early
    BY <1>1, <1>5
  <2>2. PICK p : p = Caller[d]
    OBVIOUS
  <2>3. matcher.popped[i] # p /\ ~ InLine(p) /\ p # None
    BY <2>1, <2>2, CallFacts DEF GoneInv, LineInv, Free, InLine
  <2>. QED  BY <2>2, <2>3, PoppedAfter
<1>6. ASSUME Settle, NEW p, p \in details, p \notin details'
      PROVE  p = matcher.popped[matcher.i] /\ (IsMatch \/ matcher.i \notin matcher.known)
  BY <1>6 DEF Settle, SettlePlayer
<1>7. details' = details \/ Settle
  BY <1>1 DEF TakeLock, MissLock, TryMatch, Count, Pop, Return, Read, Release, redis
<1>8. Settle /\ IsMatch /\ matcher.i = 2 => MakesMatch
  <2> SUFFICES ASSUME Settle, IsMatch, matcher.i = 2, SameMatches PROVE MakesMatch
    BY <1>2
  <2>1. rooms' = Append(rooms, NewRoom)
    BY DEF Settle, SettleNext
  <2>2. rooms \in Seq(Matches) /\ NewRoom \in Matches
    <3>1. matcher.popped \in [{1, 2} -> Players]
      BY MatcherFacts DEF TypeInv, Settle
    <3>. QED  BY <3>1, MatcherFacts DEF NewRoom, Matches, States, TypeInv
  <2>3. PICK n \in Nat : n = Len(rooms)
    BY <2>2, LenProperties
  <2>4. PICK room \in Matches : room = NewRoom
    BY <2>2
  <2>5. Len(rooms') = n + 1
    BY <2>1, <2>2, <2>3, <2>4, AppendProperties
  <2>. QED  BY <2>3, <2>5 DEF SameMatches
<1>9. ASSUME NEW q, HandedOver(q) PROVE HandedOver(q)' \/ Matched(q)'
  <2>1. matcher.step = "settle" /\ IsMatch /\ matcher.i = 2 /\ matcher.popped[1] = q
    BY <1>9 DEF HandedOver
  <2>2. CASE matcher' = matcher
    BY <1>9, <2>2 DEF HandedOver, IsMatch
  <2>3. CASE Settle
    BY <1>8, <2>1, <2>3, MatchedAfter, <1>2
  <2>. QED  BY <1>1, <2>1, <2>2, <2>3 DEF TakeLock, MissLock, TryMatch, Count, Pop, Return, Read, Release
<1>10. ASSUME NEW d \in Joins, Stored(d)'
       PROVE  \/ HasLeft(Caller[d])' \/ Matched(Caller[d])' \/ Caller[d] \in details'
              \/ HandedOver(Caller[d])'
  <2>1. PICK q : q = Caller[d]
    OBVIOUS
  <2>2. Stored(d)
    BY <1>1, <1>10 DEF Stored, Waits
  <2>3. HasLeft(q) \/ Matched(q) \/ q \in details \/ HandedOver(q)
    BY <2>1, <2>2 DEF GoneInv
  <2>4. ASSUME q \in details, q \notin details'
        PROVE  HasLeft(q)' \/ Matched(q)' \/ HandedOver(q)'
    <3>1. Settle /\ q = matcher.popped[matcher.i] /\ (IsMatch \/ matcher.i \notin matcher.known)
      BY <1>6, <1>7, <2>4
    <3>2. matcher.step = "settle" /\ matcher.i \in {1, 2}
      BY <3>1, MatcherFacts DEF Settle
    <3>3. CASE IsMatch /\ matcher.i = 2
      BY <1>2, <1>8, <3>1, <3>3, MatchedAfter
    <3>4. CASE IsMatch /\ matcher.i = 1
      <4>1. /\ matcher'.step = "settle" /\ matcher'.i = 2 /\ matcher'.known = matcher.known
            /\ matcher'.popped = matcher.popped
        BY <3>1, <3>4, MatcherFacts DEF Settle, SettleNext
      <4>. QED  BY <3>1, <3>4, <4>1 DEF HandedOver, IsMatch
    <3>5. CASE matcher.i \notin matcher.known
      <4>1. Gone(q)
        BY <3>1, <3>2, <3>5 DEF GoneInv, Unknown
      <4>2. pc[d] \notin Early
        BY <2>1, <3>1, <3>2 DEF GoneInv
      <4>3. Waits(d)
        BY <2>2, <4>2 DEF Stored, Early
      <4>. QED  BY <1>4, <2>1, <4>1, <4>3 DEF Gone
    <3>. QED  BY <3>1, <3>2, <3>3, <3>4, <3>5
  <2>5. HasLeft(q)' \/ Matched(q)' \/ q \in details' \/ HandedOver(q)'
    BY <1>3, <1>4, <1>9, <2>3, <2>4
  <2>. QED  BY <2>1, <2>5 DEF HasLeft, Matched, HandedOver
<1>11. ASSUME NEW i \in {1, 2}, Unknown(i)', NEW q, q = matcher'.popped[i] PROVE Gone(q)
  <2>1. CASE Read
    <3>1. /\ matcher.step = "read" /\ matcher'.popped = matcher.popped
          /\ matcher'.i = 3 - matcher.i
          /\ matcher'.step = IF matcher.i = 1 THEN "read" ELSE "settle"
          /\ matcher'.known = IF matcher.popped[matcher.i] \in details
                              THEN matcher.known \cup {matcher.i} ELSE matcher.known
      BY <2>1, MatcherFacts DEF Read
    <3>2. i \notin matcher.known /\ matcher.i \in {1, 2}
      BY <1>11, <3>1, MatcherFacts DEF Unknown
    <3>3. CASE i < matcher.i
      BY <1>11, <3>1, <3>2, <3>3 DEF GoneInv, Unknown
    <3>4. CASE i = matcher.i
      <4>1. q \notin details
        BY <1>11, <3>1, <3>4 DEF Unknown
      <4>2. ~ HandedOver(q)
        BY <3>1 DEF HandedOver
      <4>3. ~ Matched(q)
        <5>1. i \in HeldBy(matcher)
          BY <3>1 DEF HeldBy
        <5>2. q # None
          BY <1>11, <3>1 DEF TypeInv
        <5>3. q \in Range(Hand(matcher))
          BY <1>11, <3>1, <5>1, <5>2, HandRange DEF TypeInv
        <5>4. InLine(q)
          BY <5>3, InLineSplit
        <5>. QED  BY <5>4 DEF InLine, LineInv
      <4>4. ASSUME NEW d \in Joins, Waits(d), Caller[d] = q PROVE HasLeft(q)
        BY <4>1, <4>2, <4>3, <4>4 DEF GoneInv, Stored
      <4>. QED  BY <4>4 DEF Gone
    <3>5. CASE i > matcher.i
      <4>1. i = 2 /\ matcher.i = 1
        BY <3>2, <3>5
      <4>. QED  BY <1>11, <3>1, <4>1 DEF Unknown
    <3>. QED  BY <3>2, <3>3, <3>4, <3>5
  <2>2. CASE Settle
    <3>1. /\ matcher.step = "settle" /\ matcher'.popped = matcher.popped /\ matcher'.known = matcher.known
      BY <2>2, MatcherFacts DEF Settle, SettleNext
    <3>. QED  BY <1>11, <3>1 DEF GoneInv, Unknown
  <2>3. CASE matcher' = matcher
    BY <1>11, <2>3 DEF GoneInv, Unknown
  <2>4. CASE \/ (\E s \in Servers : TakeLock(s)) \/ Count \/ Return \/ Release
    <3>1. matcher'.step \in {"count", "release", "pop", "idle"}
      BY <2>4, MatcherFacts, IdleFacts DEF TakeLock, Count, Return, Release, Step, Matchers
    <3>. QED  BY <1>11, <3>1 DEF Unknown
  <2>5. CASE Pop
    <3>1. matcher'.i = 3 - matcher.i /\ (matcher.i = 1 => matcher'.step = "pop")
          /\ matcher'.step \in {"pop", "return", "read"}
      BY <2>5, MatcherFacts DEF Pop
    <3>2. matcher'.step = "read" /\ i < matcher'.i
      BY <1>11, <3>1 DEF Unknown
    <3>3. matcher.i = 2 /\ matcher'.i = 1
      BY <3>1, <3>2, MatcherFacts
    <3>. QED  BY <3>2, <3>3
  <2>. QED  BY <1>1, <2>1, <2>2, <2>3, <2>4, <2>5 DEF TryMatch, MissLock
<1>12. ASSUME NEW d \in Joins, Waits(d)'
       PROVE  HasLeft(Caller[d])' \/ Matched(Caller[d])' \/ InLine(Caller[d])'
  <2>1. PICK q : q = Caller[d]
    OBVIOUS
  <2>2. Waits(d)
    BY <1>1, <1>12 DEF Waits
  <2>3. HasLeft(q) \/ Matched(q) \/ InLine(q)
    BY <2>1, <2>2 DEF GoneInv
  <2>4. ASSUME InLine(q), ~ InLine(q)' PROVE HasLeft(q)' \/ Matched(q)'
    <3>1. CASE Line' = Line
      BY <2>4, <3>1 DEF InLine
    <3>2. CASE Read
      <4>1. PICK i \in {1, 2} : matcher.popped[i] = q /\ Unknown(i)'
        BY <2>4, <3>2, ReadLoses
      <4>2. matcher'.popped = matcher.popped
        BY <3>2, MatcherFacts DEF Read
      <4>3. Gone(q)
        BY <1>11, <4>1, <4>2
      <4>. QED  BY <1>4, <2>1, <2>2, <4>3 DEF Gone
    <3>3. CASE MakesMatch
      <4>1. Line = matcher.popped \o queue /\ Line' = queue
        BY <3>3 DEF MakesMatch
      <4>2. PICK both \in Seq(Players) : both = matcher.popped /\ Len(both) = 2
        <5>1. matcher.popped \in [{1, 2} -> Players]
          BY <3>3, MatcherFacts DEF MakesMatch, TypeInv
        <5>. QED  BY <5>1, PairIsSeq
      <4>3. queue \in Seq(Players)
        BY DEF TypeInv
      <4>4. Range(both \o queue) = Range(both) \cup Range(queue)
        BY <4>2, <4>3, RangeConcatenation
      <4>5. q \in Range(Line) /\ q \notin Range(Line')
        <5>1. Line \in Seq(Players) /\ Line' \in Seq(Players)
          BY LineIsSeq
        <5>2. Range(Line) = {Line[k] : k \in 1..Len(Line)}
          BY <5>1, RangeEquality
        <5>3. Range(Line') = {Line'[k] : k \in 1..Len(Line')}
          BY <5>1, RangeEquality
        <5>. QED  BY <2>4, <5>2, <5>3 DEF InLine
      <4>6. q \in Range(both)
        <5>1. Range(Line) = Range(both) \cup Range(queue)
          BY <4>1, <4>2, <4>4, Zenon
        <5>2. Range(Line') = Range(queue)
          BY <4>1, Zenon
        <5>. QED  BY <4>5, <5>1, <5>2, Zenon
      <4>7. PICK i \in 1..2 : both[i] = q
        BY <4>2, <4>6, RangeEquality
      <4>8. i \in {1, 2} /\ q = matcher.popped[i]
        BY <4>2, <4>7
      <4>. QED  BY <3>3, <4>8, MatchedAfter
    <3>. QED  BY <1>2, <3>1, <3>2, <3>3
  <2>5. HasLeft(q)' \/ Matched(q)' \/ InLine(q)'
    BY <1>3, <1>4, <2>3, <2>4
  <2>. QED  BY <2>1, <2>5 DEF HasLeft, Matched, InLine
<1>13. ASSUME NEW i \in {1, 2}, Unknown(i)' PROVE Gone(matcher.popped[i])'
  <2>1. PICK q : q = matcher'.popped[i]
    OBVIOUS
  <2>2. Gone(q)'
    BY <1>4, <1>11, <1>13, <2>1
  <2>. QED  BY <2>1, <2>2 DEF Gone, HasLeft
<1>. QED  BY <1>5, <1>10, <1>12, <1>13 DEF GoneInv

(* Nothing of this changes while players are told of a match. *)
LEMMA GoneSame ==
  ASSUME TypeInv, TypeInv', GoneInv, UNCHANGED <<redis, matcher, pc>>, SameMatches
  PROVE  GoneInv'
<1>1. \A q : Matched(q) => Matched(q)'
  BY MatchedAfter
<1>2. \A q : HasLeft(q) => HasLeft(q)'
  BY DEF HasLeft
<1>3. \A q : InLine(q) => InLine(q)'
  BY InLineSplit DEF redis
<1>4. \A q : HandedOver(q) => HandedOver(q)'
  BY DEF HandedOver, IsMatch
<1>5. ASSUME NEW d \in Joins
      PROVE  /\ pc'[d] \in Early => \A i \in {1, 2} : matcher'.popped[i] # Caller[d]
             /\ Stored(d)' => \/ HasLeft(Caller[d])' \/ Matched(Caller[d])'
                              \/ Caller[d] \in details' \/ HandedOver(Caller[d])'
             /\ Waits(d)' => HasLeft(Caller[d])' \/ Matched(Caller[d])' \/ InLine(Caller[d])'
  <2>1. PICK q : q = Caller[d]
    OBVIOUS
  <2>2. (Stored(d)' => Stored(d)) /\ (Waits(d)' => Waits(d)) /\ details' = details
    BY DEF Stored, Waits, redis
  <2>3. Stored(d)' => HasLeft(q)' \/ Matched(q)' \/ q \in details' \/ HandedOver(q)'
    BY <1>1, <1>2, <1>4, <2>1, <2>2 DEF GoneInv
  <2>4. Waits(d)' => HasLeft(q)' \/ Matched(q)' \/ InLine(q)'
    BY <1>1, <1>2, <1>3, <2>1, <2>2 DEF GoneInv
  <2>5. pc'[d] \in Early => \A i \in {1, 2} : matcher'.popped[i] # Caller[d]
    BY DEF GoneInv
  <2>. QED  BY <2>1, <2>3, <2>4, <2>5 DEF HasLeft, Matched, HandedOver, InLine
<1>6. ASSUME NEW i \in {1, 2}, Unknown(i)' PROVE Gone(matcher.popped[i])'
  BY <1>6 DEF GoneInv, Unknown, Gone, HasLeft, Waits
<1>. QED  BY <1>5, <1>6 DEF GoneInv

(* And so every step. *)
LEMMA GoneNext ==
  ASSUME ~ RedisMayFail, OneJoinEach, TypeInv, TypeInv', LineInv, GoneInv, [Next]_vars
  PROVE  GoneInv'
<1>1. ASSUME NEW c \in Joins,
             \/ Check(c) \/ Enqueue(c) \/ EnqueueFails(c) \/ Look(c) \/ Tell(c) \/ Cancel(c)
             \/ Unregister(c)
      PROVE  GoneInv'
  BY <1>1, GoneCalls, CallFacts
<1>2. ASSUME NEW c \in Calls, Dequeue(c) \/ DequeueFails(c) PROVE GoneInv'
  BY <1>2, GoneCalls
<1>3. ASSUME (\E s \in Servers : TakeLock(s) \/ MissLock(s)) \/ TryMatch \/ TryMatchFails
      PROVE  GoneInv'
  BY <1>3, GoneMatching
<1>4. ASSUME NEW r \in DOMAIN rooms, Publish(r) \/ RoomFails(r) \/ \E s \in Servers : Hear(r, s)
      PROVE  GoneInv'
  <2>1. UNCHANGED <<redis, matcher, pc>> /\ SameMatches
    BY <1>4, TellFacts DEF SameMatches
  <2>. QED  BY <2>1, GoneSame
<1>5. CASE UNCHANGED vars
  <2>1. UNCHANGED <<redis, matcher, pc>> /\ SameMatches
    BY <1>5 DEF vars, redis, matching, calls, SameMatches
  <2>. QED  BY <2>1, GoneSame
<1>. QED
  BY <1>1, <1>2, <1>3, <1>4, <1>5 DEF Next

(* When every player joins once and no command of Redis fails, a player who *)
(* waits and is not in the queue is being matched or has asked to leave:    *)
(* what MatchmakingService.cs:154 concludes from a queue without him.  The  *)
(* matcher lets go only of players whose details it has not found, and      *)
(* those of a waiting player are removed only when he leaves or is matched. *)
THEOREM MissingAreMatched ==
  ASSUME OneJoinEach, ~ RedisMayFail PROVE Spec => []MissingIsBeingMatched
<1>1. TypeInv /\ LineInv /\ GoneInv /\ [Next]_vars => (TypeInv /\ LineInv /\ GoneInv)'
  BY TypeNext, LineNext, LineInvNext, GoneNext
<1>2. Init => GoneInv
  <2> SUFFICES ASSUME Init PROVE GoneInv
    OBVIOUS
  <2>1. \A c \in Joins : pc[c] = "idle" /\ Caller[c] # None
    BY CallFacts DEF Init
  <2>2. matcher.step = "idle" /\ \A i \in {1, 2} : matcher.popped[i] = None
    BY IdleFacts DEF Init
  <2>. QED  BY <2>1, <2>2 DEF GoneInv, Stored, Waits, Unknown
<1>3. TypeInv /\ GoneInv => MissingIsBeingMatched
  <2> SUFFICES ASSUME TypeInv, GoneInv, NEW c \in Joins, Waits(c), NEW p, p = Caller[c]
               PROVE  \/ Contains(queue \o InHand, p) \/ Matched(p)
                      \/ \E d \in Leaves : Caller[d] = p /\ pc[d] # "idle"
    BY DEF MissingIsBeingMatched
  <2>1. HasLeft(p) \/ Matched(p) \/ InLine(p)
    BY DEF GoneInv
  <2>2. ASSUME InLine(p) PROVE Contains(queue \o InHand, p)
    <3>1. PICK a \in Seq(Players), b \in Seq(Players) : a = InHand /\ b = queue
      BY InHandIsHand, HandTyped, LineParts
    <3>2. a \o b \in Seq(Players) /\ b \o a \in Seq(Players)
      BY ConcatProperties
    <3>3. Range(a \o b) = Range(a) \cup Range(b) /\ Range(b \o a) = Range(b) \cup Range(a)
      BY RangeConcatenation
    <3>4. p \in Range(a \o b)
      <4>1. Line = a \o b
        BY <3>1 DEF Line
      <4>. QED  BY <2>2, <3>2, <4>1, RangeEquality DEF InLine
    <3>5. p \in Range(b \o a)
      BY <3>3, <3>4
    <3>6. \E k \in 1..Len(b \o a) : (b \o a)[k] = p
      BY <3>2, <3>5, RangeEquality
    <3>7. Contains(b \o a, p)
      BY <3>6 DEF Contains
    <3>. QED  BY <3>1, <3>7
  <2>. QED  BY <2>1, <2>2 DEF HasLeft
<1>. QED  BY <1>1, <1>2, <1>3, LineInvInit, PTL DEF Spec
=============================================================================
