----------------------------- MODULE Matchmaking -----------------------------
(***************************************************************************)
(* Matchmaking on several servers with Redis (MatchmakingQueue and         *)
(* MatchmakingService): players wait in a list, the details of their       *)
(* tickets are in a hash, and whichever server gets the lock takes two     *)
(* players off the list, makes a room and tells every server.  Each Redis  *)
(* command is a step; between two of them anything may happen.             *)
(***************************************************************************)
EXTENDS Filter, SequencesExt

CONSTANTS
  Servers, Players,
  Joins, Leaves,     \* the calls of JoinQueue and of LeaveQueue
  Caller, Host,      \* the player of each call, and the server it is sent to
  None,              \* no player, no call, no server
  RedisMayFail       \* may a command of Redis fail?

Calls == Joins \cup Leaves

ASSUME CallerAssumption == Joins \cap Leaves = {} /\ Caller \in [Calls -> Players]
ASSUME HostAssumption == Host \in [Calls -> Servers]
ASSUME NoneAssumption == None \notin Players \cup Calls \cup Servers
ASSUME FailAssumption == RedisMayFail \in BOOLEAN

VARIABLES
  queue,             \* "matchmaking:queue" in Redis
  details,           \* the keys of "matchmaking:player_details"
  matcher,           \* the TryMatchAsync that holds the lock
  triggers,          \* the TryMatchAsync of each server not yet at the lock
  rooms,             \* the matches found, in order
  waiting,           \* _waitingPlayers of each server
  pc,                \* where a call is
  result             \* its completion source

redis == <<queue, details>>
matching == <<matcher, triggers, rooms>>
calls == <<waiting, pc, result>>
vars == <<redis, matching, calls>>

Idle == [at |-> None, step |-> "idle", i |-> 1, popped |-> <<None, None>>, known |-> {}]

Init ==
  /\ queue = <<>> /\ details = {}
  /\ matcher = Idle
  /\ triggers = [s \in Servers |-> 0]
  /\ rooms = <<>>
  /\ waiting = [s \in Servers |-> [p \in Players |-> None]]
  /\ pc = [c \in Calls |-> "idle"]
  /\ result = [c \in Joins |-> "none"]

Goto(c, label) == pc' = [pc EXCEPT ![c] = label]
Trigger(s) == triggers' = [triggers EXCEPT ![s] = @ + 1]

-----------------------------------------------------------------------------
(* JoinQueue. *)

Entry(c) == waiting[Host[c]][Caller[c]]

(* Is the player waiting on this server already? *)
Check(c) ==
  /\ pc[c] = "idle"
  /\ Goto(c, IF Entry(c) = None THEN "registering" ELSE "refused")
  /\ UNCHANGED <<redis, matching, waiting, result>>

Register(c) ==
  /\ pc[c] = "registering"
  /\ waiting' = [waiting EXCEPT ![Host[c]][Caller[c]] = c]
  /\ Goto(c, "storing")
  /\ UNCHANGED <<redis, matching, result>>

(* EnqueueAsync: the details, an old place in the queue, the new place. *)
Store(c) ==
  /\ pc[c] = "storing"
  /\ details' = details \cup {Caller[c]}
  /\ Goto(c, "cleaning")
  /\ UNCHANGED <<queue, matching, waiting, result>>

Without(p) == Filtered(queue, LAMBDA q : q # p)

Clean(c) ==
  /\ pc[c] = "cleaning"
  /\ queue' = Without(Caller[c])
  /\ Goto(c, "pushing")
  /\ UNCHANGED <<details, matching, waiting, result>>

Push(c) ==
  /\ pc[c] = "pushing"
  /\ queue' = Append(queue, Caller[c])
  /\ Trigger(Host[c])
  /\ Goto(c, "waiting")
  /\ UNCHANGED <<details, matcher, rooms, waiting, result>>

(* EnqueueAsync throws; the last command may have been obeyed.  It is        *)
(* called outside the try block: nothing is taken back. *)
EnqueueFails(c) ==
  /\ RedisMayFail
  /\ pc[c] \in {"storing", "cleaning", "pushing"}
  /\ \/ UNCHANGED redis
     \/ pc[c] = "pushing" /\ queue' = Append(queue, Caller[c]) /\ UNCHANGED details
  /\ Goto(c, "failed")
  /\ UNCHANGED <<matching, waiting, result>>

(* The loop sees that the player has left the queue: a match is on its way. *)
Look(c) ==
  /\ pc[c] = "waiting" /\ result[c] = "none"
  /\ ~Contains(queue, Caller[c])
  /\ Goto(c, "expecting")
  /\ UNCHANGED <<redis, matching, waiting, result>>

(* Fault: no limit of 3 s for the result.  (Operators marked "Fault" are    *)
(* mistakes the properties have to notice; no specification uses them.) *)
TellWhenMatched(c) ==
  /\ pc[c] \in {"waiting", "expecting"} /\ result[c] # "none"
  /\ Goto(c, "leaving")
  /\ UNCHANGED <<redis, matching, waiting, result>>

(* The result is there and the client is told, or it has not come within   *)
(* 3 s, and the call ends without a word. *)
Tell(c) ==
  /\ \/ pc[c] = "waiting" /\ result[c] # "none"
     \/ pc[c] = "expecting"
  /\ Goto(c, "leaving")
  /\ UNCHANGED <<redis, matching, waiting, result>>

(* The client cancels, and the loop ends or its next call throws; so it     *)
(* does when Redis fails. *)
Cancel(c) ==
  /\ pc[c] \in {"waiting", "expecting"}
  /\ \/ Goto(c, "leaving")
     \/ Goto(c, "cancelling")
  /\ UNCHANGED <<redis, matching, waiting, result>>

(* The finally block forgets the call, or a later one of the same player... *)
Unregister(c) ==
  /\ pc[c] = "leaving"
  /\ waiting' = [waiting EXCEPT ![Host[c]][Caller[c]] = None]
  /\ Goto(c, "forgetting")
  /\ UNCHANGED <<redis, matching, result>>

-----------------------------------------------------------------------------
(* DequeueAsync, called by JoinQueue in its catch and finally blocks, and by *)
(* LeaveQueue. *)

Forgets(c) == pc[c] = "forgetting" \/ (c \in Leaves /\ pc[c] = "idle")

(* Fault: the details stay. *)
KeepDetails(c) ==
  /\ \/ pc[c] = "cancelling" /\ Goto(c, "cancelled")
     \/ Forgets(c) /\ Goto(c, "removing")
  /\ UNCHANGED <<redis, matching, waiting, result>>

DropDetails(c) ==
  /\ details' = details \ {Caller[c]}
  /\ \/ pc[c] = "cancelling" /\ Goto(c, "cancelled")
     \/ Forgets(c) /\ Goto(c, "removing")
  /\ UNCHANGED <<queue, matching, waiting, result>>

DropPlace(c) ==
  /\ queue' = Without(Caller[c])
  /\ \/ pc[c] = "cancelled" /\ Goto(c, "leaving")
     \/ pc[c] = "removing" /\ Goto(c, "done")
  /\ UNCHANGED <<details, matching, waiting, result>>

(* Redis fails: the catch block gives way to the finally block, which just  *)
(* ends, and so does LeaveQueue; "failed" calls have left their details. *)
DequeueFails(c) ==
  /\ RedisMayFail
  /\ \/ pc[c] \in {"cancelling", "cancelled"} /\ Goto(c, "leaving")
     \/ pc[c] = "forgetting" /\ Goto(c, "failed")
     \/ pc[c] = "removing" /\ Goto(c, "done")
  /\ UNCHANGED <<redis, matching, waiting, result>>

-----------------------------------------------------------------------------
(* TryMatchAsync. *)

(* The lock is free: one attempt is enough. *)
TakeLock(s) ==
  /\ triggers[s] > 0
  /\ matcher.step = "idle"
  /\ triggers' = [triggers EXCEPT ![s] = @ - 1]
  /\ matcher' = [Idle EXCEPT !.at = s, !.step = "count"]
  /\ UNCHANGED <<redis, rooms, calls>>

(* It is not, or Redis fails: this attempt is over. *)
MissLock(s) ==
  /\ triggers[s] > 0
  /\ matcher.step # "idle" \/ RedisMayFail
  /\ triggers' = [triggers EXCEPT ![s] = @ - 1]
  /\ UNCHANGED <<redis, matcher, rooms, calls>>

Step(label) == matcher' = [matcher EXCEPT !.step = label]

Count ==
  /\ matcher.step = "count"
  /\ Step(IF Len(queue) < 2 THEN "release" ELSE "pop")
  /\ UNCHANGED <<redis, triggers, rooms, calls>>

(* The first, then the second player; the queue may be empty by now. *)
Pop ==
  /\ matcher.step = "pop"
  /\ LET p == IF queue = <<>> THEN None ELSE Head(queue)
         both == [matcher.popped EXCEPT ![matcher.i] = p]
     IN  matcher' =
           [matcher EXCEPT !.popped = both,
                           !.i = 3 - @,
                           !.step = IF matcher.i = 1 THEN "pop"
                                    ELSE IF Contains(both, None) THEN "return" ELSE "read"]
  /\ queue' = IF queue = <<>> THEN <<>> ELSE Tail(queue)
  /\ UNCHANGED <<details, triggers, rooms, calls>>

(* Fault: what was popped is put back, be it nothing. *)
ReturnBoth ==
  /\ matcher.step = "return"
  /\ queue' = matcher.popped \o queue
  /\ Step("release")
  /\ UNCHANGED <<details, triggers, rooms, calls>>

(* Only one could be popped: he goes back to the head. *)
Return ==
  /\ matcher.step = "return"
  /\ queue' = Filtered(matcher.popped, LAMBDA p : p # None) \o queue
  /\ Step("release")
  /\ UNCHANGED <<details, triggers, rooms, calls>>

Read ==
  /\ matcher.step = "read"
  /\ matcher' =
       [matcher EXCEPT !.known = IF matcher.popped[matcher.i] \in details
                                 THEN @ \cup {matcher.i} ELSE @,
                       !.i = 3 - @,
                       !.step = IF matcher.i = 1 THEN "read" ELSE "settle"]
  /\ UNCHANGED <<redis, triggers, rooms, calls>>

IsMatch == matcher.known = {1, 2}

NewRoom == [players |-> matcher.popped, at |-> matcher.at, state |-> "creating", heard |-> {}]

SettleNext ==
  /\ matcher' = [matcher EXCEPT !.i = 3 - @,
                                !.step = IF matcher.i = 1 THEN "settle" ELSE "release"]
  /\ IF matcher.i = 1 THEN UNCHANGED <<triggers, rooms>>
     ELSE /\ Trigger(matcher.at)
          /\ rooms' = IF IsMatch THEN Append(rooms, NewRoom) ELSE rooms

(* Fault: the players of a match go back, too. *)
SettleAnyhow ==
  /\ matcher.step = "settle"
  /\ LET p == matcher.popped[matcher.i]
     IN  IF matcher.i \in matcher.known
         THEN queue' = <<p>> \o queue /\ UNCHANGED details
         ELSE details' = details \ {p} /\ UNCHANGED queue
  /\ SettleNext
  /\ UNCHANGED calls

(* Fault: he goes to the end. *)
SettleLast ==
  /\ matcher.step = "settle"
  /\ LET p == matcher.popped[matcher.i]
     IN  IF matcher.i \in matcher.known /\ ~IsMatch
         THEN queue' = Append(queue, p) /\ UNCHANGED details
         ELSE details' = details \ {p} /\ UNCHANGED queue
  /\ SettleNext
  /\ UNCHANGED calls

(* Fault: both players of a stale pair are dropped. *)
SettleNobody ==
  /\ matcher.step = "settle"
  /\ details' = details \ {matcher.popped[matcher.i]}
  /\ SettleNext
  /\ UNCHANGED <<queue, calls>>

(* The players of a match lose their details, and so does one that had none *)
(* any more; a player whose partner had none goes back to the head.         *)
SettlePlayer ==
  LET p == matcher.popped[matcher.i]
  IN  IF matcher.i \in matcher.known /\ ~IsMatch
      THEN queue' = <<p>> \o queue /\ UNCHANGED details
      ELSE details' = details \ {p} /\ UNCHANGED queue

(* After both the match is handed over, and another attempt begins beside   *)
(* this one, which still holds the lock. *)
Settle ==
  /\ matcher.step = "settle"
  /\ SettlePlayer
  /\ SettleNext
  /\ UNCHANGED calls

(* Redis fails; the last command may have been obeyed.  Whom the matcher    *)
(* has in hand is lost, and nobody tries again. *)
TryMatchFails ==
  /\ RedisMayFail
  /\ \/ matcher.step \in {"count", "pop", "return", "read", "settle"} /\ UNCHANGED redis
     \/ matcher.step = "settle" /\ SettlePlayer
  /\ Step("release")
  /\ UNCHANGED <<triggers, rooms, calls>>

Release ==
  /\ matcher.step = "release"
  /\ matcher' = Idle
  /\ UNCHANGED <<redis, triggers, rooms, calls>>

-----------------------------------------------------------------------------
(* OnMatchFound and HandleDistributedMatch. *)

(* TrySetResult for the calls of both players that wait on server s. *)
Notify(s, players, status) ==
  result' = [c \in Joins |->
               IF result[c] = "none" /\ \E i \in {1, 2} : waiting[s][players[i]] = c
               THEN status ELSE result[c]]

Publish(r) ==
  /\ rooms[r].state = "creating"
  /\ rooms' = [rooms EXCEPT ![r].state = "published"]
  /\ UNCHANGED <<redis, matcher, triggers, calls>>

(* Making the room fails, or telling the servers does, who may hear of it   *)
(* still.  Only calls on this server are told. *)
RoomFails(r) ==
  /\ RedisMayFail
  /\ rooms[r].state = "creating"
  /\ \E state \in {"failed", "published"} : rooms' = [rooms EXCEPT ![r].state = state]
  /\ Notify(rooms[r].at, rooms[r].players, "error")
  /\ UNCHANGED <<redis, matcher, triggers, waiting, pc>>

Hear(r, s) ==
  /\ rooms[r].state = "published" /\ s \notin rooms[r].heard
  /\ rooms' = [rooms EXCEPT ![r].heard = @ \cup {s}]
  /\ Notify(s, rooms[r].players, "matched")
  /\ UNCHANGED <<redis, matcher, triggers, waiting, pc>>

-----------------------------------------------------------------------------
Enqueue(c) == Register(c) \/ Store(c) \/ Clean(c) \/ Push(c)
Dequeue(c) == DropDetails(c) \/ DropPlace(c)
TryMatch == Count \/ Pop \/ Return \/ Read \/ Settle \/ Release

Next ==
  \/ \E c \in Joins :
       Check(c) \/ Enqueue(c) \/ EnqueueFails(c) \/ Look(c) \/ Tell(c) \/ Cancel(c) \/ Unregister(c)
  \/ \E c \in Calls : Dequeue(c) \/ DequeueFails(c)
  \/ \E s \in Servers : TakeLock(s) \/ MissLock(s)
  \/ TryMatch \/ TryMatchFails
  \/ \E r \in DOMAIN rooms : Publish(r) \/ RoomFails(r) \/ \E s \in Servers : Hear(r, s)

(* What has begun goes on: the loop looks once a second, its limit of 3 s   *)
(* runs out, every await ends.  Whether a match is heard is not assumed:   *)
(* Redis delivers a message at most once. *)
Fairness ==
  /\ \A c \in Joins : WF_vars(Enqueue(c) \/ Look(c) \/ Tell(c) \/ Unregister(c) \/ Dequeue(c))
  /\ \A s \in Servers : WF_vars(TakeLock(s) \/ MissLock(s))
  /\ WF_vars(TryMatch)
  /\ WF_vars(\E r \in DOMAIN rooms : Publish(r) \/ RoomFails(r))

Spec == Init /\ [][Next]_vars /\ Fairness

-----------------------------------------------------------------------------
Waits(c) == pc[c] \in {"waiting", "expecting"}

(* Whom the matcher has taken off the queue and will match or put back, in  *)
(* order. *)
InHand ==
  LET held == CASE matcher.step = "pop" -> 1..(matcher.i - 1)
                [] matcher.step \in {"return", "read"} -> 1..2
                [] matcher.step = "settle" ->
                     IF IsMatch THEN 1..2 ELSE matcher.known \cap matcher.i..2
                [] OTHER -> {}
      taken == [i \in {1, 2} |-> IF i \in held THEN matcher.popped[i] ELSE None]
  IN  Filtered(taken, LAMBDA p : p # None)

Matched(p) == \E r \in DOMAIN rooms : \E i \in {1, 2} : rooms[r].players[i] = p

(* The types of the variables. *)
TypeOK ==
  /\ queue \in Seq(Players) /\ details \in SUBSET Players
  /\ matcher.at \in Servers \cup {None} /\ matcher.i \in {1, 2}
  /\ matcher.step \in {"idle", "count", "pop", "return", "read", "settle", "release"}
  /\ matcher.popped \in Seq(Players \cup {None}) /\ Len(matcher.popped) = 2
  /\ matcher.known \in SUBSET {1, 2}
  /\ triggers \in [Servers -> Nat]
  /\ \A r \in DOMAIN rooms : None \notin Range(rooms[r].players)
  /\ waiting \in [Servers -> [Players -> Joins \cup {None}]]
  /\ pc \in [Calls -> {"idle", "registering", "storing", "cleaning", "pushing", "waiting",
                       "expecting", "cancelling", "cancelled", "leaving", "forgetting",
                       "removing", "done", "refused", "failed"}]
  /\ result \in [Joins -> {"none", "matched", "error"}]

(* MatchmakingService.cs:154: a player who waits and is not in the queue is *)
(* being matched (unless he has asked to leave, or another call of his is   *)
(* about to put him there).  The call gives up after 3 s because of that. *)
MissingIsBeingMatched ==
  \A c \in Joins :
    Waits(c) =>
      \/ Contains(queue \o InHand, Caller[c])
      \/ Matched(Caller[c])
      \/ \E d \in Leaves : Caller[d] = Caller[c] /\ pc[d] # "idle"
      \/ \E d \in Joins : Caller[d] = Caller[c] /\ pc[d] = "pushing"

(* A player is matched once, and never with himself. *)
MatchedOnce ==
  \A r, q \in DOMAIN rooms, i, j \in {1, 2} :
    rooms[r].players[i] = rooms[q].players[j] => r = q /\ i = j

(* Nobody overtakes: not even those who are taken off the queue and put     *)
(* back because their partner had left. *)
Before(p, q, line) == \E i, j \in DOMAIN line : i < j /\ line[i] = p /\ line[j] = q

NobodyOvertakes ==
  [][\A p, q \in Players :
       Before(p, q, InHand \o queue) => ~Before(q, p, (InHand \o queue)')]_vars

(* What an ended call leaves in the queue has no details, so the matcher    *)
(* sweeps it away; only a call whose commands failed leaves more. *)
EndedIsSwept ==
  \A c \in Joins :
    pc[c] = "done" /\ Caller[c] \in details
      => \E d \in Joins \ {c} : Caller[d] = Caller[c] /\ pc[d] # "idle"

(* A call whose player has left the queue ends, whatever became of his      *)
(* match, or he is back in the queue. *)
MissingCallsEnd ==
  \A c \in Joins :
    Waits(c) /\ ~Contains(queue, Caller[c]) ~> pc[c] \in {"done", "failed"} \/ Contains(queue, Caller[c])

(* Two players in the queue do not stay there: an attempt that finds the    *)
(* lock taken leaves them to its holder (MatchmakingQueue.cs:114).  The     *)
(* code does not do this: the holder may have counted the queue before. *)
PairsAreMatched == (Len(queue) >= 2) ~> (Len(queue) < 2)

=============================================================================
