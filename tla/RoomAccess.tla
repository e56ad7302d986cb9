----------------------------- MODULE RoomAccess -----------------------------
(***************************************************************************)
(* Exclusive access to a room that several servers share                   *)
(* (GameSession.ExecuteOnGameRoomAsync, distributed mode): take the lock   *)
(* key in Redis, load the room, act on the copy and publish its events,    *)
(* save the copy, delete the key.  Every call has a lock id of its own, so *)
(* the value of the key is a call.  Redis serves one command at a time;    *)
(* servers crash, and the replies of Redis may be lost.                    *)
(***************************************************************************)
EXTENDS RoomCopy

CONSTANTS
  Calls,            \* the calls of ExecuteOnGameRoomAsync, on all servers
  Free,             \* no value: the key does not exist
  LeaseMayExpire,   \* may a call take longer than the 5 s of the key?
  SaveMayFail       \* may SaveAsync fail?  It swallows the exception.

ASSUME FreeAssumption == Free \notin Calls
ASSUME FaultsAssumption == LeaseMayExpire \in BOOLEAN /\ SaveMayFail \in BOOLEAN

VARIABLES
  room,             \* the room stored in Redis
  lock,             \* the lock key in Redis
  pc, job,          \* where a call is, and what it wants
  copy,             \* the room a call has loaded
  published         \* the calls whose events were published

vars == <<room, lock, pc, job, copy, published>>

Inside == {"loading", "acting", "saving", "releasing", "unwinding"}
Ended == {"answered", "refused", "crashed"}

Goto(c, label) == pc' = [pc EXCEPT ![c] = label]

Init ==
  /\ room = NewRoom
  /\ lock = Free
  /\ pc = [c \in Calls |-> "idle"]
  /\ job = [c \in Calls |-> NoJob]
  /\ copy = [c \in Calls |-> NewRoom]
  /\ published = {}

(* A timer fires for a round that has begun, however long ago. *)
Start(c) ==
  /\ pc[c] = "idle"
  /\ \E kind \in Kinds, r \in 1..room.round :
       job' = [job EXCEPT ![c] =
                 [kind |-> kind, round |-> IF kind = "timeout" THEN r ELSE 0]]
  /\ Goto(c, "acquiring")
  /\ UNCHANGED <<room, lock, copy, published>>

(* Fault: SET without NX.  (Operators marked "Fault" are mistakes the       *)
(* properties have to notice; no specification uses them.) *)
AcquireAnyway(c) ==
  /\ pc[c] = "acquiring"
  /\ lock' = c
  /\ Goto(c, "loading")
  /\ UNCHANGED <<room, job, copy, published>>

(* TryAcquireAsync: SET NX, again and again. *)
Acquire(c) ==
  /\ pc[c] = "acquiring"
  /\ lock = Free
  /\ lock' = c
  /\ Goto(c, "loading")
  /\ UNCHANGED <<room, job, copy, published>>

(* 500 ms are over and the key is still there. *)
GiveUp(c) ==
  /\ pc[c] = "acquiring"
  /\ lock # Free
  /\ Goto(c, "refused")
  /\ UNCHANGED <<room, lock, job, copy, published>>

(* Redis answers with an error, or not at all after it has set the key. *)
AcquireFails(c) ==
  /\ pc[c] = "acquiring"
  /\ lock' \in IF lock = Free THEN {Free, c} ELSE {lock}
  /\ Goto(c, "refused")
  /\ UNCHANGED <<room, job, copy, published>>

(* Fault: a room that was not found is used like one. *)
LoadUnchecked(c) ==
  /\ pc[c] = "loading"
  /\ \E loaded \in {room, Free} : copy' = [copy EXCEPT ![c] = loaded]
  /\ Goto(c, "acting")
  /\ UNCHANGED <<room, lock, job, published>>

Load(c) ==
  /\ pc[c] = "loading"
  /\ copy' = [copy EXCEPT ![c] = room]
  /\ Goto(c, "acting")
  /\ UNCHANGED <<room, lock, job, published>>

(* Fault: success is reported for a room that was not found. *)
LoadFailsUnnoticed(c) ==
  /\ pc[c] = "loading"
  /\ Goto(c, "releasing")
  /\ UNCHANGED <<room, lock, job, copy, published>>

LoadFails(c) ==
  /\ pc[c] = "loading"
  /\ Goto(c, "unwinding")
  /\ UNCHANGED <<room, lock, job, copy, published>>

(* The action changes the copy and publishes the events of the change.     *)
Act(c) ==
  /\ pc[c] = "acting"
  /\ copy' = [copy EXCEPT ![c] = After(@, c, job[c])]
  /\ published' =
       IF Changes(copy[c], job[c]) THEN published \cup {c} ELSE published
  /\ Goto(c, "saving")
  /\ UNCHANGED <<room, lock, job>>

(* Fault: the exception is caught, and the call goes on. *)
ActThrowsUnnoticed(c) ==
  /\ pc[c] = "acting"
  /\ job[c].kind = "command"
  /\ published' \in {published, published \cup {c}}
  /\ Goto(c, "saving")
  /\ UNCHANGED <<room, lock, job, copy>>

(* The command is illegal, or SendToPlayerAsync throws when some of the    *)
(* events are already published. *)
ActThrows(c) ==
  /\ pc[c] = "acting"
  /\ job[c].kind = "command"
  /\ published' \in {published, published \cup {c}}
  /\ Goto(c, "unwinding")
  /\ UNCHANGED <<room, lock, job, copy>>

(* The copy is saved whether the action changed it or not. *)
Save(c) ==
  /\ pc[c] = "saving"
  /\ room' = copy[c]
  /\ Goto(c, "releasing")
  /\ UNCHANGED <<lock, job, copy, published>>

SaveFails(c) ==
  /\ SaveMayFail
  /\ pc[c] = "saving"
  /\ Goto(c, "releasing")
  /\ UNCHANGED <<room, lock, job, copy, published>>

(* Fault: a plain DEL. *)
UnlockAnyway(c) == lock' = Free

(* UnlockScript deletes the key if it still holds the id of this call. *)
Unlock(c) == lock' = IF lock = c THEN Free ELSE lock

Leave(c) ==
  \/ pc[c] = "releasing" /\ Goto(c, "answered")
  \/ pc[c] = "unwinding" /\ Goto(c, "refused")

Release(c) ==
  /\ Leave(c)
  /\ Unlock(c)
  /\ UNCHANGED <<room, job, copy, published>>

ReleaseFails(c) ==
  /\ Leave(c)
  /\ UNCHANGED <<room, lock, job, copy, published>>

(* Fault: a key without PX. *)
NeverExpire == FALSE /\ UNCHANGED vars

(* The key expires 5 s after it was set: always when its call has ended    *)
(* without deleting it. *)
Expire ==
  /\ lock # Free
  /\ LeaseMayExpire \/ pc[lock] \notin Inside
  /\ lock' = Free
  /\ UNCHANGED <<room, pc, job, copy, published>>

Crash(c) ==
  /\ pc[c] \notin Ended \cup {"idle"}
  /\ Goto(c, "crashed")
  /\ UNCHANGED <<room, lock, job, copy, published>>

Proceed(c) ==
  \/ Acquire(c) \/ GiveUp(c) \/ AcquireFails(c)
  \/ Load(c) \/ LoadFails(c)
  \/ Act(c) \/ ActThrows(c)
  \/ Save(c) \/ SaveFails(c)
  \/ Release(c) \/ ReleaseFails(c)

Next ==
  \/ \E c \in Calls : Start(c) \/ Proceed(c) \/ Crash(c)
  \/ Expire

(* Every await of a call ends, and Redis drops expired keys.  Nothing says *)
(* that calls start. *)
Fairness == WF_vars(Expire) /\ \A c \in Calls : WF_vars(Proceed(c))

Spec == Init /\ [][Next]_vars /\ Fairness

-----------------------------------------------------------------------------
(* The types of the variables. *)
TypeOK ==
  /\ room \in [round : Nat, applied : SUBSET Calls]
  /\ lock \in Calls \cup {Free}
  /\ pc \in [Calls -> {"idle", "acquiring"} \cup Inside \cup Ended]
  /\ job \in [Calls -> Jobs]
  /\ copy \in [Calls -> [round : Nat, applied : SUBSET Calls]]
  /\ published \in SUBSET Calls

(* The promise of the lock: between the load and the release no other call *)
(* is there, whatever fails or crashes (as long as no lease runs out). *)
OneInside ==
  \A c, d \in Calls : pc[c] \in Inside /\ pc[d] \in Inside => c = d

(* No save takes back the change of an earlier call: not even a read or a  *)
(* late timeout, which save the copy they loaded. *)
NothingIsUndone ==
  [][room.applied \subseteq room'.applied /\ room.round <= room'.round]_vars

(* No step of a call deletes the key of another call: one that returns     *)
(* after its lease has run out leaves the next holder its lock. *)
OnlyHolderUnlocks ==
  [][\A c, d \in Calls :
       lock = c /\ d # c /\ pc'[d] # pc[d] => lock' = c]_vars

(* A command whose caller gets a result is in the stored room, and stays   *)
(* there. *)
AcknowledgedIsStored ==
  \A c \in Calls :
    pc[c] = "answered" /\ job[c].kind = "command" => c \in room.applied

(* Primary and backup timers fire for the same round, and still only one   *)
(* of them announces that it is resolved, unless the first one's server    *)
(* crashed before it saved: then the players see the round resolved twice. *)
AnnouncedTwiceOnlyByCrash ==
  \A c, d \in published :
    /\ c # d
    /\ job[c].kind = "timeout" /\ job[d].kind = "timeout"
    /\ job[c].round = job[d].round
    => pc[c] = "crashed" \/ pc[d] = "crashed"

(* The calls together are the atomic room, crashes included. *)
Atomic == INSTANCE AtomicRoom WITH answered <- {c \in Calls : pc[c] = "answered"}
AtomicRoomSpec == Atomic!Spec

(* Whoever has the lock, crashed or not, loses it: the room is never shut  *)
(* for good. *)
LockIsFreed == \A c \in Calls : lock = c ~> lock # c

=============================================================================
