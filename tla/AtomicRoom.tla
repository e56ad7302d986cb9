----------------------------- MODULE AtomicRoom -----------------------------
(***************************************************************************)
(* What ExecuteOnGameRoomAsync promises its callers: one room, on which    *)
(* every call acts in one step, at most once, on the room all the earlier  *)
(* calls left; and a call is answered only when its work is in the room.   *)
(***************************************************************************)
EXTENDS RoomCopy

CONSTANT Calls
VARIABLES room, job, answered

Init ==
  /\ room = NewRoom
  /\ job = [c \in Calls |-> NoJob]
  /\ answered = {}

Request(c) ==
  /\ job[c] = NoJob
  /\ job'[c] \in Jobs
  /\ job' = [job EXCEPT ![c] = job'[c]]
  /\ UNCHANGED <<room, answered>>

Execute(c) ==
  /\ job[c] # NoJob
  /\ c \notin room.applied \cup answered
  /\ Changes(room, job[c])
  /\ room' = After(room, c, job[c])
  /\ UNCHANGED <<job, answered>>

Answer(c) ==
  /\ job[c] # NoJob
  /\ Achieved(room, c, job[c])
  /\ answered' = answered \cup {c}
  /\ UNCHANGED <<room, job>>

Next == \E c \in Calls : Request(c) \/ Execute(c) \/ Answer(c)

Spec == Init /\ [][Next]_<<room, job, answered>>
=============================================================================
