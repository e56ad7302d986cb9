------------------------------ MODULE RoomCopy ------------------------------
(***************************************************************************)
(* A GameRoom as its concurrent callers tell it apart: the round it is in  *)
(* and the calls whose change it holds.  GameRoom.tla has the rest.        *)
(***************************************************************************)
EXTENDS Naturals

NewRoom == [round |-> 1, applied |-> {}]

(* What a call of ExecuteOnGameRoomAsync wants: a "command" of a player    *)
(* (move, decision), the "timeout" of the planning timer of some round, or *)
(* a "read" (state query, connection, check that finds nobody ready).      *)
Kinds == {"command", "timeout", "read"}
NoJob == [kind |-> "none", round |-> 0]
Jobs == [kind : Kinds, round : Nat] \cup {NoJob}

(* Fault: a late timeout is not noticed.  (Operators marked "Fault" are     *)
(* mistakes the properties have to notice; no specification uses them.) *)
ChangesAnyRound(copy, job) == job.kind \in {"command", "timeout"}

(* A timeout changes the room only when the room still is in the round the *)
(* timer was started for. *)
Changes(copy, job) ==
  \/ job.kind = "command"
  \/ job.kind = "timeout" /\ copy.round = job.round

After(copy, call, job) ==
  IF Changes(copy, job)
  THEN [round |-> IF job.kind = "timeout" THEN copy.round + 1 ELSE copy.round,
        applied |-> copy.applied \cup {call}]
  ELSE copy

(* What a call that ended well may rely on. *)
Achieved(room, call, job) ==
  /\ job.kind = "command" => call \in room.applied
  /\ job.kind = "timeout" => room.round > job.round
=============================================================================
