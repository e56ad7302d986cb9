-------------------------- MODULE RoomAccessProofs --------------------------
(***************************************************************************)
(* Proofs about RoomAccess for any number of calls.  The lock protects the *)
(* room while no lease runs out; Safe says how.                            *)
(***************************************************************************)
EXTENDS RoomAccess, TLAPS

(* Whoever is inside holds the key. *)
Exclusive == \A c \in Calls : pc[c] \in Inside => lock = c

(* The copy of a call is the room it found, and then what the call makes   *)
(* of the room that is still stored. *)
CopiesAreCurrent ==
  \A c \in Calls :
    /\ pc[c] = "acting" => copy[c] = room
    /\ pc[c] = "saving" => copy[c] = After(room, c, job[c])

(* A call that has not saved is not in the room. *)
BeforeSave == {"idle", "acquiring", "loading", "acting", "saving"}
Untouched == \A c \in Calls : pc[c] \in BeforeSave => c \notin room.applied

(* Timers are for rounds that have begun. *)
TimersAreOld ==
  \A c \in Calls :
    /\ job[c].round <= room.round
    /\ pc[c] = "idle" => job[c] = NoJob
    /\ pc[c] # "idle" => job[c] # NoJob

Safe == Exclusive /\ CopiesAreCurrent /\ Untouched /\ TimersAreOld

(* With saves that do not fail, a call on its way out has done its work.   *)
WorkIsDone ==
  \A c \in Calls :
    pc[c] \in {"releasing", "answered"} => Achieved(room, c, job[c])

-----------------------------------------------------------------------------
(* After returns a room again, and only adds to the one it is given. *)
LEMMA AfterAdds ==
  ASSUME NEW r \in [round : Nat, applied : SUBSET Calls], NEW c \in Calls,
         NEW j \in Jobs
  PROVE  /\ After(r, c, j) \in [round : Nat, applied : SUBSET Calls]
         /\ r.applied \subseteq After(r, c, j).applied
         /\ After(r, c, j).applied \subseteq r.applied \cup {c}
         /\ r.round <= After(r, c, j).round
         /\ Changes(r, j) => c \in After(r, c, j).applied
         /\ ~ Changes(r, j) => After(r, c, j) = r
         /\ j.round <= r.round => Achieved(After(r, c, j), c, j)
  BY DEF After, Changes, Achieved, Jobs, Kinds, NoJob

(* The type holds at first. *)
LEMMA TypeInit == Init => TypeOK
  BY FreeAssumption DEF Init, TypeOK, NewRoom, Jobs

(* And every step preserves it. *)
LEMMA TypeNext == TypeOK /\ [Next]_vars => TypeOK'
<1> SUFFICES ASSUME TypeOK, [Next]_vars PROVE TypeOK'
  OBVIOUS
<1> USE DEF TypeOK, Inside, Ended, Goto
<1>1. ASSUME NEW c \in Calls, Start(c) PROVE TypeOK'
  BY <1>1 DEF Start, Jobs
<1>2. ASSUME NEW c \in Calls, Proceed(c) PROVE TypeOK'
  <2>1. CASE Acquire(c) \/ GiveUp(c) \/ AcquireFails(c)
    BY <2>1 DEF Acquire, GiveUp, AcquireFails
  <2>2. CASE Load(c) \/ LoadFails(c)
    BY <2>2 DEF Load, LoadFails
  <2>3. CASE Act(c)
    <3>1. After(copy[c], c, job[c]) \in [round : Nat, applied : SUBSET Calls]
      BY AfterAdds
    <3> QED BY <2>3, <3>1 DEF Act
  <2>4. CASE ActThrows(c)
    BY <2>4 DEF ActThrows
  <2>5. CASE Save(c) \/ SaveFails(c)
    BY <2>5 DEF Save, SaveFails
  <2>6. CASE Release(c) \/ ReleaseFails(c)
    BY <2>6 DEF Release, ReleaseFails, Leave, Unlock
  <2> QED BY <1>2, <2>1, <2>2, <2>3, <2>4, <2>5, <2>6 DEF Proceed
<1>3. ASSUME NEW c \in Calls, Crash(c) PROVE TypeOK'
  BY <1>3 DEF Crash
<1>4. CASE Expire
  BY <1>4 DEF Expire
<1>5. CASE UNCHANGED vars
  BY <1>5 DEF vars
<1> QED BY <1>1, <1>2, <1>3, <1>4, <1>5 DEF Next

(* The variables keep their types, whatever fails. *)
THEOREM AccessTypeCorrect == Spec => []TypeOK
  BY TypeInit, TypeNext, PTL DEF Spec

-----------------------------------------------------------------------------
(* It holds at first. *)
LEMMA SafeInit == Init => Safe
  BY DEF Init, Safe, Exclusive, CopiesAreCurrent, Untouched, TimersAreOld,
         Inside, NewRoom, NoJob

(* The room changes only when the holder saves, and nobody else is inside  *)
(* then: that is why the other copies stay current. *)
LEMMA SafeNext ==
  ASSUME ~ LeaseMayExpire
  PROVE  TypeOK /\ Safe /\ [Next]_vars => Safe'
<1> SUFFICES ASSUME TypeOK, Safe, [Next]_vars PROVE Safe'
  OBVIOUS
<1> USE FreeAssumption DEF TypeOK, Safe, Inside, Ended, BeforeSave, Goto
<1>1. ASSUME NEW c \in Calls, Start(c) PROVE Safe'
  <2>1. job'[c] # NoJob /\ job'[c].round <= room.round
    BY <1>1 DEF Start, NoJob, Kinds
  <2> QED
    BY <1>1, <2>1 DEF Start, Exclusive, CopiesAreCurrent, Untouched, TimersAreOld
<1>2. ASSUME NEW c \in Calls, Proceed(c) PROVE Safe'
  <2>1. CASE Acquire(c) \/ GiveUp(c) \/ AcquireFails(c)
    BY <2>1 DEF Acquire, GiveUp, AcquireFails, Exclusive, CopiesAreCurrent,
                Untouched, TimersAreOld
  <2>2. CASE Load(c) \/ LoadFails(c)
    BY <2>2 DEF Load, LoadFails, Exclusive, CopiesAreCurrent, Untouched,
                TimersAreOld
  <2>3. CASE Act(c)
    BY <2>3 DEF Act, Exclusive, CopiesAreCurrent, Untouched, TimersAreOld
  <2>4. CASE ActThrows(c)
    BY <2>4 DEF ActThrows, Exclusive, CopiesAreCurrent, Untouched, TimersAreOld
  <2>5. CASE Save(c)
    <3>1. room' = After(room, c, job[c]) /\ lock = c
      BY <2>5 DEF Save, CopiesAreCurrent, Exclusive
    <3>2. /\ room'.applied \subseteq room.applied \cup {c}
          /\ room.round <= room'.round
          /\ room' \in [round : Nat, applied : SUBSET Calls]
      BY <3>1, AfterAdds
    <3>3. \A d \in Calls : pc[d] \in Inside => d = c
      BY <3>1 DEF Exclusive
    <3>4. Exclusive' /\ CopiesAreCurrent' /\ Untouched'
      BY <2>5, <3>2, <3>3 DEF Save, Exclusive, CopiesAreCurrent, Untouched
    <3>5. \A d \in Calls : job[d].round \in Nat
      BY DEF Jobs, NoJob
    <3>6. TimersAreOld'
      BY <2>5, <3>2, <3>5 DEF Save, TimersAreOld
    <3> QED BY <3>4, <3>6
  <2>6. CASE SaveFails(c)
    BY <2>6 DEF SaveFails, Exclusive, CopiesAreCurrent, Untouched, TimersAreOld
  <2>7. CASE Release(c) \/ ReleaseFails(c)
    BY <2>7 DEF Release, ReleaseFails, Leave, Unlock, Exclusive,
                CopiesAreCurrent, Untouched, TimersAreOld
  <2> QED BY <1>2, <2>1, <2>2, <2>3, <2>4, <2>5, <2>6, <2>7 DEF Proceed
<1>3. ASSUME NEW c \in Calls, Crash(c) PROVE Safe'
  BY <1>3 DEF Crash, Exclusive, CopiesAreCurrent, Untouched, TimersAreOld
<1>4. CASE Expire
  BY <1>4 DEF Expire, Exclusive, CopiesAreCurrent, Untouched, TimersAreOld
<1>5. CASE UNCHANGED vars
  BY <1>5 DEF vars, Exclusive, CopiesAreCurrent, Untouched, TimersAreOld
<1> QED BY <1>1, <1>2, <1>3, <1>4, <1>5 DEF Next

(* It is an invariant, when no lease expires. *)
LEMMA SafeHolds == ASSUME ~ LeaseMayExpire PROVE Spec => [](TypeOK /\ Safe)
<1>1. Init => TypeOK /\ Safe
  BY TypeInit, SafeInit
<1>2. TypeOK /\ Safe /\ [Next]_vars => (TypeOK /\ Safe)'
  BY TypeNext, SafeNext
<1> QED BY <1>1, <1>2, PTL DEF Spec

(* While no lease runs out, one call at most is between load and release,  *)
(* for any number of calls, crashes, lost replies and failing saves. *)
THEOREM LockExcludes == ASSUME ~ LeaseMayExpire PROVE Spec => []OneInside
<1>1. TypeOK /\ Safe => OneInside
  BY DEF Safe, Exclusive, OneInside
<1> QED BY <1>1, SafeHolds, PTL

(* And no save takes back what an earlier one stored. *)
THEOREM SavesNeverUndo == ASSUME ~ LeaseMayExpire PROVE Spec => NothingIsUndone
<1>1. TypeOK /\ Safe /\ [Next]_vars =>
        [room.applied \subseteq room'.applied /\ room.round <= room'.round]_vars
  <2> SUFFICES ASSUME TypeOK, Safe, Next
               PROVE  room.applied \subseteq room'.applied /\ room.round <= room'.round
    OBVIOUS
  <2>1. ASSUME NEW c \in Calls, Save(c)
        PROVE  room.applied \subseteq room'.applied /\ room.round <= room'.round
    <3>1. room' = After(room, c, job[c])
      BY <2>1 DEF Save, Safe, CopiesAreCurrent
    <3>2. room \in [round : Nat, applied : SUBSET Calls] /\ job[c] \in Jobs
      BY DEF TypeOK
    <3> QED BY <3>1, <3>2, AfterAdds
  <2>2. CASE UNCHANGED room
    BY <2>2 DEF TypeOK
  <2>3. (\E c \in Calls : Save(c)) \/ UNCHANGED room
    BY DEF Next, Start, Proceed, Acquire, GiveUp, AcquireFails, Load, LoadFails,
           Act, ActThrows, SaveFails, Release, ReleaseFails, Expire, Crash
  <2> QED BY <2>1, <2>2, <2>3
<1> QED BY <1>1, SafeHolds, PTL DEF Spec, NothingIsUndone

(* A call deletes no key but its own, even when leases run out under the   *)
(* calls that hold them: this one needs no assumption but lock ids of      *)
(* their own. *)
THEOREM KeysAreTheirHolders == Spec => OnlyHolderUnlocks
<1>1. TypeOK /\ [Next]_vars =>
        [\A c, d \in Calls :
           lock = c /\ d # c /\ pc'[d] # pc[d] => lock' = c]_vars
  <2> SUFFICES ASSUME TypeOK, Next, NEW c \in Calls, NEW d \in Calls,
                      lock = c, d # c, pc'[d] # pc[d]
               PROVE  lock' = c
    OBVIOUS
  <2>1. Start(d) \/ Proceed(d) \/ Crash(d)
    <3>1. ASSUME NEW e \in Calls, Start(e) \/ Proceed(e) \/ Crash(e) PROVE e = d
      BY <3>1 DEF TypeOK, Goto, Start, Proceed, Crash, Acquire, GiveUp,
                  AcquireFails, Load, LoadFails, Act, ActThrows, Save,
                  SaveFails, Release, ReleaseFails, Leave
    <3>2. ~ Expire
      BY DEF Expire
    <3> QED BY <3>1, <3>2 DEF Next
  <2>2. c # Free
    BY FreeAssumption
  <2> QED
    BY <2>1, <2>2 DEF Start, Proceed, Crash, Acquire, GiveUp, AcquireFails, Load,
                      LoadFails, Act, ActThrows, Save, SaveFails, Release,
                      ReleaseFails, Unlock
<1> QED BY <1>1, AccessTypeCorrect, PTL DEF Spec, OnlyHolderUnlocks

-----------------------------------------------------------------------------
(* It holds at first. *)
LEMMA WorkIsDoneInit == Init => WorkIsDone
  BY DEF Init, WorkIsDone

(* Every step preserves it: a call that answers has saved its change. *)
LEMMA WorkIsDoneNext ==
  ASSUME ~ LeaseMayExpire, ~ SaveMayFail
  PROVE  TypeOK /\ Safe /\ WorkIsDone /\ [Next]_vars => WorkIsDone'
<1> SUFFICES ASSUME TypeOK, Safe, WorkIsDone, [Next]_vars PROVE WorkIsDone'
  OBVIOUS
<1> USE DEF TypeOK, Goto
<1>1. ASSUME NEW c \in Calls, Save(c) PROVE WorkIsDone'
  <2>1. room' = After(room, c, job[c]) /\ job[c].round <= room.round
    BY <1>1 DEF Save, Safe, CopiesAreCurrent, TimersAreOld
  <2>2. /\ Achieved(room', c, job[c])
        /\ room.applied \subseteq room'.applied
        /\ room.round <= room'.round
    BY <2>1, AfterAdds
  <2>3. room'.round \in Nat
    BY <2>1, AfterAdds
  <2>4. \A d \in Calls : job[d].round \in Nat
    BY DEF Jobs, NoJob
  <2>5. \A d \in Calls : Achieved(room, d, job[d]) => Achieved(room', d, job[d])
    BY <2>2, <2>3, <2>4 DEF Achieved
  <2> QED BY <1>1, <2>2, <2>5 DEF Save, WorkIsDone
<1>2. ASSUME NEW c \in Calls, Release(c) \/ ReleaseFails(c) PROVE WorkIsDone'
  BY <1>2 DEF Release, ReleaseFails, Leave, WorkIsDone
<1>3. ASSUME NEW c \in Calls, Start(c) PROVE WorkIsDone'
  BY <1>3 DEF Start, WorkIsDone
<1>4. ASSUME NEW c \in Calls, Proceed(c) PROVE WorkIsDone'
  BY <1>1, <1>2, <1>4 DEF Proceed, Acquire, GiveUp, AcquireFails, Load, LoadFails,
                          Act, ActThrows, SaveFails, WorkIsDone
<1>5. ASSUME NEW c \in Calls, Crash(c) PROVE WorkIsDone'
  BY <1>5 DEF Crash, WorkIsDone
<1>6. CASE Expire \/ UNCHANGED vars
  BY <1>6 DEF Expire, vars, WorkIsDone
<1> QED BY <1>3, <1>4, <1>5, <1>6 DEF Next

(* It is an invariant, when no lease expires and no save fails. *)
LEMMA WorkIsDoneHolds ==
  ASSUME ~ LeaseMayExpire, ~ SaveMayFail
  PROVE  Spec => [](TypeOK /\ Safe /\ WorkIsDone)
<1>1. WorkIsDone /\ TypeOK /\ Safe /\ [Next]_vars => WorkIsDone'
  BY WorkIsDoneNext
<1> QED BY <1>1, WorkIsDoneInit, SafeHolds, PTL DEF Spec

(* A command that was answered is in the stored room for good, when no     *)
(* lease runs out and no save fails. *)
THEOREM AnswersAreStored ==
  ASSUME ~ LeaseMayExpire, ~ SaveMayFail
  PROVE  Spec => []AcknowledgedIsStored
<1>1. WorkIsDone => AcknowledgedIsStored
  BY DEF WorkIsDone, AcknowledgedIsStored, Achieved
<1> QED BY <1>1, WorkIsDoneHolds, PTL

(* The distributed room implements the atomic one: Save is the step in     *)
(* which a call takes effect, Release the one that answers it, and every   *)
(* other step, faults included, is a stutter. *)
THEOREM AccessIsAtomic ==
  ASSUME ~ LeaseMayExpire, ~ SaveMayFail
  PROVE  Spec => AtomicRoomSpec
<1> DEFINE answered == {c \in Calls : pc[c] = "answered"}
<1>1. Init => Atomic!Init
  BY DEF Init, Atomic!Init, NewRoom, Atomic!NewRoom, NoJob, Atomic!NoJob
<1>2. TypeOK /\ Safe /\ WorkIsDone /\ [Next]_vars =>
        [Atomic!Next]_<<room, job, answered>>
  <2> SUFFICES ASSUME TypeOK, Safe, WorkIsDone, [Next]_vars
               PROVE  Atomic!Next \/ UNCHANGED <<room, job, answered>>
    OBVIOUS
  <2> USE DEF TypeOK, Goto
  <2>1. ASSUME NEW c \in Calls, Start(c) PROVE Atomic!Request(c)
    <3>1. job[c] = NoJob
      BY <2>1 DEF Start, Safe, TimersAreOld
    <3>2. UNCHANGED answered
      BY <2>1 DEF Start
    <3>3. job'[c] \in Jobs /\ job' = [job EXCEPT ![c] = job'[c]]
      BY <2>1 DEF Start, Jobs
    <3> QED
      BY <2>1, <3>1, <3>2, <3>3
         DEF Start, Atomic!Request, Jobs, NoJob, Kinds, Atomic!Jobs,
             Atomic!NoJob, Atomic!Kinds
  <2>2. ASSUME NEW c \in Calls, Save(c)
        PROVE  Atomic!Execute(c) \/ UNCHANGED <<room, job, answered>>
    <3>1. /\ room' = After(room, c, job[c])
          /\ c \notin room.applied
          /\ job[c] # NoJob
      BY <2>2 DEF Save, Safe, CopiesAreCurrent, Untouched, TimersAreOld, BeforeSave
    <3>2. UNCHANGED <<job, answered>> /\ c \notin answered
      BY <2>2 DEF Save
    <3>3. CASE Changes(room, job[c])
      BY <3>1, <3>2, <3>3
         DEF Atomic!Execute, After, Atomic!After, Changes, Atomic!Changes, NoJob,
             Atomic!NoJob
    <3>4. CASE ~ Changes(room, job[c])
      BY <3>1, <3>2, <3>4 DEF After
    <3> QED BY <3>3, <3>4
  <2>3. ASSUME NEW c \in Calls, Release(c) \/ ReleaseFails(c)
        PROVE  Atomic!Answer(c) \/ UNCHANGED <<room, job, answered>>
    <3>1. CASE pc[c] = "releasing"
      <4>1. /\ job[c] # NoJob
            /\ Achieved(room, c, job[c])
        BY <3>1 DEF WorkIsDone, Safe, TimersAreOld
      <4>2. UNCHANGED <<room, job>> /\ pc' = [pc EXCEPT ![c] = "answered"]
        BY <2>3, <3>1 DEF Release, ReleaseFails, Leave
      <4>3. answered' = answered \cup {c}
        BY <4>2
      <4> QED
        BY <4>1, <4>2, <4>3 DEF Atomic!Answer, Achieved, Atomic!Achieved, NoJob, Atomic!NoJob
    <3>2. CASE pc[c] = "unwinding"
      BY <2>3, <3>2 DEF Release, ReleaseFails, Leave
    <3> QED BY <2>3, <3>1, <3>2 DEF Release, ReleaseFails, Leave
  <2>4. ASSUME NEW c \in Calls, Proceed(c)
        PROVE  Atomic!Execute(c) \/ Atomic!Answer(c) \/ UNCHANGED <<room, job, answered>>
    BY <2>2, <2>3, <2>4 DEF Proceed, Acquire, GiveUp, AcquireFails, Load, LoadFails,
                            Act, ActThrows, SaveFails
  <2>5. ASSUME NEW c \in Calls, Crash(c) PROVE UNCHANGED <<room, job, answered>>
    BY <2>5 DEF Crash, Ended
  <2>6. CASE Expire \/ UNCHANGED vars
    BY <2>6 DEF Expire, vars
  <2> QED BY <2>1, <2>4, <2>5, <2>6 DEF Next, Atomic!Next
<1> QED
  BY <1>1, <1>2, WorkIsDoneHolds, PTL DEF Spec, AtomicRoomSpec, Atomic!Spec
-----------------------------------------------------------------------------
(* Only calls that have started publish, and a timer that has announced a  *)
(* round is about to save it, has saved it, or has crashed. *)
AnnouncementsAreDue ==
  \A c \in published :
    /\ pc[c] # "idle"
    /\ job[c].kind = "timeout" =>
         /\ pc[c] \in {"saving", "releasing", "answered", "crashed"}
         /\ pc[c] = "saving" => room.round = job[c].round
         /\ pc[c] \in {"releasing", "answered"} => job[c].round < room.round

AnnouncementsInv == AnnouncementsAreDue /\ AnnouncedTwiceOnlyByCrash

(* It holds at first. *)
LEMMA AnnouncementsInit == Init => AnnouncementsInv
  BY DEF Init, AnnouncementsInv, AnnouncementsAreDue, AnnouncedTwiceOnlyByCrash

(* The steps that neither publish nor change the room: a call keeps its    *)
(* job, and if it has announced a round it goes on to the answer, or       *)
(* crashes. *)
LEMMA AnnouncementsQuiet ==
  ASSUME TypeOK, AnnouncementsInv, UNCHANGED <<room, job, published>>,
         \A c \in Calls :
           \/ pc'[c] = pc[c]
           \/ pc[c] # "crashed" /\ pc'[c] = "crashed"
           \/ pc[c] \in {"idle", "acquiring", "loading", "acting"} /\ pc'[c] # "idle"
           \/ pc[c] \in {"releasing"} /\ pc'[c] = "answered"
           \/ pc[c] \in {"unwinding"} /\ pc'[c] = "refused"
  PROVE  AnnouncementsInv'
<1> USE DEF TypeOK, AnnouncementsInv
<1>1. AnnouncementsAreDue'
  BY DEF AnnouncementsAreDue
<1>2. AnnouncedTwiceOnlyByCrash'
  <2> SUFFICES ASSUME NEW c \in published, NEW d \in published, c # d,
                      job[c].kind = "timeout", job[d].kind = "timeout",
                      job[c].round = job[d].round
               PROVE  pc'[c] = "crashed" \/ pc'[d] = "crashed"
    BY DEF AnnouncedTwiceOnlyByCrash
  <2>1. pc[c] = "crashed" \/ pc[d] = "crashed"
    BY DEF AnnouncedTwiceOnlyByCrash
  <2> QED BY <2>1
<1> QED BY <1>1, <1>2

(* A timer acts on the round that is still stored, so whoever announced    *)
(* that round before is another call that has not saved, and it is not     *)
(* inside any more: it has crashed. *)
LEMMA AnnouncementsAct ==
  ASSUME TypeOK, Safe, AnnouncementsInv, NEW c \in Calls, Act(c)
  PROVE  AnnouncementsInv'
<1> USE DEF TypeOK, Goto, AnnouncementsInv
<1>1. /\ copy[c] = room
      /\ \A d \in Calls : pc[d] \in Inside => d = c
    BY DEF Act, Safe, CopiesAreCurrent, Exclusive, Inside
<1>2. \A d \in Calls : d # c => pc'[d] = pc[d]
  BY DEF Act
<1>3. pc'[c] = "saving" /\ UNCHANGED <<room, job>> /\ pc[c] = "acting"
  BY DEF Act
<1>4. published' \in {published, published \cup {c}}
  BY DEF Act
<1>5. c \in published' /\ job[c].kind = "timeout" => room.round = job[c].round
  <2> SUFFICES ASSUME c \in published', job[c].kind = "timeout"
               PROVE  room.round = job[c].round
    OBVIOUS
  <2>1. c \notin published
    BY <1>3 DEF AnnouncementsAreDue
  <2> QED BY <2>1, <1>1 DEF Act, Changes
<1>6. AnnouncementsAreDue'
  BY <1>2, <1>3, <1>4, <1>5 DEF AnnouncementsAreDue
<1>7. ASSUME NEW d \in published, d # c, c \in published', job[d].kind = "timeout",
             job[c].kind = "timeout", job[c].round = job[d].round
      PROVE  pc[d] = "crashed"
  <2>1. pc[d] \notin {"saving"}
    BY <1>1, <1>7 DEF Inside
  <2>2. job[d].round = room.round /\ room.round \in Nat
    BY <1>5, <1>7
  <2> QED BY <2>1, <2>2, <1>7 DEF AnnouncementsAreDue
<1>8. AnnouncedTwiceOnlyByCrash'
  BY <1>2, <1>3, <1>4, <1>7 DEF AnnouncedTwiceOnlyByCrash
<1> QED BY <1>6, <1>8

(* The save ends the round that was announced. *)
LEMMA AnnouncementsSave ==
  ASSUME TypeOK, Safe, AnnouncementsInv, NEW c \in Calls, Save(c)
  PROVE  AnnouncementsInv'
<1> USE DEF TypeOK, Goto, AnnouncementsInv
<1>1. /\ room' = After(room, c, job[c])
      /\ \A d \in Calls : pc[d] \in Inside => d = c
  BY DEF Save, Safe, CopiesAreCurrent, Exclusive, Inside
<1>2. room.round \in Nat /\ room'.round \in Nat /\ room.round <= room'.round
  BY <1>1, AfterAdds
<1>3. /\ pc[c] = "saving" /\ pc' = [pc EXCEPT ![c] = "releasing"]
      /\ UNCHANGED <<job, published>>
  BY DEF Save
<1>4. \A d \in Calls : job[d].round \in Nat
  BY DEF Jobs, NoJob
<1>5. c \in published /\ job[c].kind = "timeout" => job[c].round < room'.round
  <2> SUFFICES ASSUME c \in published, job[c].kind = "timeout"
               PROVE  job[c].round < room'.round
    OBVIOUS
  <2>1. room.round = job[c].round
    BY <1>3 DEF AnnouncementsAreDue
  <2> QED BY <2>1, <1>1, <1>2 DEF After, Changes
<1>6. ASSUME NEW d \in published, d # c, job[d].kind = "timeout"
      PROVE  /\ pc'[d] = pc[d]
             /\ pc[d] \in {"releasing", "answered", "crashed"}
             /\ pc[d] \in {"releasing", "answered"} => job[d].round < room'.round
  <2>1. pc[d] # "saving"
    BY <1>1, <1>6 DEF Inside
  <2>2. pc'[d] = pc[d]
    BY <1>3, <1>6
  <2> QED BY <2>1, <2>2, <1>2, <1>4, <1>6 DEF AnnouncementsAreDue
<1>7. AnnouncementsAreDue'
  BY <1>3, <1>5, <1>6 DEF AnnouncementsAreDue
<1>8. AnnouncedTwiceOnlyByCrash'
  BY <1>3 DEF AnnouncedTwiceOnlyByCrash
<1> QED BY <1>7, <1>8

(* So every step preserves it. *)
LEMMA AnnouncementsNext ==
  ASSUME ~ SaveMayFail
  PROVE  TypeOK /\ Safe /\ AnnouncementsInv /\ [Next]_vars => AnnouncementsInv'
<1> SUFFICES ASSUME TypeOK, Safe, AnnouncementsInv, [Next]_vars
             PROVE  AnnouncementsInv'
  OBVIOUS
<1>1. ASSUME NEW c \in Calls, Start(c) PROVE AnnouncementsInv'
  <2> USE DEF TypeOK, Goto, AnnouncementsInv
  <2>1. c \notin published /\ UNCHANGED <<room, published>>
    BY <1>1 DEF Start, AnnouncementsAreDue
  <2>2. \A d \in published : job'[d] = job[d] /\ pc'[d] = pc[d]
    BY <1>1, <2>1 DEF Start
  <2> QED
    BY <2>1, <2>2 DEF AnnouncementsAreDue, AnnouncedTwiceOnlyByCrash
<1>2. ASSUME NEW c \in Calls, Proceed(c) PROVE AnnouncementsInv'
  <2>1. CASE Act(c)
    BY <2>1, AnnouncementsAct
  <2>2. CASE Save(c)
    BY <2>2, AnnouncementsSave
  <2>3. CASE ActThrows(c)
    <3> USE DEF TypeOK, Goto, AnnouncementsInv
    <3>1. /\ job[c].kind = "command" /\ pc' = [pc EXCEPT ![c] = "unwinding"]
          /\ UNCHANGED <<room, job>>
          /\ published' \in {published, published \cup {c}}
      BY <2>3 DEF ActThrows
    <3> QED BY <3>1 DEF AnnouncementsAreDue, AnnouncedTwiceOnlyByCrash
  <2>4. CASE \/ Acquire(c) \/ GiveUp(c) \/ AcquireFails(c) \/ Load(c) \/ LoadFails(c)
             \/ Release(c) \/ ReleaseFails(c)
    <3>1. UNCHANGED <<room, job, published>>
      BY <2>4 DEF Acquire, GiveUp, AcquireFails, Load, LoadFails, Release, ReleaseFails
    <3>2. \/ pc[c] \in {"acquiring", "loading"} /\
             \E label \in {"loading", "acting", "refused", "unwinding"} : Goto(c, label)
          \/ pc[c] = "releasing" /\ Goto(c, "answered")
          \/ pc[c] = "unwinding" /\ Goto(c, "refused")
      BY <2>4 DEF Acquire, GiveUp, AcquireFails, Load, LoadFails, Release,
                  ReleaseFails, Leave
    <3> QED BY <3>1, <3>2, AnnouncementsQuiet DEF TypeOK, Goto
  <2> QED BY <1>2, <2>1, <2>2, <2>3, <2>4 DEF Proceed, SaveFails
<1>3. ASSUME NEW c \in Calls, Crash(c) PROVE AnnouncementsInv'
  <2>1. UNCHANGED <<room, job, published>> /\ pc[c] # "crashed" /\ Goto(c, "crashed")
    BY <1>3 DEF Crash, Ended
  <2> QED BY <2>1, AnnouncementsQuiet DEF TypeOK, Goto
<1>4. CASE Expire \/ UNCHANGED vars
  BY <1>4, AnnouncementsQuiet DEF Expire, vars
<1> QED BY <1>1, <1>2, <1>3, <1>4 DEF Next

(* No two timers announce the same round, however many servers have one,   *)
(* unless one of them crashed between the announcement and the save; as    *)
(* long as no lease runs out and no save fails. *)
THEOREM RoundsAreAnnouncedOnce ==
  ASSUME ~ LeaseMayExpire, ~ SaveMayFail
  PROVE  Spec => []AnnouncedTwiceOnlyByCrash
<1>1. TypeOK /\ Safe /\ AnnouncementsInv /\ [Next]_vars => AnnouncementsInv'
  BY AnnouncementsNext
<1>2. AnnouncementsInv => AnnouncedTwiceOnlyByCrash
  BY DEF AnnouncementsInv
<1> QED BY <1>1, <1>2, AnnouncementsInit, SafeHolds, PTL DEF Spec
=============================================================================
