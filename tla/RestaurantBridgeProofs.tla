----------------------- MODULE RestaurantBridgeProofs -----------------------
(***************************************************************************)
(* The restaurant and the bridge of Assignment5.                           *)
(*                                                                         *)
(* For any number of diners, any batch size and any spurious wakeups: the  *)
(* counters agree with the threads, no wakeup is lost, the back door is    *)
(* closed between batches, batch numbers are stable, and the threads       *)
(* implement the batch service.                                            *)
(*                                                                         *)
(* For any number of villagers on each side and any threshold: the         *)
(* counters count the villagers on the bridge, every locked gate has       *)
(* somebody who will unlock it, the traffic of one direction is bounded    *)
(* and meets the other only after an exit, and crossed locks are the only  *)
(* way to get stuck.                                                       *)
(***************************************************************************)
EXTENDS Restaurant, Bridge, FiniteSetTheorems, TLAPS

\* What links the restaurant thread to the counters; with it the checked
\* invariants are inductive.
Phase ==
    /\ rpc \in {"collect", "restaurant_cond"} => num_served = 0
    /\ rpc = "barrier" => num_served = BatchSize /\ num_waiting = BatchSize
    /\ num_served > 0 => num_waiting = BatchSize

IInv == TypeOK /\ CountersAgree /\ Phase /\ NoLostWakeup /\ BackDoor

-----------------------------------------------------------------------------
(* Counting diners                                                         *)

\* The diners counted and the diners seated are finite sets.
LEMMA FiniteGroups == /\ IsFiniteSet(Counted) /\ Cardinality(Counted) \in Nat
                      /\ IsFiniteSet(Seated) /\ Cardinality(Seated) \in Nat
<1>1. Counted \subseteq Diners /\ Seated \subseteq Diners
  BY DEF Counted, Seated
<1>2. IsFiniteSet(Counted) /\ IsFiniteSet(Seated)
  BY <1>1, ConstAssumption, FS_Subset DEF ConstAssumption
<1> QED
  BY <1>2, FS_CardinalityType

\* A member that leaves a finite set makes it smaller by one.
LEMMA OneLess == ASSUME NEW S, IsFiniteSet(S), NEW x \in S
                 PROVE  Cardinality(S \ {x}) = Cardinality(S) - 1
  BY FS_RemoveElement

\* A newcomer makes it larger by one.
LEMMA OneMore == ASSUME NEW S, IsFiniteSet(S), NEW x, x \notin S
                 PROVE  Cardinality(S \cup {x}) = Cardinality(S) + 1
  BY FS_AddElement

\* A finite set is empty exactly when it has no members to count.
LEMMA NoMembers == ASSUME NEW S, IsFiniteSet(S)
                   PROVE  (Cardinality(S) = 0) <=> (S = {})
  BY FS_EmptySet

-----------------------------------------------------------------------------
(* The inductive invariant                                                 *)

\* The invariant holds at the start.
LEMMA InitIInv == Init => IInv
<1> SUFFICES ASSUME Init PROVE IInv
  OBVIOUS
<1> USE ConstAssumption DEF ConstAssumption, Init
<1>1. TypeOK
  <2>1. batch_no \in 0..(BatchNoMod - 1)
    OBVIOUS
  <2>2. pc \in [Diners -> DinerPC] /\ rpc \in RestaurantPC
    BY DEF DinerPC, RestaurantPC
  <2>3. num_served \in 0..BatchSize /\ num_waiting \in 0..BatchSize
    OBVIOUS
  <2> QED
    BY <2>1, <2>2, <2>3 DEF TypeOK
<1>2. Counted = {} /\ Seated = {}
  BY DEF Counted, Seated
<1>3. CountersAgree
  BY <1>2, FS_EmptySet DEF CountersAgree
<1>4. Phase /\ NoLostWakeup /\ BackDoor
  BY DEF Phase, NoLostWakeup, BackDoor, At
<1> QED
  BY <1>1, <1>3, <1>4 DEF IInv

\* Steps that leave the counters and the groups as they are.
LEMMA GroupsKept ==
    ASSUME Counted' = Counted, Seated' = Seated, CountersAgree,
           UNCHANGED num_waiting, UNCHANGED num_served,
           (num_served = 0 \/ rpc = "barrier") <=> (num_served = 0 \/ rpc' = "barrier")
    PROVE  CountersAgree'
  BY DEF CountersAgree

\* Main, which starts and counts the threads, keeps the invariant.
LEMMA MainKeeps == IInv /\ MainStep => IInv'
<1> SUFFICES ASSUME IInv, MainStep PROVE IInv'
  OBVIOUS
<1> USE ConstAssumption DEF ConstAssumption, IInv
<1>1. ASSUME NEW d \in Diners, CreateDiner(d) PROVE IInv'
  <2> USE <1>1 DEF CreateDiner
  <2>1. TypeOK'
    BY DEF TypeOK, DinerPC
  <2>2. Counted' = Counted /\ Seated' = Seated
    BY DEF TypeOK, Counted, Seated
  <2>3. CountersAgree'
    BY <2>2, GroupsKept
  <2>4. Phase' /\ NoLostWakeup' /\ BackDoor'
    BY DEF TypeOK, Phase, NoLostWakeup, BackDoor, At
  <2> QED
    BY <2>1, <2>3, <2>4
<1>2. CASE StopCreating
  BY <1>2 DEF StopCreating, TypeOK, CountersAgree, Counted, Seated, Phase,
              NoLostWakeup, BackDoor, At
<1>3. CASE JoinDiners
  BY <1>3 DEF JoinDiners, TypeOK, CountersAgree, Counted, Seated, Phase,
              NoLostWakeup, BackDoor, At
<1> QED
  BY <1>1, <1>2, <1>3 DEF MainStep

\* So does a diner that arrives,
LEMMA ArriveKeeps == ASSUME NEW d \in Diners, IInv, Arrive(d) PROVE IInv'
<1> USE ConstAssumption DEF ConstAssumption, IInv, Arrive, BatchFull,
        SignalRestaurant
<1>1. num_served = 0 /\ num_waiting < BatchSize /\ rpc # "barrier"
  BY DEF TypeOK, Phase
<1>2. rpc' # "barrier" /\ num_waiting' = num_waiting + 1 /\ num_served' = 0
  BY <1>1
<1>3. TypeOK'
  BY <1>1, <1>2 DEF TypeOK, DinerPC, RestaurantPC
<1>4. Counted' = Counted \cup {d} /\ d \notin Counted /\ Seated' = Seated
  BY DEF TypeOK, Counted, Seated
<1>5. Cardinality(Counted') = num_waiting' /\ Seated' = {}
  BY <1>1, <1>2, <1>4, FiniteGroups, OneMore DEF CountersAgree
<1>6. CountersAgree'
  BY <1>2, <1>5 DEF CountersAgree
<1>7. Phase' /\ BackDoor'
  BY <1>1, <1>2 DEF TypeOK, Phase, BackDoor, At, RestaurantPC
<1>8. NoLostWakeup'
  BY <1>1, <1>2 DEF TypeOK, NoLostWakeup, At, RestaurantPC
<1> QED
  BY <1>3, <1>6, <1>7, <1>8

\* one that leaves while others of its batch are still seated,
LEMMA LeaveBatchKeeps == ASSUME NEW d \in Diners, IInv, LeaveBatch(d) PROVE IInv'
<1> USE ConstAssumption DEF ConstAssumption, IInv, LeaveBatch
<1>1. d \in Seated /\ Seated' = Seated \ {d} /\ Counted' = Counted
  BY DEF TypeOK, Counted, Seated
<1>2. num_served # 0 /\ rpc # "barrier" /\ Counted = {}
      /\ Cardinality(Seated) = num_served
  BY <1>1 DEF CountersAgree
<1>3. num_served \in 2..BatchSize /\ num_served' = num_served - 1
  BY <1>2 DEF TypeOK
<1>4. TypeOK'
  BY <1>3 DEF TypeOK, DinerPC
<1>5. CountersAgree'
  BY <1>1, <1>2, <1>3, FiniteGroups, OneLess DEF CountersAgree
<1>6. Phase' /\ BackDoor' /\ NoLostWakeup'
  BY <1>2, <1>3 DEF TypeOK, Phase, NoLostWakeup, BackDoor, At, RestaurantPC
<1> QED
  BY <1>4, <1>5, <1>6

\* the last of a batch, who opens the back door,
LEMMA LeaveLastKeeps == ASSUME NEW d \in Diners, IInv, LeaveLast(d) PROVE IInv'
<1> USE ConstAssumption DEF ConstAssumption, IInv, LeaveLast, SignalRestaurant,
        Broadcast
<1>1. d \in Seated /\ Seated' = Seated \ {d} /\ Counted' = Counted
  BY DEF TypeOK, Counted, Seated
<1>2. rpc # "barrier" /\ Counted = {} /\ Cardinality(Seated) = 1
  BY <1>1 DEF CountersAgree
<1>3. Cardinality(Seated') = 0
  BY <1>1, <1>2, FiniteGroups, OneLess
<1>4. Seated' = {}
  BY <1>1, <1>3, FiniteGroups, FS_RemoveElement, NoMembers
<1>5. TypeOK'
  <2>1. pc' \in [Diners -> DinerPC]
    BY DEF TypeOK, DinerPC
  <2>2. batch_no' \in 0..(BatchNoMod - 1)
    <3>1. batch_no + 1 \in Nat /\ BatchNoMod \in Nat /\ BatchNoMod > 0
      BY DEF TypeOK
    <3> QED
      BY <3>1
  <2>3. num_served' \in 0..BatchSize /\ num_waiting' \in 0..BatchSize
    OBVIOUS
  <2>4. rpc' \in RestaurantPC /\ isBackReady' \in BOOLEAN
    BY DEF TypeOK, RestaurantPC
  <2> QED
    BY <2>1, <2>2, <2>3, <2>4 DEF TypeOK
<1>6. CountersAgree'
  BY <1>1, <1>2, <1>4, FS_EmptySet DEF CountersAgree
<1>7. rpc = "closing" \/ rpc = "back_door_cond"
  BY <1>2 DEF TypeOK, Phase, RestaurantPC
<1>8. At("leaving")' = {} /\ At("entry_cond")' = {} /\ At("front_door_cond")' = {}
  <2>1. At("leaving")' \subseteq Seated'
    BY DEF At, Seated
  <2>2. At("front_door_cond")' \subseteq Counted'
    BY DEF At, Counted
  <2>3. At("entry_cond")' = {}
    BY DEF At, TypeOK
  <2> QED
    BY <1>1, <1>2, <1>4, <2>1, <2>2, <2>3
<1>9. Phase' /\ NoLostWakeup' /\ BackDoor'
  BY <1>7, <1>8 DEF TypeOK, Phase, NoLostWakeup, BackDoor
<1> QED
  BY <1>5, <1>6, <1>9

\* The steps of a diner that touch no counter.
LEMMA DinerKeeps == ASSUME NEW d \in Diners, IInv, DinerStep(d) PROVE IInv'
<1> USE ConstAssumption DEF ConstAssumption, IInv
<1>1. CASE WaitEntry(d)
  <2> USE <1>1 DEF WaitEntry, BatchFull
  <2>1. Counted' = Counted /\ Seated' = Seated
    BY DEF TypeOK, Counted, Seated
  <2> QED
    BY <2>1, GroupsKept DEF TypeOK, DinerPC, Phase, NoLostWakeup, BackDoor, At
<1>2. CASE Enter(d)
  <2> USE <1>2 DEF Enter
  <2>1. Counted' = Counted /\ Seated' = Seated
    BY DEF TypeOK, Counted, Seated
  <2> QED
    BY <2>1, GroupsKept DEF TypeOK, DinerPC, Phase, NoLostWakeup, BackDoor, At
<1>3. CASE CheckBackDoor(d)
  <2> USE <1>3 DEF CheckBackDoor
  <2>1. Counted' = Counted /\ Seated' = Seated
    BY DEF TypeOK, Counted, Seated
  <2> QED
    BY <2>1, GroupsKept DEF TypeOK, DinerPC, Phase, NoLostWakeup, BackDoor, At
<1>4. CASE OpenBackDoor(d)
  <2> USE <1>4 DEF OpenBackDoor
  <2>1. Counted' = Counted /\ Seated' = Seated /\ Seated # {}
    BY DEF TypeOK, Counted, Seated
  <2>2. num_served > 0 /\ rpc \in {"closing", "back_door_cond"}
    BY <2>1 DEF TypeOK, CountersAgree, Phase, RestaurantPC
  <2> QED
    BY <2>1, <2>2, GroupsKept
       DEF TypeOK, DinerPC, Phase, NoLostWakeup, BackDoor, At
<1>5. CASE TossCoin(d)
  <2> USE <1>5 DEF TossCoin
  <2>1. Counted' = Counted /\ Seated' = Seated
    BY DEF TypeOK, Counted, Seated
  <2> QED
    BY <2>1, GroupsKept DEF TypeOK, DinerPC, Phase, NoLostWakeup, BackDoor, At
<1> QED
  BY <1>1, <1>2, <1>3, <1>4, <1>5, ArriveKeeps, LeaveBatchKeeps, LeaveLastKeeps
     DEF DinerStep

-----------------------------------------------------------------------------
(* The restaurant thread, the barrier, and spurious wakeups                *)

\* the thread of the restaurant,
LEMMA RestaurantKeeps == IInv /\ RestaurantStep => IInv'
<1> SUFFICES ASSUME IInv, RestaurantStep PROVE IInv'
  OBVIOUS
<1> USE ConstAssumption DEF ConstAssumption, IInv
<1>1. CASE WaitForBatch
  <2> USE <1>1 DEF WaitForBatch
  <2>1. Counted' = Counted /\ Seated' = Seated
    BY DEF Counted, Seated
  <2> QED
    BY <2>1, GroupsKept DEF TypeOK, RestaurantPC, Phase, NoLostWakeup, BackDoor, At
<1>2. CASE OpenFrontDoor
  <2> USE <1>2 DEF OpenFrontDoor, Broadcast
  <2>1. Counted' = Counted /\ Seated' = Seated
    BY DEF TypeOK, Counted, Seated
  <2>2. num_served = 0 /\ num_waiting = BatchSize
    BY DEF TypeOK, Phase
  <2>3. CountersAgree'
    BY <2>1, <2>2 DEF CountersAgree
  <2>4. TypeOK'
    BY DEF TypeOK, DinerPC, RestaurantPC
  <2>5. At("leaving")' = {} /\ At("front_door_cond")' = {}
        /\ At("entry_cond")' = At("entry_cond")
    <3>1. Seated = {} /\ At("leaving")' \subseteq Seated'
      BY <2>2 DEF CountersAgree, At, Seated
    <3>2. At("front_door_cond")' = {}
      BY DEF TypeOK, At
    <3>3. At("entry_cond")' = At("entry_cond")
      BY DEF TypeOK, At
    <3> QED
      BY <2>1, <3>1, <3>2, <3>3
  <2>6. Phase' /\ NoLostWakeup' /\ BackDoor'
    BY <2>2, <2>5 DEF TypeOK, Phase, NoLostWakeup, BackDoor
  <2> QED
    BY <2>3, <2>4, <2>6
<1>3. CASE WaitForLeavers
  <2> USE <1>3 DEF WaitForLeavers
  <2>1. Counted' = Counted /\ Seated' = Seated
    BY DEF Counted, Seated
  <2>2. At("front_door_cond") = {}
    <3>1. At("front_door_cond") \subseteq Counted
      BY DEF At, Counted
    <3> QED
      BY <3>1 DEF TypeOK, CountersAgree
  <2> QED
    BY <2>1, <2>2, GroupsKept
       DEF TypeOK, RestaurantPC, Phase, NoLostWakeup, BackDoor, At
<1>4. CASE CloseBackDoor
  <2> USE <1>4 DEF CloseBackDoor
  <2>1. Counted' = Counted /\ Seated' = Seated /\ num_served = 0
    BY DEF TypeOK, Counted, Seated
  <2> QED
    BY <2>1, GroupsKept DEF TypeOK, RestaurantPC, Phase, NoLostWakeup, BackDoor, At
<1> QED
  BY <1>1, <1>2, <1>3, <1>4 DEF RestaurantStep

\* Only a whole batch together with the restaurant can trip the barrier: the
\* diners that have come to it are the batch that was counted.
LEMMA TripIsComplete ==
    IInv /\ BarrierTrips => rpc = "barrier" /\ At("barrier") = Counted
<1> SUFFICES ASSUME IInv, BarrierTrips
             PROVE  rpc = "barrier" /\ At("barrier") = Counted
  OBVIOUS
<1> USE ConstAssumption DEF ConstAssumption, IInv
<1>1. At("barrier") \subseteq Counted
  BY DEF At, Counted
<1>2. Cardinality(Counted) <= BatchSize
  <2>1. CASE num_served = 0 \/ rpc = "barrier"
    BY <2>1 DEF TypeOK, CountersAgree
  <2>2. CASE ~(num_served = 0 \/ rpc = "barrier")
    BY <2>2, FS_EmptySet DEF CountersAgree
  <2> QED
    BY <2>1, <2>2
<1>3. IsFiniteSet(At("barrier")) /\ Cardinality(At("barrier")) \in Nat
      /\ Cardinality(At("barrier")) <= Cardinality(Counted)
  BY <1>1, FiniteGroups, FS_Subset, FS_CardinalityType
<1>4. rpc = "barrier" /\ Cardinality(At("barrier")) = BatchSize
  BY <1>2, <1>3, FiniteGroups DEF BarrierTrips, BarrierCount
<1>5. Cardinality(At("barrier")) = Cardinality(Counted)
  BY <1>2, <1>3, <1>4, FiniteGroups
<1> QED
  BY <1>1, <1>4, <1>5, FiniteGroups, FS_Subset

\* the barrier when all have reached it,
LEMMA TripKeeps == IInv /\ BarrierTrips => IInv'
<1> SUFFICES ASSUME IInv, BarrierTrips PROVE IInv'
  OBVIOUS
<1> USE ConstAssumption DEF ConstAssumption, IInv, BarrierTrips, Broadcast
<1>1. rpc = "barrier" /\ At("barrier") = Counted
  BY TripIsComplete
<1>2. num_served = BatchSize /\ num_waiting = BatchSize /\ Seated = {}
      /\ Cardinality(Counted) = BatchSize
  BY <1>1 DEF Phase, CountersAgree
<1>3. Counted' = {} /\ Seated' = Counted
  <2>1. \A d \in Diners : pc[d] \in {"front_door_cond", "entering", "barrier"}
                            <=> pc[d] = "barrier"
    BY <1>1 DEF At, Counted
  <2>2. \A d \in Diners : pc[d] \notin {"dining", "opening", "leaving"}
    BY <1>2 DEF Seated
  <2> QED
    BY <2>1, <2>2 DEF Counted, Seated
<1>4. CountersAgree'
  <2>1. CASE BatchSize = 0
    BY <1>1, <1>2, <1>3, <2>1, FiniteGroups, NoMembers DEF CountersAgree
  <2>2. CASE BatchSize # 0
    BY <1>1, <1>2, <1>3, <2>2 DEF CountersAgree
  <2> QED
    BY <2>1, <2>2
<1>5. TypeOK'
  BY <1>1 DEF TypeOK, DinerPC, RestaurantPC
<1>6. At("leaving")' = {} /\ At("front_door_cond")' = {}
      /\ At("entry_cond")' = At("entry_cond")
  <2>1. At("leaving")' = {}
    BY <1>2 DEF TypeOK, At, Seated
  <2>2. At("front_door_cond")' = {}
    BY <1>3 DEF At, Counted
  <2>3. At("entry_cond")' = At("entry_cond")
    BY DEF TypeOK, At
  <2> QED
    BY <2>1, <2>2, <2>3
<1>7. Phase' /\ NoLostWakeup' /\ BackDoor'
  BY <1>1, <1>2, <1>6 DEF TypeOK, Phase, NoLostWakeup, BackDoor
<1> QED
  BY <1>4, <1>5, <1>7

\* a wakeup that nobody sent,
LEMMA SpuriousKeeps ==
    ASSUME IInv,
           (\E d \in Diners : SpuriousWakeDiner(d)) \/ SpuriousWakeRestaurant
    PROVE  IInv'
<1> USE ConstAssumption DEF ConstAssumption, IInv
<1>1. ASSUME NEW d \in Diners, SpuriousWakeDiner(d) PROVE IInv'
  <2> USE <1>1 DEF SpuriousWakeDiner
  <2>1. Counted' = Counted /\ Seated' = Seated
    BY DEF TypeOK, Counted, Seated
  <2>2. TypeOK' /\ CountersAgree' /\ Phase'
    BY <2>1, GroupsKept DEF TypeOK, DinerPC, Phase
  <2>3. /\ At("leaving")' = At("leaving")
        /\ At("entry_cond")' \subseteq At("entry_cond")
        /\ At("front_door_cond")' \subseteq At("front_door_cond")
    BY DEF TypeOK, At
  <2>4. NoLostWakeup' /\ BackDoor'
    BY <2>3 DEF NoLostWakeup, BackDoor
  <2> QED
    BY <2>2, <2>4
<1>2. CASE SpuriousWakeRestaurant
  <2> USE <1>2 DEF SpuriousWakeRestaurant
  <2>1. Counted' = Counted /\ Seated' = Seated
    BY DEF Counted, Seated
  <2>2. CountersAgree'
    BY <2>1, GroupsKept DEF TypeOK
  <2> QED
    BY <2>2 DEF TypeOK, RestaurantPC, Phase, NoLostWakeup, BackDoor, At
<1> QED
  BY <1>1, <1>2

\* and a step that changes nothing.
LEMMA StutterKeeps == IInv /\ UNCHANGED vars => IInv'
  BY DEF IInv, vars, TypeOK, CountersAgree, Counted, Seated, Phase,
         NoLostWakeup, BackDoor, At

\* Every step keeps the invariant.
LEMMA NextKeeps == IInv /\ [Next]_vars => IInv'
  BY MainKeeps, DinerKeeps, RestaurantKeeps, TripKeeps, SpuriousKeeps,
     StutterKeeps DEF Next
-----------------------------------------------------------------------------
(* The theorems                                                            *)

\* The inductive invariant holds in every state of every run.
THEOREM Invariance == Spec => []IInv
<1>1. Init => IInv
  BY InitIInv
<1>2. IInv /\ [Next]_vars => IInv'
  BY NextKeeps
<1> QED
  BY <1>1, <1>2, PTL DEF Spec

\* Every variable always has a value of its type.
THEOREM TypesHold == Spec => []TypeOK
<1>1. IInv => TypeOK
  BY DEF IInv
<1> QED
  BY <1>1, Invariance, PTL

\* num_waiting and num_served always count the diners they are meant to
\* (lines 42-66, 98), so no two batches are ever past the barrier.
THEOREM CountersHold == Spec => []CountersAgree
<1>1. IInv => CountersAgree
  BY DEF IInv
<1> QED
  BY <1>1, Invariance, PTL

\* Nobody sleeps on a condition variable whose condition already holds
\* (lines 38, 51, 96, 108).
THEOREM NoWakeupIsLost == Spec => []NoLostWakeup
<1>1. IInv => NoLostWakeup
  BY DEF IInv
<1> QED
  BY <1>1, Invariance, PTL

\* The unlocked check-then-set of the back door (lines 59-63) never leaves it
\* open for the next batch.
THEOREM BackDoorHolds == Spec => []BackDoor
<1>1. IInv => BackDoor
  BY DEF IInv
<1> QED
  BY <1>1, Invariance, PTL

\* The batch number cannot change under a diner between its three prints
\* (lines 52, 57, 65).
THEOREM BatchNoIsStable == Spec => BatchNoStable
<1> DEFINE Someone == \E d \in Diners : pc[d] \in Entered /\ pc'[d] \in Entered
<1>1. ASSUME IInv, [Next]_vars, Someone PROVE batch_no' = batch_no
  <2> USE <1>1 DEF IInv
  <2>1. CASE \E d \in Diners : LeaveLast(d)
    <3>1. PICK d \in Diners : LeaveLast(d)
      BY <2>1
    <3>2. Seated' = {} /\ Counted = {}
      <4>1. Counted = {} /\ Cardinality(Seated) = 1 /\ d \in Seated
        <5>1. d \in Seated
          BY <3>1 DEF LeaveLast, Seated
        <5> QED
          BY <3>1, <5>1 DEF LeaveLast, CountersAgree
      <4>2. Seated' = Seated \ {d}
        BY <3>1 DEF LeaveLast, Broadcast, TypeOK, Seated
      <4>3. IsFiniteSet(Seated \ {d}) /\ Cardinality(Seated \ {d}) = 0
        BY <4>1, FiniteGroups, OneLess, FS_RemoveElement
      <4> QED
        BY <4>1, <4>2, <4>3, NoMembers
    <3>3. PICK e \in Diners : pc[e] \in Entered /\ pc'[e] \in Entered
      BY <1>1
    <3>4. e \in Seated
      BY <3>2, <3>3 DEF Entered, Seated, Counted
    <3>5. pc'[e] = "barrier"
      BY <3>2, <3>3 DEF Entered, Seated
    <3>6. pc[e] # pc'[e] /\ pc'[e] # "barrier"
      BY <3>1, <3>3, <3>4, <3>5 DEF LeaveLast, Broadcast, TypeOK, Seated
    <3> QED
      BY <3>5, <3>6
  <2>2. CASE ~(\E d \in Diners : LeaveLast(d))
    BY <2>2 DEF Next, vars, MainStep, DinerStep, RestaurantStep, CreateDiner,
                StopCreating, JoinDiners, WaitEntry, Arrive, Enter,
                CheckBackDoor, OpenBackDoor, LeaveBatch, TossCoin,
                WaitForBatch, OpenFrontDoor, WaitForLeavers, CloseBackDoor,
                BarrierTrips, SpuriousWakeDiner, SpuriousWakeRestaurant
  <2> QED
    BY <2>1, <2>2
<1>2. IInv /\ [Next]_vars => [Someone => batch_no' = batch_no]_vars
  BY <1>1
<1>3. Spec => [][Someone => batch_no' = batch_no]_vars
  BY <1>2, Invariance, PTL DEF Spec
<1> QED
  BY <1>3 DEF BatchNoStable

\* The service counts a set the way the threads' module does.
LEMMA SameCount == ASSUME NEW S PROVE Service!Cardinality(S) = Cardinality(S)
  BY DEF Cardinality, Service!Cardinality

\* Every step of the threads is a step of the batch service or none at all:
\* batches of exactly BatchSize, one at a time.
THEOREM ImplementsService == Spec => Service!SafeSpec
<1>1. Init => Service!Init
  BY DEF Init, Service!Init, Counted, Seated
<1>2. ASSUME IInv, [Next]_vars PROVE [Service!Next]_(Service!vars)
  <2> USE <1>2, ConstAssumption DEF ConstAssumption, IInv
  <2>1. ASSUME NEW d \in Diners, Arrive(d) PROVE Service!Gather(d)
    <3>1. num_served = 0 /\ num_waiting < BatchSize
      BY <2>1 DEF Arrive, BatchFull, TypeOK, Phase
    <3>2. Counted' = Counted \cup {d} /\ d \notin Counted /\ Seated' = Seated
      BY <2>1 DEF Arrive, TypeOK, Counted, Seated
    <3> QED
      BY <3>1, <3>2, SameCount DEF TypeOK, CountersAgree, Service!Gather
  <2>2. ASSUME NEW d \in Diners, LeaveBatch(d) \/ LeaveLast(d)
        PROVE  Service!Leave(d)
    <3>1. d \in Seated /\ Seated' = Seated \ {d} /\ Counted' = Counted
      BY <2>2 DEF LeaveBatch, LeaveLast, Broadcast, TypeOK, Counted, Seated
    <3> QED
      BY <3>1 DEF Service!Leave
  <2>3. ASSUME BarrierTrips PROVE Service!Seat
    <3>1. rpc = "barrier" /\ At("barrier") = Counted
      BY <2>3, TripIsComplete
    <3>2. Seated = {} /\ Cardinality(Counted) = BatchSize
      BY <3>1 DEF Phase, CountersAgree
    <3>3. Counted' = {} /\ Seated' = Counted
      <4>1. \A d \in Diners :
              pc[d] \in {"front_door_cond", "entering", "barrier"}
                <=> pc[d] = "barrier"
        BY <3>1 DEF At, Counted
      <4>2. \A d \in Diners : pc[d] \notin {"dining", "opening", "leaving"}
        BY <3>2 DEF Seated
      <4> QED
        BY <2>3, <4>1, <4>2 DEF BarrierTrips, Broadcast, Counted, Seated
    <3> QED
      BY <3>2, <3>3, SameCount DEF Service!Seat
  <2>4. ASSUME NEW d \in Diners,
               \/ CreateDiner(d) \/ WaitEntry(d) \/ Enter(d)
               \/ CheckBackDoor(d) \/ OpenBackDoor(d) \/ TossCoin(d)
               \/ SpuriousWakeDiner(d)
        PROVE  UNCHANGED Service!vars
    BY <2>4 DEF CreateDiner, WaitEntry, Enter, CheckBackDoor, OpenBackDoor,
                TossCoin, SpuriousWakeDiner, TypeOK, Counted, Seated,
                Service!vars
  <2>5. ASSUME \/ StopCreating \/ JoinDiners \/ RestaurantStep
               \/ SpuriousWakeRestaurant \/ UNCHANGED vars
        PROVE  UNCHANGED Service!vars
    BY <2>5 DEF StopCreating, JoinDiners, RestaurantStep, WaitForBatch,
                OpenFrontDoor, WaitForLeavers, CloseBackDoor,
                SpuriousWakeRestaurant, Broadcast, vars, TypeOK, Counted,
                Seated, Service!vars
  <2> QED
    BY <2>1, <2>2, <2>3, <2>4, <2>5
       DEF Next, MainStep, DinerStep, Service!Next
<1> QED
  BY <1>1, <1>2, Invariance, PTL DEF Spec, Service!SafeSpec

-----------------------------------------------------------------------------
(* The bridge                                                              *)

GatesInv == BridgeTypeOK /\ CountsAgree /\ LockedHasReleaser

-----------------------------------------------------------------------------
(* Directions and groups                                                   *)

\* The two directions are different, and each villager has one.
LEMMA Directions ==
    /\ \A t \in Villagers : /\ Dir(t) \in Dirs /\ Other(Dir(t)) \in Dirs
                            /\ Other(Dir(t)) # Dir(t)
    /\ \A d, f \in Dirs : f # d => f = Other(d)
  BY DEF Dir, Dirs, Other

\* The villagers counted on the bridge are finitely many.
LEMMA FiniteBridge ==
    \A d \in Dirs : /\ IsFiniteSet(OnBridge(d))
                    /\ Cardinality(OnBridge(d)) \in Nat
<1> SUFFICES ASSUME NEW d \in Dirs
             PROVE  IsFiniteSet(OnBridge(d)) /\ Cardinality(OnBridge(d)) \in Nat
  OBVIOUS
<1>1. IsFiniteSet(Villagers)
  BY FS_Union, BridgeAssumption DEF BridgeAssumption, Villagers
<1>2. OnBridge(d) \subseteq Villagers
  BY DEF OnBridge
<1> QED
  BY <1>1, <1>2, FS_Subset, FS_CardinalityType

\* The invariant holds at the start.
LEMMA InitGates == BridgeInit => GatesInv
<1> SUFFICES ASSUME BridgeInit PROVE GatesInv
  OBVIOUS
<1> USE DEF BridgeInit
<1>1. BridgeTypeOK
  <2>1. locked \in [Dirs -> BOOLEAN] /\ flag \in [Villagers -> BOOLEAN]
    OBVIOUS
  <2>2. count \in [Dirs -> Nat]
    OBVIOUS
  <2>3. villager_pc \in [Villagers -> {"start"}]
    OBVIOUS
  <2> QED
    BY <2>1, <2>2, <2>3 DEF BridgeTypeOK
<1>2. \A d \in Dirs : OnBridge(d) = {}
  BY DEF OnBridge
<1>3. CountsAgree
  BY <1>2, FS_EmptySet DEF CountsAgree
<1>4. LockedHasReleaser
  BY DEF LockedHasReleaser
<1> QED
  BY <1>1, <1>3, <1>4 DEF GatesInv

-----------------------------------------------------------------------------
(* The counters                                                            *)

\* A step keeps the types; a villager that is counted out was counted in.
LEMMA BridgeTypeKept ==
    ASSUME NEW t \in Villagers, GatesInv, Step(t)
    PROVE  BridgeTypeOK'
<1> USE Directions DEF GatesInv, BridgeTypeOK, Goto, Lock, Unlock
<1>1. count' \in [Dirs -> Nat]
  <2>1. CASE CountOut(t)
    <3>1. t \in OnBridge(Dir(t))
      BY <2>1 DEF CountOut, OnBridge
    <3>2. OnBridge(Dir(t)) # {} /\ IsFiniteSet(OnBridge(Dir(t)))
      BY <3>1, FiniteBridge
    <3>3. Cardinality(OnBridge(Dir(t))) # 0
      BY <3>2, FS_EmptySet
    <3>4. count[Dir(t)] # 0
      BY <3>3 DEF CountsAgree
    <3> QED
      BY <2>1, <3>4 DEF CountOut
  <2>2. CASE CountIn(t)
    BY <2>2 DEF CountIn
  <2>3. CASE count' = count
    BY <2>3
  <2> QED
    BY <2>1, <2>2, <2>3 DEF Step, EnterGate, SeeFirst, BlockOther, KeepGate,
                            ReleaseGate, ReopenGate, UnblockOther
<1>2. locked' \in [Dirs -> BOOLEAN] /\ flag' \in [Villagers -> BOOLEAN]
  BY DEF Step, EnterGate, CountIn, SeeFirst, BlockOther, KeepGate, ReleaseGate,
         CountOut, ReopenGate, UnblockOther
<1>3. villager_pc' \in [Villagers -> {"start", "count", "first", "block", "starve",
                                             "walk", "reopen", "unblock", "gone"}]
  BY DEF Step, EnterGate, CountIn, SeeFirst, BlockOther, KeepGate, ReleaseGate,
         CountOut, ReopenGate, UnblockOther
<1> QED
  BY <1>1, <1>2, <1>3

\* A step keeps the counts equal to the villagers on the bridge.
LEMMA CountsKept ==
    ASSUME NEW t \in Villagers, GatesInv, Step(t)
    PROVE  CountsAgree'
<1> USE Directions DEF GatesInv, Goto
<1>1. CASE CountIn(t)
  <2> DEFINE D == Dir(t)
  <2>1. OnBridge(D)' = OnBridge(D) \cup {t} /\ t \notin OnBridge(D)
    BY <1>1 DEF CountIn, BridgeTypeOK, OnBridge
  <2>2. OnBridge(Other(D))' = OnBridge(Other(D))
    BY <1>1 DEF CountIn, BridgeTypeOK, OnBridge
  <2>3. Cardinality(OnBridge(D)') = Cardinality(OnBridge(D)) + 1
    BY <2>1, FiniteBridge, FS_AddElement
  <2>4. count'[D] = count[D] + 1 /\ count'[Other(D)] = count[Other(D)]
    BY <1>1 DEF CountIn, BridgeTypeOK
  <2> QED
    BY <2>2, <2>3, <2>4 DEF CountsAgree
<1>2. CASE CountOut(t)
  <2> DEFINE D == Dir(t)
  <2>1. OnBridge(D)' = OnBridge(D) \ {t} /\ t \in OnBridge(D)
    BY <1>2 DEF CountOut, BridgeTypeOK, OnBridge
  <2>2. OnBridge(Other(D))' = OnBridge(Other(D))
    BY <1>2 DEF CountOut, BridgeTypeOK, OnBridge
  <2>3. Cardinality(OnBridge(D)') = Cardinality(OnBridge(D)) - 1
    BY <2>1, FiniteBridge, FS_RemoveElement
  <2>4. count'[D] = count[D] - 1 /\ count'[Other(D)] = count[Other(D)]
    BY <1>2 DEF CountOut, BridgeTypeOK
  <2> QED
    BY <2>2, <2>3, <2>4 DEF CountsAgree
<1>3. CASE ~CountIn(t) /\ ~CountOut(t)
  <2>1. count' = count
    BY <1>3 DEF Step, EnterGate, SeeFirst, BlockOther, KeepGate, ReleaseGate,
                ReopenGate, UnblockOther
  <2>2. \A d \in Dirs : OnBridge(d)' = OnBridge(d)
    BY <1>3 DEF Step, EnterGate, SeeFirst, BlockOther, KeepGate, ReleaseGate,
                ReopenGate, UnblockOther, BridgeTypeOK, OnBridge
  <2> QED
    BY <2>1, <2>2 DEF CountsAgree
<1> QED
  BY <1>1, <1>2, <1>3

-----------------------------------------------------------------------------
(* The gates                                                               *)

\* A step changes the releasers of a gate only in the place of the thread
\* that takes it, and it takes that thread out only by unlocking the gate.
LEMMA ReleasersKept == ASSUME NEW t \in Villagers, GatesInv, Step(t), NEW d \in Dirs,
                              locked'[d]
                       PROVE  Releasers(d)' # {}
<1> USE Directions DEF GatesInv, BridgeTypeOK, Goto, Lock, Unlock
<1>1. CASE ~locked[d]
  <2>1. (EnterGate(t) /\ d = Dir(t)) \/ (BlockOther(t) /\ d = Other(Dir(t)))
    BY <1>1 DEF Step, EnterGate, CountIn, SeeFirst, BlockOther, KeepGate,
                ReleaseGate, CountOut, ReopenGate, UnblockOther
  <2>2. t \in Releasers(d)'
    BY <2>1 DEF EnterGate, BlockOther, Releasers
  <2> QED
    BY <2>2
<1>2. CASE locked[d]
  <2>1. PICK u \in Villagers : u \in Releasers(d)
    BY <1>2 DEF LockedHasReleaser, Releasers
  <2>2. CASE u # t
    <3>1. villager_pc'[u] = villager_pc[u] /\ flag'[u] = flag[u]
      BY <2>2 DEF Step, EnterGate, CountIn, SeeFirst, BlockOther, KeepGate,
                  ReleaseGate, CountOut, ReopenGate, UnblockOther
    <3>2. u \in Releasers(d)'
      BY <2>1, <3>1 DEF Releasers
    <3> QED
      BY <3>2
  <2>3. CASE u = t
    <3>1. ~(ReleaseGate(t) /\ d = Dir(t))
      BY DEF ReleaseGate
    <3>2. ~(UnblockOther(t) /\ d = Other(Dir(t)))
      BY DEF UnblockOther
    <3>3. ~(ReopenGate(t) /\ d = Dir(t) /\ flag[t])
      BY DEF ReopenGate
    <3>4. t \in Releasers(d)'
      <4>1. CASE d = Dir(t)
        BY <2>1, <2>3, <3>1, <3>3, <4>1
           DEF Step, EnterGate, CountIn, SeeFirst, BlockOther, KeepGate,
               ReleaseGate, CountOut, ReopenGate, UnblockOther, Releasers
      <4>2. CASE d = Other(Dir(t))
        BY <2>1, <2>3, <3>2, <4>2
           DEF Step, EnterGate, CountIn, SeeFirst, BlockOther, KeepGate,
               ReleaseGate, CountOut, ReopenGate, UnblockOther, Releasers
      <4> QED
        BY <4>1, <4>2
    <3> QED
      BY <3>4
  <2> QED
    BY <2>2, <2>3
<1> QED
  BY <1>1, <1>2

\* Every step keeps the invariant.
LEMMA GatesKept == GatesInv /\ [BridgeNext]_(bridge_vars) => GatesInv'
<1> SUFFICES ASSUME GatesInv, [BridgeNext]_(bridge_vars) PROVE GatesInv'
  OBVIOUS
<1>1. CASE BridgeNext
  <2>1. PICK t \in Villagers : Step(t)
    BY <1>1 DEF BridgeNext
  <2>2. LockedHasReleaser'
    BY <2>1, ReleasersKept DEF LockedHasReleaser
  <2> QED
    BY <2>1, <2>2, BridgeTypeKept, CountsKept DEF GatesInv
<1>2. CASE UNCHANGED bridge_vars
  BY <1>2
     DEF GatesInv, bridge_vars, BridgeTypeOK, CountsAgree, OnBridge, LockedHasReleaser,
         Releasers
<1> QED
  BY <1>1, <1>2

-----------------------------------------------------------------------------
(* The theorems                                                            *)

\* The inductive invariant holds in every state of every run.
THEOREM GatesInvariance == BridgeSpec => []GatesInv
<1>1. BridgeInit => GatesInv
  BY InitGates
<1>2. GatesInv /\ [BridgeNext]_(bridge_vars) => GatesInv'
  BY GatesKept
<1> QED
  BY <1>1, <1>2, PTL DEF BridgeSpec

\* Each counter is the number of villagers of its direction on the bridge
\* (lines 28-46, 62-78).
THEOREM CountsHold == BridgeSpec => []CountsAgree
<1>1. GatesInv => CountsAgree
  BY DEF GatesInv
<1> QED
  BY <1>1, GatesInvariance, PTL

\* A locked gate is never left without a thread that will unlock it, although
\* threads unlock gates they did not lock (lines 40, 48-49, 73, 80-81).
THEOREM GatesHaveReleasers == BridgeSpec => []LockedHasReleaser
<1>1. GatesInv => LockedHasReleaser
  BY DEF GatesInv
<1> QED
  BY <1>1, GatesInvariance, PTL

\* If nobody can move, a first villager of each direction holds its own gate
\* and waits for the other's (lines 31 and 66): there is no other deadlock.
THEOREM OnlyCrossedLocks == BridgeSpec => []StuckOnlyCrossed
<1>1. ASSUME GatesInv, Stuck PROVE Crossed
  <2> USE <1>1, Directions DEF GatesInv
  <2>1. \A d \in Dirs : locked[d] =>
          \E t \in Villagers : villager_pc[t] = "block" /\ Dir(t) = d
    <3> SUFFICES ASSUME NEW d \in Dirs, locked[d]
                 PROVE  \E t \in Villagers : villager_pc[t] = "block" /\ Dir(t) = d
      OBVIOUS
    <3>1. PICK t \in Villagers : t \in Releasers(d)
      BY DEF LockedHasReleaser, Releasers
    <3>2. Blocked(t)
      BY DEF Stuck
    <3> QED
      BY <3>1, <3>2 DEF Blocked, Releasers
  <2>2. PICK t \in Villagers : villager_pc[t] # "gone"
    BY DEF Stuck, AllGone
  <2>3. \E d \in Dirs : locked[d]
    BY <2>2 DEF Stuck, Blocked
  <2>4. PICK u \in Villagers : villager_pc[u] = "block"
    BY <2>1, <2>3
  <2>5. locked[Other(Dir(u))]
    BY <2>4 DEF Stuck, Blocked
  <2>6. PICK v \in Villagers : villager_pc[v] = "block" /\ Dir(v) = Other(Dir(u))
    BY <2>1, <2>5
  <2> QED
    BY <2>4, <2>6 DEF Crossed
<1>2. GatesInv => StuckOnlyCrossed
  BY <1>1 DEF StuckOnlyCrossed
<1> QED
  BY <1>2, GatesInvariance, PTL

-----------------------------------------------------------------------------
(* One direction at a time                                                 *)

\* The villagers that hold the gate of their own direction.
Coming(d) ==
    {t \in Villagers : Dir(t) = d /\ \/ villager_pc[t] \in {"count", "first", "block", "starve"}
                                     \/ flag[t] /\ villager_pc[t] \in {"walk", "reopen"}}

\* Those past the question whether they are the first.
Passed(d) ==
    {t \in Villagers : Dir(t) = d /\ villager_pc[t] \in {"starve", "walk", "reopen", "unblock"}}

\* Nobody has unlocked d's gate from the other side.
Undisturbed(d) == \A t \in Villagers : Dir(t) # d => villager_pc[t] # "gone"

\* Nobody has set out from the other side.
WayOpen(d) == \A t \in Villagers : Dir(t) # d => villager_pc[t] = "start"

\* A gate that nobody unlocked from the other side has one holder at most.
OneHolder ==
    \A d \in Dirs : Undisturbed(d) => /\ \A t, u \in Coming(d) : t = u
                                      /\ Coming(d) # {} => locked[d]

\* Whoever may still count itself in finds room.
RoomLeft ==
    \A d \in Dirs : WayOpen(d) =>
      /\ count[d] <= starvecnt
      /\ ~locked[d] => count[d] < starvecnt
      /\ \A t \in Coming(d) : villager_pc[t] \in {"count", "reopen"} => count[d] < starvecnt

\* As long as nobody has left, the first one past its question has locked the
\* other gate, and nobody came in through that.
OneSide ==
    \A d \in Dirs : (\A t \in Villagers : villager_pc[t] # "gone") /\ Passed(d) # {} =>
      locked[Other(d)] /\ WayOpen(d)

\* Only those that found the bridge full keep their gate.
KeepersWalk ==
    \A t \in Villagers : flag[t] => villager_pc[t] \in {"walk", "reopen", "unblock", "gone"}

WayInv == KeepersWalk /\ OneHolder /\ RoomLeft /\ OneSide

\* A step changes the place and the flag of one villager only, which never
\* comes back to its start.
LEMMA OthersStay ==
    ASSUME NEW t \in Villagers, BridgeTypeOK, Step(t)
    PROVE  /\ \A u \in Villagers : u # t => villager_pc'[u] = villager_pc[u] /\ flag'[u] = flag[u]
           /\ villager_pc'[t] # "start" /\ villager_pc[t] # "gone"
BY DEF Step, EnterGate, CountIn, SeeFirst, BlockOther, KeepGate, ReleaseGate,
       CountOut, ReopenGate, UnblockOther, Goto, BridgeTypeOK

\* What a step does to the gates, told apart by whose gate it is.
LEMMA GateSteps ==
    ASSUME NEW t \in Villagers, BridgeTypeOK, Step(t)
    PROVE  /\ \/ locked'[Dir(t)] = locked[Dir(t)]
              \/ ~locked[Dir(t)] /\ locked'[Dir(t)] /\ villager_pc[t] = "start"
              \/ ~locked'[Dir(t)] /\ villager_pc[t] = "starve" /\ villager_pc'[t] = "walk"
                 /\ flag'[t] = flag[t] /\ count[Dir(t)] # starvecnt
              \/ ~locked'[Dir(t)] /\ villager_pc[t] = "reopen" /\ villager_pc'[t] = "unblock"
                   /\ flag[t]
           /\ \/ locked'[Other(Dir(t))] = locked[Other(Dir(t))]
              \/ ~locked[Other(Dir(t))] /\ locked'[Other(Dir(t))]
                 /\ villager_pc[t] = "block" /\ villager_pc'[t] = "starve"
              \/ villager_pc'[t] = "gone"
<1> USE Directions DEF Goto, Lock, Unlock, BridgeTypeOK
<1>1. CASE EnterGate(t) \/ CountIn(t) \/ SeeFirst(t)
  BY <1>1 DEF EnterGate, CountIn, SeeFirst
<1>2. CASE BlockOther(t) \/ KeepGate(t)
  BY <1>2 DEF BlockOther, KeepGate
<1>3. CASE ReleaseGate(t)
  BY <1>3 DEF ReleaseGate
<1>4. CASE CountOut(t) \/ ReopenGate(t) \/ UnblockOther(t)
  BY <1>4 DEF CountOut, ReopenGate, UnblockOther
<1> QED BY <1>1, <1>2, <1>3, <1>4 DEF Step

\* Nobody has passed at the start.
LEMMA InitWay == BridgeInit => WayInv
<1> SUFFICES ASSUME BridgeInit PROVE WayInv
  OBVIOUS
<1>1. \A d \in Dirs : Coming(d) = {} /\ Passed(d) = {}
  BY DEF BridgeInit, Coming, Passed
<1> QED BY <1>1, BridgeAssumption
        DEF BridgeAssumption, BridgeInit, WayInv, KeepersWalk, OneHolder, RoomLeft, OneSide

\* A flag is raised once its villager is on the bridge, never before.
LEMMA KeepersKept ==
    ASSUME NEW t \in Villagers, BridgeTypeOK, KeepersWalk, Step(t)
    PROVE  KeepersWalk'
BY DEF KeepersWalk, Step, EnterGate, CountIn, SeeFirst, BlockOther, KeepGate,
       ReleaseGate, CountOut, ReopenGate, UnblockOther, Goto, BridgeTypeOK

\* What a step makes of the holders of the gates.
LEMMA ComingKept ==
    ASSUME NEW t \in Villagers, BridgeTypeOK, KeepersWalk, Step(t)
    PROVE  /\ Coming(Other(Dir(t)))' = Coming(Other(Dir(t)))
           /\ Coming(Dir(t))' \subseteq Coming(Dir(t)) \cup {t}
           /\ t \in Coming(Dir(t))' =>
                \/ t \in Coming(Dir(t)) /\ locked'[Dir(t)] = locked[Dir(t)]
                \/ ~locked[Dir(t)] /\ locked'[Dir(t)]
           /\ locked[Dir(t)] /\ ~locked'[Dir(t)] =>
                t \in Coming(Dir(t)) /\ t \notin Coming(Dir(t))'
<1>1. /\ Coming(Other(Dir(t)))' = Coming(Other(Dir(t)))
      /\ Coming(Dir(t))' \subseteq Coming(Dir(t)) \cup {t}
  BY OthersStay, Directions DEF Coming
<1> USE Directions DEF Goto, Lock, Unlock, BridgeTypeOK, Coming
<1>2. CASE EnterGate(t) \/ CountIn(t) \/ SeeFirst(t)
  <2>1. CASE EnterGate(t)
    BY <1>1, <2>1 DEF EnterGate
  <2>2. CASE CountIn(t) \/ SeeFirst(t)
    BY <1>1, <2>2 DEF CountIn, SeeFirst
  <2> QED BY <1>2, <2>1, <2>2
<1>3. CASE BlockOther(t) \/ KeepGate(t)
  BY <1>1, <1>3 DEF BlockOther, KeepGate
<1>4. CASE ReleaseGate(t)
  BY <1>1, <1>4 DEF ReleaseGate, KeepersWalk
<1>5. CASE CountOut(t) \/ UnblockOther(t)
  BY <1>1, <1>5 DEF CountOut, UnblockOther
<1>6. CASE ReopenGate(t)
  BY <1>1, <1>6 DEF ReopenGate
<1> QED BY <1>2, <1>3, <1>4, <1>5, <1>6 DEF Step

\* While nobody has disturbed a gate, one villager at most holds it.
LEMMA HolderKept ==
    ASSUME NEW t \in Villagers, BridgeTypeOK, KeepersWalk, OneHolder, Step(t)
    PROVE  OneHolder'
<1> SUFFICES ASSUME NEW d \in Dirs, Undisturbed(d)'
             PROVE  /\ \A u, v \in Coming(d)' : u = v
                    /\ Coming(d)' # {} => locked'[d]
  BY DEF OneHolder
<1>1. Undisturbed(d)
  BY OthersStay DEF Undisturbed
<1>2. /\ \A u, v \in Coming(d) : u = v
      /\ Coming(d) # {} => locked[d]
  BY <1>1 DEF OneHolder
<1>3. CASE d = Dir(t)
  <2>1. CASE t \in Coming(d)'
    <3>1. \/ t \in Coming(d) /\ locked'[d] = locked[d]
          \/ ~locked[d] /\ locked'[d]
      BY <1>3, <2>1, ComingKept
    <3>2. Coming(d)' = {t}
      BY <1>2, <1>3, <2>1, <3>1, ComingKept
    <3> QED BY <1>2, <3>1, <3>2
  <2>2. CASE t \notin Coming(d)'
    <3>1. Coming(d)' \subseteq Coming(d)
      BY <1>3, <2>2, ComingKept
    <3>2. Coming(d)' # {} => locked'[d]
      BY <1>2, <1>3, <2>2, <3>1, ComingKept
    <3> QED BY <1>2, <3>1, <3>2
  <2> QED BY <2>1, <2>2
<1>4. CASE d = Other(Dir(t))
  <2>1. villager_pc'[t] # "gone"
    BY <1>4, Directions DEF Undisturbed
  <2> QED BY <1>2, <1>4, <2>1, ComingKept, GateSteps
<1> QED BY <1>3, <1>4, Directions

\* Whoever finds a gate open finds room for one more behind it.
LEMMA RoomKept ==
    ASSUME NEW t \in Villagers, BridgeTypeOK, KeepersWalk, OneHolder, RoomLeft, Step(t)
    PROVE  RoomLeft'
<1> SUFFICES ASSUME NEW d \in Dirs, WayOpen(d)'
             PROVE  /\ count'[d] <= starvecnt
                    /\ ~locked'[d] => count'[d] < starvecnt
                    /\ \A u \in Coming(d)' : villager_pc'[u] \in {"count", "reopen"} =>
                         count'[d] < starvecnt
  BY DEF RoomLeft
<1>1. WayOpen(d) /\ Dir(t) = d
  BY OthersStay DEF WayOpen
<1>2. Undisturbed(d)
  BY <1>1 DEF WayOpen, Undisturbed
<1>3. /\ count[d] \in Nat /\ starvecnt \in Nat
      /\ \A u, v \in Coming(d) : u = v
      /\ Coming(d) # {} => locked[d]
      /\ count[d] <= starvecnt
      /\ ~locked[d] => count[d] < starvecnt
      /\ \A u \in Coming(d) : villager_pc[u] \in {"count", "reopen"} => count[d] < starvecnt
  BY <1>1, <1>2, BridgeAssumption
     DEF BridgeAssumption, OneHolder, RoomLeft, BridgeTypeOK
<1>4. \A u \in Coming(d)' : u # t => u \in Coming(d) /\ villager_pc'[u] = villager_pc[u]
  BY OthersStay DEF Coming
<1>5. CASE CountIn(t)
  <2>1. t \in Coming(d) /\ count[d] < starvecnt /\ count'[d] = count[d] + 1
        /\ locked' = locked /\ villager_pc'[t] = "first"
    BY <1>1, <1>3, <1>5 DEF CountIn, Goto, BridgeTypeOK, Coming
  <2> QED BY <1>3, <1>4, <2>1
<1>6. CASE CountOut(t)
  <2>1. count'[d] = count[d] - 1 /\ locked' = locked
    BY <1>1, <1>6 DEF CountOut, BridgeTypeOK
  <2> QED BY <1>3, <2>1
<1>7. CASE EnterGate(t)
  <2>1. ~locked[d] /\ locked'[d] /\ count' = count
    BY <1>1, <1>7 DEF EnterGate, Lock, BridgeTypeOK
  <2> QED BY <1>3, <2>1
<1>8. CASE ReleaseGate(t)
  <2>1. count[d] # starvecnt /\ count' = count
    BY <1>1, <1>8 DEF ReleaseGate
  <2> QED BY <1>3, <2>1
<1>9. CASE ReopenGate(t)
  <2>1. /\ count' = count /\ villager_pc[t] = "reopen" /\ villager_pc'[t] = "unblock"
        /\ flag[t] => t \in Coming(d)
        /\ ~flag[t] => locked' = locked
    BY <1>1, <1>9 DEF ReopenGate, Goto, Coming, BridgeTypeOK
  <2> QED BY <1>3, <1>4, <2>1
<1>10. CASE SeeFirst(t) \/ BlockOther(t) \/ KeepGate(t) \/ UnblockOther(t)
  <2>1. /\ count' = count /\ locked'[d] = locked[d]
        /\ villager_pc'[t] \notin {"count", "reopen"}
    BY <1>1, <1>10, Directions
       DEF SeeFirst, BlockOther, KeepGate, UnblockOther, Goto, Lock, Unlock, BridgeTypeOK
  <2> QED BY <1>3, <1>4, <2>1
<1> QED BY <1>5, <1>6, <1>7, <1>8, <1>9, <1>10 DEF Step

\* Until somebody leaves, those on the bridge have the other gate locked.
LEMMA SideKept ==
    ASSUME NEW t \in Villagers, GatesInv, KeepersWalk, OneHolder, OneSide, Step(t)
    PROVE  OneSide'
<1> USE Directions
<1> SUFFICES ASSUME NEW d \in Dirs, \A u \in Villagers : villager_pc'[u] # "gone",
                    Passed(d)' # {}
             PROVE  locked'[Other(d)] /\ WayOpen(d)'
  BY DEF OneSide
<1>1. \A u \in Villagers : villager_pc[u] # "gone"
  BY OthersStay DEF GatesInv
<1>2. BridgeTypeOK
  BY DEF GatesInv
<1>3. CASE Passed(d) # {}
  <2>1. locked[Other(d)] /\ WayOpen(d)
    BY <1>1, <1>3 DEF OneSide
  <2>2. Dir(t) = d
    <3>1. SUFFICES ASSUME Dir(t) # d PROVE FALSE
      OBVIOUS
    <3>2. villager_pc[t] = "start" /\ locked[Dir(t)]
      BY <2>1, <3>1 DEF WayOpen
    <3> QED BY <3>2 DEF Step, EnterGate, CountIn, SeeFirst, BlockOther, KeepGate,
                        ReleaseGate, CountOut, ReopenGate, UnblockOther, Lock
  <2>3. locked'[Other(d)]
    BY <1>2, <2>1, <2>2, GateSteps
  <2>4. WayOpen(d)'
    BY <1>2, <2>1, <2>2, OthersStay DEF WayOpen
  <2> QED BY <2>3, <2>4
<1>4. CASE Passed(d) = {}
  <2>1. /\ Dir(t) = d /\ villager_pc'[t] \in {"starve", "walk", "reopen", "unblock"}
        /\ villager_pc[t] \notin {"starve", "walk", "reopen", "unblock"}
    BY <1>2, <1>4, OthersStay DEF Passed
  <2>2. BlockOther(t) \/ (SeeFirst(t) /\ count[d] # 1)
    BY <1>2, <2>1
       DEF Step, EnterGate, CountIn, SeeFirst, BlockOther, KeepGate, ReleaseGate,
           CountOut, ReopenGate, UnblockOther, Goto, BridgeTypeOK
  <2>3. ~ SeeFirst(t)
    <3>1. SUFFICES ASSUME SeeFirst(t) PROVE FALSE
      OBVIOUS
    <3>2. t \in Coming(d) /\ t \in OnBridge(d) /\ count[d] # 1
      BY <2>1, <2>2, <3>1 DEF SeeFirst, BlockOther, Coming, OnBridge
    <3>3. \A u \in Coming(d) : u = t
      BY <1>1, <3>2 DEF OneHolder, Undisturbed
    <3>4. OnBridge(d) \subseteq Coming(d)
      BY <1>4 DEF OnBridge, Coming, Passed
    <3>5. OnBridge(d) = {t}
      BY <3>2, <3>3, <3>4
    <3>6. Cardinality(OnBridge(d)) = 1
      BY <3>5, FS_Singleton
    <3> QED BY <3>2, <3>6 DEF GatesInv, CountsAgree
  <2>4. BlockOther(t)
    BY <2>2, <2>3
  <2>5. locked'[Other(d)] /\ ~locked[Other(d)] /\ Other(d) \in Dirs
    BY <1>2, <2>1, <2>4 DEF BlockOther, Lock, BridgeTypeOK
  <2>6. Coming(Other(d)) = {}
    BY <1>1, <2>5 DEF OneHolder, Undisturbed
  <2>7. Passed(Other(d)) = {}
    BY <1>1, <2>1, <2>4 DEF OneSide, WayOpen, BlockOther
  <2>8. ASSUME NEW u \in Villagers, Dir(u) # d PROVE villager_pc'[u] = "start"
    <3>1. Dir(u) = Other(d) /\ u # t /\ villager_pc'[u] = villager_pc[u]
      BY <1>2, <2>1, <2>8, OthersStay
    <3> QED BY <1>1, <1>2, <2>6, <2>7, <3>1 DEF Coming, Passed, BridgeTypeOK
  <2> QED BY <2>5, <2>8 DEF WayOpen
<1> QED BY <1>3, <1>4

\* Every step keeps what is known of the ways.
LEMMA WayKeeps == GatesInv /\ WayInv /\ [BridgeNext]_(bridge_vars) => WayInv'
<1> SUFFICES ASSUME GatesInv, WayInv, [BridgeNext]_(bridge_vars) PROVE WayInv'
  OBVIOUS
<1>1. ASSUME NEW t \in Villagers, Step(t) PROVE WayInv'
  BY <1>1, KeepersKept, HolderKept, RoomKept, SideKept DEF GatesInv, WayInv
<1>2. CASE UNCHANGED bridge_vars
  BY <1>2 DEF bridge_vars, WayInv, KeepersWalk, OneHolder, RoomLeft, OneSide, Coming,
              Passed, Undisturbed, WayOpen
<1> QED BY <1>1, <1>2 DEF BridgeNext

\* What is known of the ways holds throughout: raised flags, the holders of the
\* gates, the room behind them, and one side at a time.
THEOREM WayInvariance == BridgeSpec => []WayInv
<1>1. BridgeInit => WayInv
  BY InitWay
<1>2. GatesInv /\ WayInv /\ [BridgeNext]_(bridge_vars) => WayInv'
  BY WayKeeps
<1> QED BY <1>1, <1>2, GatesInvariance, PTL DEF BridgeSpec

\* Whatever the threshold: while nobody has set out from the other side, no
\* more than starvecnt villagers are on the bridge (lines 33-40), although the
\* counter is read outside of its mutex.
THEOREM OneWayIsLimited == BridgeSpec => []OneWayLimit
<1>1. WayInv => OneWayLimit
  BY DEF WayInv, RoomLeft, OneWayLimit, WayOpen
<1> QED BY <1>1, WayInvariance, PTL

\* Villagers of both directions are on their way at once only after somebody
\* has left and unlocked the other gate (line 49).
THEOREM OneDirection == BridgeSpec => []OneDirectionUntilExit
<1>1. WayInv => OneDirectionUntilExit
  <2> SUFFICES ASSUME WayInv, NEW t \in Villagers, NEW u \in Villagers,
                      Dir(t) # Dir(u), villager_pc[t] = "walk", villager_pc[u] = "walk",
                      \A v \in Villagers : villager_pc[v] # "gone"
               PROVE  FALSE
    BY DEF OneDirectionUntilExit, BothWays
  <2>1. t \in Passed(Dir(t)) /\ Dir(t) \in Dirs
    BY Directions DEF Passed
  <2>2. WayOpen(Dir(t))
    BY <2>1 DEF WayInv, OneSide
  <2> QED BY <2>2 DEF WayOpen
<1> QED BY <1>1, WayInvariance, PTL
=============================================================================
