----------------------------- MODULE Restaurant -----------------------------
(***************************************************************************)
(* Assignment5/Part1/ass5_1.cpp: diners served in batches, synchronised by *)
(* one mutex, four condition variables, a barrier of batch_size + 1 and    *)
(* one atomic flag that is read and written outside the mutex.             *)
(*                                                                         *)
(* Every shared int is only touched with the mutex held, so the code       *)
(* between a lock (or a return from pthread_cond_wait) and the next unlock *)
(* (or wait) is one action.  A thread in pthread_cond_wait has the name of *)
(* the condition variable as its pc; a signal moves it to the step that    *)
(* follows once it has the mutex back.  The accesses to isBackReady are    *)
(* steps of their own.                                                     *)
(***************************************************************************)
EXTENDS Integers, FiniteSets

CONSTANTS Diners,       \* the diner threads main may create (bounds "count")
          BatchSize,    \* batch_size, argv[1]
          MinDiners,    \* min_diners, argv[2]
          BatchNoMod    \* the int batch_no wraps here

ASSUME ConstAssumption ==
    /\ IsFiniteSet(Diners)
    /\ BatchSize \in Nat
    /\ MinDiners \in Int /\ MinDiners <= Cardinality(Diners)
    /\ BatchNoMod \in Nat /\ BatchNoMod >= 2

VARIABLES num_served, num_waiting, batch_no, isBackReady,
          pc,           \* diner thread -> where it is
          rpc,          \* the restaurant thread
          main          \* the main thread

vars == <<num_served, num_waiting, batch_no, isBackReady, pc, rpc, main>>

DinerPC == {"none", "outside", "entry_cond", "front_door_cond", "entering",
            "barrier", "dining", "opening", "leaving", "coin", "gone"}
RestaurantPC == {"collect", "restaurant_cond", "barrier", "closing",
                 "back_door_cond"}

Created == {d \in Diners : pc[d] # "none"}
At(loc) == {d \in Diners : pc[d] = loc}

Init == /\ num_served = 0 /\ num_waiting = 0 /\ batch_no = 0
        /\ isBackReady = FALSE
        /\ pc = [d \in Diners |-> "none"]
        /\ rpc = "collect"
        /\ main = "creating"

-----------------------------------------------------------------------------
(* Condition variables                                                     *)

\* Mutant: the signal is not sent.
SignalLost(cond, resume) == UNCHANGED rpc

\* The restaurant thread after a signal of the condition it may be waiting
\* on; a signal nobody waits for is lost.
SignalRestaurant(cond, resume) == rpc' = IF rpc = cond THEN resume ELSE rpc

\* The diners after a broadcast of cond, where f says where they are.
Broadcast(f, cond, resume) ==
    [d \in Diners |-> IF f[d] = cond THEN resume ELSE f[d]]

-----------------------------------------------------------------------------
(* The main thread                                                         *)

CreateDiner(d) ==
    /\ main = "creating" /\ pc[d] = "none"
    /\ pc' = [pc EXCEPT ![d] = "outside"]
    /\ UNCHANGED <<num_served, num_waiting, batch_no, isBackReady, rpc, main>>

StopCreating ==
    /\ main = "creating" /\ Cardinality(Created) >= MinDiners
    /\ main' = "joining"
    /\ UNCHANGED <<num_served, num_waiting, batch_no, isBackReady, pc, rpc>>

\* All the diners are joined; the join of the restaurant thread, which never
\* returns, blocks main for good.
JoinDiners ==
    /\ main = "joining" /\ Created \subseteq At("gone")
    /\ main' = "join_restaurant"
    /\ UNCHANGED <<num_served, num_waiting, batch_no, isBackReady, pc, rpc>>

-----------------------------------------------------------------------------
(* A diner thread                                                          *)

BatchFull == num_waiting = BatchSize

\* The batch is full: wait on entry_cond.
WaitEntry(d) ==
    /\ pc[d] = "outside" /\ BatchFull
    /\ pc' = [pc EXCEPT ![d] = "entry_cond"]
    /\ UNCHANGED <<num_served, num_waiting, batch_no, isBackReady, rpc, main>>

\* Be counted, wake the restaurant if the batch is complete, and wait.
Arrive(d) ==
    /\ pc[d] = "outside" /\ ~BatchFull
    /\ num_waiting' = num_waiting + 1
    /\ IF num_waiting' = BatchSize
         THEN SignalRestaurant("restaurant_cond", "collect")
         ELSE UNCHANGED rpc
    /\ pc' = [pc EXCEPT ![d] = "front_door_cond"]
    /\ UNCHANGED <<num_served, batch_no, isBackReady, main>>

\* Back from front_door_cond with the mutex, which is released.
Enter(d) ==
    /\ pc[d] = "entering"
    /\ pc' = [pc EXCEPT ![d] = "barrier"]
    /\ UNCHANGED <<num_served, num_waiting, batch_no, isBackReady, rpc, main>>

\* The unlocked test of isBackReady ...
CheckBackDoor(d) ==
    /\ pc[d] = "dining"
    /\ pc' = [pc EXCEPT ![d] = IF isBackReady THEN "leaving" ELSE "opening"]
    /\ UNCHANGED <<num_served, num_waiting, batch_no, isBackReady, rpc, main>>

\* ... and the store that follows it: two diners may both get here.
OpenBackDoor(d) ==
    /\ pc[d] = "opening"
    /\ isBackReady' = TRUE
    /\ pc' = [pc EXCEPT ![d] = "leaving"]
    /\ UNCHANGED <<num_served, num_waiting, batch_no, rpc, main>>

\* Mutant: every leaver starts a new batch number.
LeaveBatchCounting(d) ==
    /\ pc[d] = "leaving" /\ num_served # 1
    /\ num_served' = num_served - 1
    /\ batch_no' = (batch_no + 1) % BatchNoMod
    /\ pc' = [pc EXCEPT ![d] = "coin"]
    /\ UNCHANGED <<num_waiting, isBackReady, rpc, main>>

\* A diner that is not the last of its batch leaves.
LeaveBatch(d) ==
    /\ pc[d] = "leaving" /\ num_served # 1
    /\ num_served' = num_served - 1
    /\ pc' = [pc EXCEPT ![d] = "coin"]
    /\ UNCHANGED <<num_waiting, batch_no, isBackReady, rpc, main>>

\* Mutant: the back door is left open.
LeaveLastDoorOpen(d) ==
    /\ pc[d] = "leaving" /\ num_served = 1
    /\ num_served' = 0 /\ num_waiting' = 0
    /\ batch_no' = (batch_no + 1) % BatchNoMod
    /\ pc' = Broadcast([pc EXCEPT ![d] = "coin"], "entry_cond", "outside")
    /\ SignalRestaurant("back_door_cond", "closing")
    /\ UNCHANGED <<isBackReady, main>>

\* The last one closes the back door and lets the next batch gather.
LeaveLast(d) ==
    /\ pc[d] = "leaving" /\ num_served = 1
    /\ num_served' = 0
    /\ isBackReady' = FALSE
    /\ batch_no' = (batch_no + 1) % BatchNoMod
    /\ num_waiting' = 0
    /\ pc' = Broadcast([pc EXCEPT ![d] = "coin"], "entry_cond", "outside")
    /\ SignalRestaurant("back_door_cond", "closing")
    /\ UNCHANGED main

\* The coin: come back for another meal, or go home.
TossCoin(d) ==
    /\ pc[d] = "coin"
    /\ \E side \in {"outside", "gone"} : pc' = [pc EXCEPT ![d] = side]
    /\ UNCHANGED <<num_served, num_waiting, batch_no, isBackReady, rpc, main>>

-----------------------------------------------------------------------------
(* The restaurant thread                                                   *)

WaitForBatch ==
    /\ rpc = "collect" /\ num_waiting < BatchSize
    /\ rpc' = "restaurant_cond"
    /\ UNCHANGED <<num_served, num_waiting, batch_no, isBackReady, pc, main>>

\* The batch is there: everybody at the front door is woken.
OpenFrontDoor ==
    /\ rpc = "collect" /\ num_waiting >= BatchSize
    /\ num_served' = BatchSize
    /\ pc' = Broadcast(pc, "front_door_cond", "entering")
    /\ rpc' = "barrier"
    /\ UNCHANGED <<num_waiting, batch_no, isBackReady, main>>

WaitForLeavers ==
    /\ rpc = "closing" /\ num_served > 0
    /\ rpc' = "back_door_cond"
    /\ UNCHANGED <<num_served, num_waiting, batch_no, isBackReady, pc, main>>

\* Mutant: the restaurant does not wait for the last diner.
CloseBackDoorEarly ==
    /\ rpc = "closing"
    /\ rpc' = "collect"
    /\ UNCHANGED <<num_served, num_waiting, batch_no, isBackReady, pc, main>>

CloseBackDoor ==
    /\ rpc = "closing" /\ num_served <= 0
    /\ rpc' = "collect"
    /\ UNCHANGED <<num_served, num_waiting, batch_no, isBackReady, pc, main>>

-----------------------------------------------------------------------------
(* The environment: the barrier and spurious wakeups                       *)

\* Mutant: the restaurant thread is forgotten in the barrier's count.
BarrierCountShort == BatchSize

BarrierCount == BatchSize + 1

\* The barrier counts threads, whoever they are, and releases all of them
\* when BarrierCount of them have come.
BarrierTrips ==
    /\ Cardinality(At("barrier")) + (IF rpc = "barrier" THEN 1 ELSE 0)
         = BarrierCount
    /\ pc' = Broadcast(pc, "barrier", "dining")
    /\ rpc' = IF rpc = "barrier" THEN "closing" ELSE rpc
    /\ UNCHANGED <<num_served, num_waiting, batch_no, isBackReady, main>>

\* POSIX lets pthread_cond_wait return without a signal.  Three of the four
\* waits are in a loop; the one on front_door_cond is not.
SpuriousWakeDiner(d) ==
    /\ \/ /\ pc[d] = "entry_cond"
          /\ pc' = [pc EXCEPT ![d] = "outside"]
       \/ /\ pc[d] = "front_door_cond"
          /\ pc' = [pc EXCEPT ![d] = "entering"]
    /\ UNCHANGED <<num_served, num_waiting, batch_no, isBackReady, rpc, main>>

SpuriousWakeRestaurant ==
    /\ \/ rpc = "restaurant_cond" /\ rpc' = "collect"
       \/ rpc = "back_door_cond" /\ rpc' = "closing"
    /\ UNCHANGED <<num_served, num_waiting, batch_no, isBackReady, pc, main>>

-----------------------------------------------------------------------------
MainStep == (\E d \in Diners : CreateDiner(d)) \/ StopCreating \/ JoinDiners

DinerStep(d) == \/ WaitEntry(d) \/ Arrive(d) \/ Enter(d) \/ CheckBackDoor(d)
                \/ OpenBackDoor(d) \/ LeaveBatch(d) \/ LeaveLast(d)
                \/ TossCoin(d)

RestaurantStep == \/ WaitForBatch \/ OpenFrontDoor
                  \/ WaitForLeavers \/ CloseBackDoor

Next == \/ MainStep
        \/ \E d \in Diners : DinerStep(d) \/ SpuriousWakeDiner(d)
        \/ RestaurantStep \/ SpuriousWakeRestaurant
        \/ BarrierTrips

\* Every thread that can run eventually does, and so does a full barrier.
\* Nothing is assumed of spurious wakeups.
Fairness == /\ WF_vars(MainStep)
            /\ \A d \in Diners : WF_vars(DinerStep(d))
            /\ WF_vars(RestaurantStep)
            /\ WF_vars(BarrierTrips)

Spec == Init /\ [][Next]_vars /\ Fairness

-----------------------------------------------------------------------------
(* Properties                                                              *)

Counted == {d \in Diners : pc[d] \in {"front_door_cond", "entering", "barrier"}}
Seated == {d \in Diners : pc[d] \in {"dining", "opening", "leaving"}}
Entered == {"barrier", "dining", "opening", "leaving"}
Live == {d \in Diners : pc[d] \notin {"none", "gone"}}

\* Every variable has a value of its type.
TypeOK == /\ num_served \in 0..BatchSize
          /\ num_waiting \in 0..BatchSize
          /\ batch_no \in 0..(BatchNoMod - 1)
          /\ isBackReady \in BOOLEAN
          /\ pc \in [Diners -> DinerPC]
          /\ rpc \in RestaurantPC
          /\ main \in {"creating", "joining", "join_restaurant"}

\* The two counters, which every diner changes on its own, agree with where
\* the diners are: before the barrier trips num_waiting counts the diners
\* between lines 42 and 55 and nobody is past it; afterwards num_served
\* counts the diners between lines 56 and 64 and nobody waits before it.
CountersAgree ==
    IF num_served = 0 \/ rpc = "barrier"
      THEN Seated = {} /\ Cardinality(Counted) = num_waiting
      ELSE Counted = {} /\ Cardinality(Seated) = num_served

\* No wakeup is lost: a thread that sleeps on a condition variable (lines 38,
\* 51, 96, 108) has a condition that is still false, so somebody is left who
\* will signal it.
NoLostWakeup ==
    /\ At("entry_cond") # {} => num_waiting = BatchSize
    /\ rpc = "restaurant_cond" => num_waiting < BatchSize
    /\ rpc = "back_door_cond" => num_served > 0
    /\ At("front_door_cond") # {} =>
         num_waiting < BatchSize \/ rpc \in {"collect", "closing"}

\* The back door, opened by an unlocked check-then-set (lines 59-63), is shut
\* whenever no diner of a served batch is inside, and open to each one who
\* reaches line 64: nobody of the next batch can find it open.
BackDoor ==
    /\ isBackReady => num_served > 0 /\ rpc \in {"closing", "back_door_cond"}
    /\ At("leaving") # {} => isBackReady

\* The batch number a diner prints on entering (line 52) is the one it prints
\* when served and when leaving (57, 65): it never changes in between.
BatchNoStable ==
    [][ (\E d \in Diners : pc[d] \in Entered /\ pc'[d] \in Entered)
          => batch_no' = batch_no ]_vars

\* Batches are served for ever unless from some time on there are too few
\* diners left for another one: the only way the program stands still.
StallsOnlyWhenShort ==
    []<>(Seated # {}) \/ <>[](Cardinality(Live) < BatchSize)

\* The threads implement the batch service, liveness included.
Service == INSTANCE BatchService WITH gathered <- Counted, seated <- Seated
ImplementsBatchService == Service!Spec
=============================================================================
