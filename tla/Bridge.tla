------------------------------- MODULE Bridge -------------------------------
(***************************************************************************)
(* Assignment5/Part2/ass5_2.c: villagers cross a one-lane bridge.  The     *)
(* gates n_s and s_n are default pthread mutexes that threads lock in both *)
(* roles, gate of their own direction and block of the other one, and that *)
(* they unlock without having locked them: glibc then simply frees them.   *)
(*                                                                         *)
(* north_south and south_north are one procedure with the roles of the     *)
(* gates exchanged.  n2s and n2s_starve always change together (so do s2n  *)
(* and s2n_starve) and are one counter here.  It is changed under a mutex  *)
(* of its own, and read twice without it.                                  *)
(***************************************************************************)
EXTENDS Integers, FiniteSets

CONSTANTS Northbound, Southbound,   \* the villagers' threads
          starvecnt                 \* starvecnt_n, starvecnt_s

ASSUME BridgeAssumption ==
    /\ IsFiniteSet(Northbound) /\ IsFiniteSet(Southbound)
    /\ Northbound \cap Southbound = {}
    /\ starvecnt \in Nat \ {0}

Villagers == Northbound \cup Southbound
Dirs == {"north", "south"}
Dir(t) == IF t \in Northbound THEN "north" ELSE "south"
Other(d) == IF d = "north" THEN "south" ELSE "north"

VARIABLES locked,   \* "north" -> is n_s locked?  "south" -> is s_n?
          count,    \* "north" -> n2s and n2s_starve; "south" -> s2n, s2n_starve
          flag,     \* villager -> flag: it blocks the gate it came through
          villager_pc   \* villager -> where it is

bridge_vars == <<locked, count, flag, villager_pc>>

BridgeInit == /\ locked = [d \in Dirs |-> FALSE]
              /\ count = [d \in Dirs |-> 0]
              /\ flag = [t \in Villagers |-> FALSE]
              /\ villager_pc = [t \in Villagers |-> "start"]

Goto(t, loc) == villager_pc' = [villager_pc EXCEPT ![t] = loc]
Lock(d) == ~locked[d] /\ locked' = [locked EXCEPT ![d] = TRUE]
Unlock(d) == locked' = [locked EXCEPT ![d] = FALSE]

-----------------------------------------------------------------------------
\* Lock the gate of one's own direction.
EnterGate(t) == /\ villager_pc[t] = "start"
                /\ Lock(Dir(t))
                /\ Goto(t, "count")
                /\ UNCHANGED <<count, flag>>

CountIn(t) == /\ villager_pc[t] = "count"
              /\ count' = [count EXCEPT ![Dir(t)] = @ + 1]
              /\ Goto(t, "first")
              /\ UNCHANGED <<locked, flag>>

\* Does one see oneself as the first on the bridge?  (unlocked read)
SeeFirst(t) == /\ villager_pc[t] = "first"
               /\ Goto(t, IF count[Dir(t)] = 1 THEN "block" ELSE "starve")
               /\ UNCHANGED <<locked, count, flag>>

\* Mutant: the first one only looks whether the other gate is open.
BlockOtherLooking(t) == /\ villager_pc[t] = "block"
                        /\ ~locked[Other(Dir(t))]
                        /\ Goto(t, "starve")
                        /\ UNCHANGED <<locked, count, flag>>

\* The first one locks the other gate, its own still locked.
BlockOther(t) == /\ villager_pc[t] = "block"
                 /\ Lock(Other(Dir(t)))
                 /\ Goto(t, "starve")
                 /\ UNCHANGED <<count, flag>>

\* At the threshold the own gate stays locked ...  (unlocked read)
KeepGate(t) == /\ villager_pc[t] = "starve" /\ count[Dir(t)] = starvecnt
               /\ flag' = [flag EXCEPT ![t] = TRUE]
               /\ Goto(t, "walk")
               /\ UNCHANGED <<locked, count>>

\* Mutant: nobody keeps the gate, however many are on the bridge.
ReleaseGateAlways(t) == /\ villager_pc[t] = "starve"
                        /\ Unlock(Dir(t))
                        /\ Goto(t, "walk")
                        /\ UNCHANGED <<count, flag>>

\* ... otherwise the next villager may come in.
ReleaseGate(t) == /\ villager_pc[t] = "starve" /\ count[Dir(t)] # starvecnt
                  /\ Unlock(Dir(t))
                  /\ Goto(t, "walk")
                  /\ UNCHANGED <<count, flag>>

\* Mutant: only the last one off the bridge is counted out.
CountOutLast(t) == /\ villager_pc[t] = "walk"
                   /\ count' = [count EXCEPT ![Dir(t)] = IF @ = 1 THEN 0 ELSE @]
                   /\ Goto(t, "reopen")
                   /\ UNCHANGED <<locked, flag>>

CountOut(t) == /\ villager_pc[t] = "walk"
               /\ count' = [count EXCEPT ![Dir(t)] = @ - 1]
               /\ Goto(t, "reopen")
               /\ UNCHANGED <<locked, flag>>

\* Mutant: the one that kept the gate forgets to open it.
ReopenNever(t) == /\ villager_pc[t] = "reopen"
                  /\ Goto(t, "unblock")
                  /\ UNCHANGED <<locked, count, flag>>

ReopenGate(t) == /\ villager_pc[t] = "reopen"
                 /\ IF flag[t] THEN Unlock(Dir(t)) ELSE UNCHANGED locked
                 /\ Goto(t, "unblock")
                 /\ UNCHANGED <<count, flag>>

\* Mutant: whoever thinks it is not the last leaves the other gate locked,
\* on a count read after its own critical section.
UnblockLast(t) == /\ villager_pc[t] = "unblock"
                  /\ IF count[Dir(t)] = 0 THEN Unlock(Other(Dir(t)))
                                          ELSE UNCHANGED locked
                  /\ Goto(t, "gone")
                  /\ UNCHANGED <<count, flag>>

\* Whoever leaves unlocks the other gate, having locked it or not, and even
\* with others of its direction still on the bridge.
UnblockOther(t) == /\ villager_pc[t] = "unblock"
                   /\ Unlock(Other(Dir(t)))
                   /\ Goto(t, "gone")
                   /\ UNCHANGED <<count, flag>>

-----------------------------------------------------------------------------
Step(t) == \/ EnterGate(t) \/ CountIn(t) \/ SeeFirst(t) \/ BlockOther(t)
           \/ KeepGate(t) \/ ReleaseGate(t)
           \/ CountOut(t) \/ ReopenGate(t) \/ UnblockOther(t)

BridgeNext == \E t \in Villagers : Step(t)

\* A villager that can go on does; each locks a mutex at most twice, so weak
\* fairness of the locks is enough.
BridgeFairness == \A t \in Villagers : WF_bridge_vars(Step(t))

BridgeSpec == BridgeInit /\ [][BridgeNext]_bridge_vars /\ BridgeFairness

-----------------------------------------------------------------------------
(* Properties                                                              *)

AllGone == \A t \in Villagers : villager_pc[t] = "gone"
OnBridge(d) == {t \in Villagers : Dir(t) = d
                  /\ villager_pc[t] \in {"first", "block", "starve", "walk"}}

\* Every variable has a value of its type.
BridgeTypeOK == /\ locked \in [Dirs -> BOOLEAN]
                /\ count \in [Dirs -> Nat]
                /\ flag \in [Villagers -> BOOLEAN]
                /\ villager_pc \in [Villagers ->
                     {"start", "count", "first", "block", "starve",
                      "walk", "reopen", "unblock", "gone"}]

\* Each counter is the number of villagers of its direction between lines 28
\* and 45 (62 and 77), whatever happens to the gates.
CountsAgree == \A d \in Dirs : count[d] = Cardinality(OnBridge(d))

\* The threads between a lock of d's gate and the unlock that belongs to it:
\* those coming in through it, those that keep it (flag), and those of the
\* other direction that may have blocked it.
Releasers(d) ==
    {t \in Villagers :
       \/ Dir(t) = d /\ villager_pc[t] \in {"count", "first", "block", "starve"}
       \/ Dir(t) = d /\ flag[t] /\ villager_pc[t] \in {"walk", "reopen"}
       \/ Dir(t) # d /\ villager_pc[t] \in {"starve", "walk", "reopen", "unblock"}}

\* Although gates are unlocked by threads that did not lock them, a locked
\* gate always has somebody left who will unlock it (lines 40, 48, 49).
LockedHasReleaser == \A d \in Dirs : locked[d] => Releasers(d) # {}

\* Nobody can move, and somebody has not crossed.
Blocked(t) == \/ villager_pc[t] = "gone"
              \/ villager_pc[t] = "start" /\ locked[Dir(t)]
              \/ villager_pc[t] = "block" /\ locked[Other(Dir(t))]
Stuck == ~AllGone /\ \A t \in Villagers : Blocked(t)

\* A first villager of each direction, each holding its own gate and wanting
\* the other's (lines 31 and 66).
Crossed == \A d \in Dirs : \E t \in Villagers : Dir(t) = d /\ villager_pc[t] = "block"

\* That crossed pair of locks is the only way the program gets stuck.
StuckOnlyCrossed == Stuck => Crossed

\* While nobody has set out from the other side, no more than starvecnt
\* villagers are on the bridge (lines 33-40), though the counter is read
\* outside of its mutex.
OneWayLimit ==
    \A d \in Dirs :
      (\A t \in Villagers : Dir(t) # d => villager_pc[t] = "start") => count[d] <= starvecnt

\* All the villagers cross, or the crossed pair of locks stays for ever.
EndsOrCrossed == <>(AllGone \/ (Stuck /\ Crossed))

\* Readme.txt:4, "The program runs for finite amount of time": it may not.
FiniteTime == <>AllGone

\* Villagers of both directions on their way at once; the one that unlocks
\* the other gate when it leaves (line 49) makes this possible.
BothWays == \E t, u \in Villagers :
              Dir(t) # Dir(u) /\ villager_pc[t] = "walk" /\ villager_pc[u] = "walk"

\* Line 7, "mutexes for mutual exclusion in the critical section": the gates
\* do exclude the other direction until the first villager has left.
OneDirectionUntilExit == BothWays => \E t \in Villagers : villager_pc[t] = "gone"
=============================================================================
