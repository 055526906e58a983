-------------------------- MODULE PageReplacement ---------------------------
(***************************************************************************)
(* The page replacement policies as a text book states them: the resident  *)
(* pages in a queue, the next victim at its head.  A page that is brought  *)
(* in goes to the end; under LRU so does a page that is hit.               *)
(***************************************************************************)
EXTENDS Naturals, SequencesExt

CONSTANTS Pages, NumFrames

VARIABLES algorithm,    \* "LRU", "FIFO" or "RANDOM"
          resident,     \* the pages in memory, the next to go first
          faults        \* page faults so far

vars == <<algorithm, resident, faults>>

Init == resident = <<>> /\ faults = 0

IsResident(p) == \E k \in DOMAIN resident : resident[k] = p

Hit(p) == /\ \E k \in DOMAIN resident :
               /\ resident[k] = p
               /\ resident' = IF algorithm = "LRU" THEN Append(RemoveAt(resident, k), p)
                                                   ELSE resident
          /\ UNCHANGED <<algorithm, faults>>

BringIn(p) == /\ ~IsResident(p)
              /\ Len(resident) < NumFrames
              /\ resident' = Append(resident, p)
              /\ faults' = faults + 1
              /\ UNCHANGED algorithm

Replace(p) == /\ ~IsResident(p)
              /\ Len(resident) = NumFrames
              /\ \E k \in DOMAIN resident :
                   /\ algorithm # "RANDOM" => k = 1
                   /\ resident' = Append(RemoveAt(resident, k), p)
              /\ faults' = faults + 1
              /\ UNCHANGED algorithm

Next == \E p \in Pages : Hit(p) \/ BringIn(p) \/ Replace(p)

Spec == Init /\ [][Next]_vars
=============================================================================
