---------------------------- MODULE BatchService ----------------------------
(***************************************************************************)
(* What the restaurant of Assignment5/Part1 promises, without threads,     *)
(* mutexes or condition variables: diners gather outside; when exactly     *)
(* BatchSize of them have gathered they are all seated at once; nobody     *)
(* gathers while somebody is seated; a batch is over when its last diner   *)
(* leaves.                                                                 *)
(***************************************************************************)
EXTENDS Naturals, FiniteSets

CONSTANTS Diners, BatchSize

VARIABLES gathered,     \* the diners counted in for the next batch
          seated        \* the diners of the batch being served

vars == <<gathered, seated>>

Init == gathered = {} /\ seated = {}

Gather(d) == /\ seated = {}
             /\ Cardinality(gathered) < BatchSize
             /\ d \notin gathered
             /\ gathered' = gathered \cup {d}
             /\ UNCHANGED seated

Seat == /\ seated = {}
        /\ Cardinality(gathered) = BatchSize
        /\ seated' = gathered
        /\ gathered' = {}

Leave(d) == /\ d \in seated
            /\ seated' = seated \ {d}
            /\ UNCHANGED gathered

Next == \/ \E d \in Diners : Gather(d) \/ Leave(d)
        \/ Seat

SafeSpec == Init /\ [][Next]_vars

(* A gathered batch is seated, and every seated diner is let out.          *)
Fairness == WF_vars(Seat) /\ \A d \in Diners : WF_vars(Leave(d))

Spec == SafeSpec /\ Fairness
=============================================================================
