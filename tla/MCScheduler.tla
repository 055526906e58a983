---------------------------- MODULE MCScheduler -----------------------------
(* An instance of Scheduler for TLC. *)
EXTENDS Scheduler

\* Three threads for the first service: different or equal ones; the second
\* has to reject what the first one serves.
MCThreads == {<<<<3, 2, 1>>, <<1, 1, 0>>>>, <<<<2, 2, 1>>, <<2, 1, 1>>>>}
MCThreadInputs == {[s \in Services |-> [j \in WorkerThreads |-> r[s + 1][j + 1]]] : r \in MCThreads}
\* A type that does not exist, and the needs of the two services.
MCRequestInputs == {<<0, 1>>, <<1, 1>>, <<1, 2>>, <<1, 3>>, <<2, 1>>, <<2, 2>>}
=============================================================================
