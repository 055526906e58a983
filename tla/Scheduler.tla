----------------------------- MODULE Scheduler ------------------------------
(***************************************************************************)
(* Assignment5/Part3/ass5_32.cpp: requests are sorted by the resources     *)
(* they need and each is queued at the worker thread of its service with   *)
(* the fewest requests that has the resources.                             *)
(*                                                                         *)
(* The threads are given from high to low priority, and a higher one has   *)
(* no fewer resources (the note in line 56).  Requests are not told apart  *)
(* by their numbers, which are only printed, and the sorting for the       *)
(* printed order is left out.                                              *)
(***************************************************************************)
EXTENDS Integers, FiniteSets, SequencesExt

CONSTANTS
    n, m,           \* services, and worker threads of each
    ThreadInputs,   \* the resources that may be typed in for the threads
    RequestInputs,  \* the transaction types and needs that may be typed in
    MaxRequests     \* bound: the number of requests

Services == 0..(n - 1)
WorkerThreads == 0..(m - 1)
Requests == {[transactionType |-> r[1] - 1, resourcesRequired |-> r[2]] : r \in RequestInputs}

ASSUME SizesAssumption == n \in Nat /\ m \in Nat \ {0} /\ MaxRequests \in Nat
ASSUME ThreadsAssumption ==
    \A r \in ThreadInputs :
      /\ r \in [Services -> [WorkerThreads -> Nat]]
      /\ \A s \in Services : \A j, k \in WorkerThreads : j < k => r[s][j] >= r[s][k]
ASSUME InputsAssumption == RequestInputs \subseteq Int \X Int

INT_MAX == -1       \* stands for the waiting time of a request that is not served

VARIABLES
    phase,          \* input, assign
    resources,      \* of every worker thread
    requests,       \* the vector
    numReqsTaken,   \* of every worker thread
    served,         \* requests dealt with: their wait and thread, or INT_MAX
    totalWaitingTime, rejected, waited, blocked

statistics == <<totalWaitingTime, rejected, waited, blocked>>
vars == <<phase, resources, requests, numReqsTaken, served, statistics>>

Init == /\ phase = "input"
        /\ resources \in ThreadInputs
        /\ requests = <<>>
        /\ numReqsTaken = [s \in Services |-> [j \in WorkerThreads |-> 0]]
        /\ served = <<>>
        /\ totalWaitingTime = 0 /\ rejected = 0 /\ waited = 0 /\ blocked = 0

ReadRequest ==
    /\ phase = "input" /\ Len(requests) < MaxRequests
    /\ \E r \in Requests : requests' = Append(requests, r)
    /\ UNCHANGED <<phase, resources, numReqsTaken, served, statistics>>

\* Mutant: in the order they were typed in.
Unsorted(s) == TRUE

\* What sort does with compareByResourcesReq: those that need most come
\* first, equals in any order.
Sorted(s) == \A j, k \in DOMAIN s : j < k => s[j].resourcesRequired >= s[k].resourcesRequired

SortRequests ==
    /\ phase = "input"
    /\ \E order \in {p \in [DOMAIN requests -> DOMAIN requests] : IsInjective(p)} :
         /\ Sorted([k \in DOMAIN requests |-> requests[order[k]]])
         /\ requests' = [k \in DOMAIN requests |-> requests[order[k]]]
    /\ phase' = "assign"
    /\ UNCHANGED <<resources, numReqsTaken, served, statistics>>

-----------------------------------------------------------------------------
(* The assignment loop                                                     *)

More == phase = "assign" /\ Len(served) < Len(requests)
req == requests[Len(served) + 1]
service == req.transactionType
Outcome(wait, thread) == [waitTime |-> wait, threadAssigned |-> thread]

RejectType ==
    /\ More /\ service \notin Services
    /\ served' = Append(served, Outcome(INT_MAX, -1))
    /\ UNCHANGED <<phase, resources, requests, numReqsTaken, statistics>>

RejectResources ==
    /\ More /\ service \in Services
    /\ resources[service][0] < req.resourcesRequired
    /\ served' = Append(served, Outcome(INT_MAX, -1))
    /\ rejected' = rejected + 1
    /\ UNCHANGED <<phase, resources, requests, numReqsTaken, totalWaitingTime, waited, blocked>>

Load(j) == numReqsTaken[service][j]
Capable == {j \in WorkerThreads : resources[service][j] >= req.resourcesRequired}

\* Where the search from the last thread to the first ends: at the last of
\* the capable threads with the smallest load.
threadChosen(j) ==
    /\ j \in Capable
    /\ \A k \in Capable : Load(j) <= Load(k) /\ (k > j => Load(j) < Load(k))

\* Mutant: only the chosen thread is asked.
ChosenIsIdle(j) == Load(j) = 0

\* The search stops at an idle thread that is capable; threads it passed
\* may be idle, too.
isThreadAvailable(j) ==
    \E k \in WorkerThreads : Load(k) = 0 /\ (Load(j) = 0 => k >= j)

Assign ==
    /\ More /\ service \in Services
    /\ resources[service][0] >= req.resourcesRequired
    /\ \E j \in WorkerThreads :
         /\ threadChosen(j)
         /\ numReqsTaken' = [numReqsTaken EXCEPT ![service][j] = @ + 1]
         /\ served' = Append(served, Outcome(Load(j), j))
         /\ totalWaitingTime' = totalWaitingTime + Load(j)
         /\ waited' = IF Load(j) > 0 THEN waited + 1 ELSE waited
         /\ blocked' = IF isThreadAvailable(j) THEN blocked ELSE blocked + 1
    /\ UNCHANGED <<phase, resources, requests, rejected>>

Next == ReadRequest \/ SortRequests \/ RejectType \/ RejectResources \/ Assign

Spec == Init /\ [][Next]_vars

-----------------------------------------------------------------------------
(* Properties                                                              *)

Assigned == {k \in DOMAIN served : served[k].waitTime # INT_MAX}
Queue(s, j) == {k \in Assigned : requests[k].transactionType = s /\ served[k].threadAssigned = j}

\* Every variable has a value of its type.
TypeOK == /\ phase \in {"input", "assign"}
          /\ resources \in ThreadInputs
          /\ requests \in Seq(Requests)
          /\ numReqsTaken \in [Services -> [WorkerThreads -> Nat]]
          /\ served \in Seq([waitTime : Nat \cup {INT_MAX},
                             threadAssigned : WorkerThreads \cup {-1}])
          /\ {totalWaitingTime, rejected, waited, blocked} \subseteq Nat

\* Every request takes one unit of time: those queued at a thread wait 0, 1,
\* 2, ... and it has the resources for each.  The statistics count them: the
\* total, those that wait, and among these the ones that found every thread
\* of the service busy, capable or not (lines 123-143).
QueuesSound ==
    /\ \A s \in Services, j \in WorkerThreads :
         /\ {served[k].waitTime : k \in Queue(s, j)} = 0..(Cardinality(Queue(s, j)) - 1)
         /\ \A k \in Queue(s, j) : resources[s][j] >= requests[k].resourcesRequired
    /\ waited = Cardinality({k \in Assigned : served[k].waitTime > 0})
    /\ blocked = Cardinality({k \in Assigned :
                   \A j \in WorkerThreads :
                     \E l \in Queue(requests[k].transactionType, j) : l < k})

\* Pairs of requests at one thread: the sum of the waiting times when each
\* request k of service s is queued at the thread queue[k].
Waiting(queue) == Cardinality({p \in (DOMAIN queue) \X (DOMAIN queue) :
                                 p[1] < p[2] /\ queue[p[1]] = queue[p[2]]})

\* No other assignment of the requests to threads with enough resources
\* waits less altogether: sorting by resources pays ("for efficient
\* scheduling", line 101).  At every point of the loop.
WaitsAreMinimal ==
    \A queue \in {q \in [Assigned -> WorkerThreads] :
                    \A k \in Assigned : resources[requests[k].transactionType][q[k]]
                                          >= requests[k].resourcesRequired} :
      totalWaitingTime <= Waiting([k \in Assigned |-> <<requests[k].transactionType, queue[k]>>])
=============================================================================
