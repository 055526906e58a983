-------------------------- MODULE SchedulerProofs ---------------------------
(***************************************************************************)
(* Proofs about the scheduler, for any number of services, threads and     *)
(* requests, whatever resources and needs are typed in: each thread serves *)
(* one request at a time, those it has the resources for; the printed      *)
(* statistics count what they say; and no other assignment makes the       *)
(* requests wait less.                                                     *)
(***************************************************************************)
EXTENDS Scheduler, FiniteSetTheorems, FunctionTheorems, TLAPS

\* The loop deals with the requests in turn, after they were read.
Turns == /\ Len(served) <= Len(requests)
         /\ phase = "input" => served = <<>>

\* A request that is not rejected was assigned to a thread of its service.
Placed == \A k \in Assigned : /\ requests[k].transactionType \in Services
                              /\ served[k].threadAssigned \in WorkerThreads

\* The code's counters are the lengths of the queues.
LoadsCount == \A s \in Services, j \in WorkerThreads :
                numReqsTaken[s][j] = Cardinality(Queue(s, j))

IInv == TypeOK /\ Turns /\ Placed /\ LoadsCount /\ QueuesSound

\* The requests that found every thread of their service busy.
Busy == {k \in Assigned : \A j \in WorkerThreads :
                            \E l \in Queue(requests[k].transactionType, j) : l < k}
\* The requests that wait.
Late == {k \in Assigned : served[k].waitTime > 0}

-----------------------------------------------------------------------------
(* Requests and sets of them                                               *)

\* What a request is.
LEMMA RequestShape ==
    ASSUME NEW r \in Requests
    PROVE  r.transactionType \in Int /\ r.resourcesRequired \in Int
BY InputsAssumption DEF Requests

\* The requests assigned so far are finitely many, and so is every part.
LEMMA FiniteAssigned ==
    ASSUME TypeOK
    PROVE  /\ IsFiniteSet(Assigned) /\ Assigned \subseteq 1..Len(served)
           /\ Len(served) \in Nat
           /\ \A T \in SUBSET Assigned : IsFiniteSet(T) /\ Cardinality(T) \in Nat
<1>1. Assigned \subseteq 1..Len(served) /\ Len(served) \in Nat
  BY DEF TypeOK, Assigned
<1>2. IsFiniteSet(1..Len(served))
  BY <1>1, FS_Interval
<1>3. IsFiniteSet(Assigned)
  BY <1>1, <1>2, FS_Subset
<1> QED BY <1>1, <1>3, FS_Subset, FS_CardinalityType

\* Nobody waits in an empty queue.
LEMMA NoQueue ==
    /\ Cardinality({}) = 0 /\ 0..(Cardinality({}) - 1) = {}
    /\ {served[k].waitTime : k \in {}} = {} /\ {served'[k].waitTime : k \in {}} = {}
<1>1. Cardinality({}) = 0
  BY FS_EmptySet
<1> QED BY <1>1

-----------------------------------------------------------------------------
(* Counting level by level                                                 *)

\* The elements of S at which f is above the level h.
Above(f, S, h) == {k \in S : f[k] > h}
\* The sum of f over S as a set, with f[k] elements for each k.
Pile(f, S) == {p \in S \X Nat : p[2] < f[p[1]]}

\* A set is mapped one to one to any set that is not smaller.
LEMMA FitsInto ==
    ASSUME NEW S, NEW T, IsFiniteSet(S), IsFiniteSet(T), Cardinality(S) <= Cardinality(T)
    PROVE  Injection(S, T) # {}
<1>1. PICK b \in Bijection(1..Cardinality(S), S) : TRUE
  BY FS_CardinalityType DEF ExistsBijection
<1>2. PICK c \in Bijection(1..Cardinality(T), T) : TRUE
  BY FS_CardinalityType DEF ExistsBijection
<1>3. Cardinality(S) \in Nat /\ Cardinality(T) \in Nat
  BY FS_CardinalityType
<1>4. PICK i \in Bijection(S, 1..Cardinality(S)) : TRUE
  BY Fun_BijInverse
<1> DEFINE f == [x \in S |-> c[i[x]]]
<1>5. /\ i \in [S -> 1..Cardinality(S)] /\ \A x, y \in S : i[x] = i[y] => x = y
      /\ c \in [1..Cardinality(T) -> T]
      /\ \A x, y \in 1..Cardinality(T) : c[x] = c[y] => x = y
  <2>1. i \in [S -> 1..Cardinality(S)] /\ \A x, y \in S : i[x] = i[y] => x = y
    BY DEF Bijection, Injection, IsInjective
  <2>2. /\ c \in [1..Cardinality(T) -> T]
        /\ \A x, y \in 1..Cardinality(T) : c[x] = c[y] => x = y
    BY Fun_BijectionProperties
  <2> QED BY <2>1, <2>2
<1>6. \A x \in S : i[x] \in 1..Cardinality(T)
  BY <1>3, <1>5
<1>7. f \in [S -> T] /\ \A x, y \in S : f[x] = f[y] => x = y
  BY <1>5, <1>6
<1> HIDE DEF f
<1>8. f \in Injection(S, T)
  BY <1>7, Fun_IsInj
<1> QED BY <1>8

\* If fewer elements are above every level, the sum is not larger.
LEMMA SmallerPile ==
    ASSUME NEW S, IsFiniteSet(S), NEW f \in [S -> Nat], NEW g \in [S -> Nat],
           IsFiniteSet(Pile(g, S)),
           \A h \in Nat : Cardinality(Above(f, S, h)) <= Cardinality(Above(g, S, h))
    PROVE  Cardinality(Pile(f, S)) <= Cardinality(Pile(g, S))
<1>1. ASSUME NEW h \in Nat
      PROVE  \E i \in Injection(Above(f, S, h), Above(g, S, h)) : TRUE
  <2>1. IsFiniteSet(Above(f, S, h)) /\ IsFiniteSet(Above(g, S, h))
    BY FS_Subset DEF Above
  <2> QED BY <2>1, FitsInto
<1> DEFINE F == [h \in Nat |-> CHOOSE i \in Injection(Above(f, S, h), Above(g, S, h)) : TRUE]
           G == [p \in Pile(f, S) |-> <<F[p[2]][p[1]], p[2]>>]
<1>2. \A h \in Nat : F[h] \in Injection(Above(f, S, h), Above(g, S, h))
  BY <1>1
<1>3. \A h \in Nat : /\ F[h] \in [Above(f, S, h) -> Above(g, S, h)]
                     /\ \A x, y \in Above(f, S, h) : F[h][x] = F[h][y] => x = y
  BY <1>2, Fun_InjectionProperties
<1> HIDE DEF F
<1>4. ASSUME NEW p \in Pile(f, S)
      PROVE  /\ p = <<p[1], p[2]>> /\ p[2] \in Nat /\ p[1] \in Above(f, S, p[2])
             /\ G[p] = <<F[p[2]][p[1]], p[2]>> /\ G[p] \in Pile(g, S)
  <2>1. p = <<p[1], p[2]>> /\ p[1] \in S /\ p[2] \in Nat /\ p[2] < f[p[1]]
    BY DEF Pile
  <2>2. p[1] \in Above(f, S, p[2])
    BY <2>1 DEF Above
  <2>3. F[p[2]][p[1]] \in Above(g, S, p[2])
    BY <2>1, <2>2, <1>3
  <2>4. F[p[2]][p[1]] \in S /\ p[2] < g[F[p[2]][p[1]]]
    BY <2>1, <2>3 DEF Above
  <2>5. <<F[p[2]][p[1]], p[2]>> \in Pile(g, S)
    BY <2>1, <2>4 DEF Pile
  <2> QED BY <2>1, <2>2, <2>5
<1>5. ASSUME NEW p \in Pile(f, S), NEW r \in Pile(f, S), G[p] = G[r]
      PROVE  p = r
  <2>1. p[2] = r[2] /\ F[p[2]][p[1]] = F[p[2]][r[1]]
    BY <1>4, <1>5
  <2>2. p[1] = r[1]
    BY <2>1, <1>3, <1>4
  <2> QED BY <2>1, <2>2, <1>4
<1>6. G \in [Pile(f, S) -> Pile(g, S)]
  BY <1>4
<1> HIDE DEF G
<1>7. G \in Injection(Pile(f, S), Pile(g, S))
  BY <1>5, <1>6, Fun_IsInj
<1> QED BY <1>7, FS_Injection

\* A sum grows by the value at an element that is new.
LEMMA PileGrows ==
    ASSUME NEW S, NEW f, NEW x, x \notin S, NEW g, NEW w \in Nat,
           \A k \in S : g[k] = f[k], g[x] = w, IsFiniteSet(Pile(f, S))
    PROVE  /\ IsFiniteSet(Pile(g, S \cup {x}))
           /\ Cardinality(Pile(g, S \cup {x})) = Cardinality(Pile(f, S)) + w
<1> DEFINE R == {x} \X (0..(w - 1))
<1>1. Pile(g, S \cup {x}) = Pile(f, S) \cup R
  <2>1. ASSUME NEW p \in Pile(g, S \cup {x}) PROVE p \in Pile(f, S) \cup R
    <3>1. p = <<p[1], p[2]>> /\ p[1] \in S \cup {x} /\ p[2] \in Nat /\ p[2] < g[p[1]]
      BY DEF Pile
    <3>2. CASE p[1] \in S
      BY <3>1, <3>2 DEF Pile
    <3>3. CASE p[1] = x
      <4>1. p[2] \in 0..(w - 1)
        BY <3>1, <3>3
      <4> QED BY <3>1, <3>3, <4>1
    <3> QED BY <3>1, <3>2, <3>3
  <2>2. ASSUME NEW p \in Pile(f, S) PROVE p \in Pile(g, S \cup {x})
    BY DEF Pile
  <2>3. ASSUME NEW p \in R PROVE p \in Pile(g, S \cup {x})
    <3>1. p = <<p[1], p[2]>> /\ p[1] = x /\ p[2] \in 0..(w - 1)
      OBVIOUS
    <3>2. p[2] \in Nat /\ p[2] < w
      BY <3>1
    <3> QED BY <3>1, <3>2 DEF Pile
  <2> QED BY <2>1, <2>2, <2>3
<1>2. Pile(f, S) \cap R = {}
  BY DEF Pile
<1>3. IsFiniteSet(R) /\ Cardinality(R) = w
  <2>1. IsFiniteSet({x}) /\ Cardinality({x}) = 1
    BY FS_Singleton
  <2>2. IsFiniteSet(0..(w - 1)) /\ Cardinality(0..(w - 1)) = w
    BY FS_Interval
  <2> QED BY <2>1, <2>2, FS_Product
<1> HIDE DEF R
<1>4. Cardinality(Pile(f, S)) \in Nat
  BY FS_CardinalityType
<1>5. Cardinality(Pile(f, S) \cap R) = 0
  BY <1>2, FS_EmptySet
<1>6. /\ IsFiniteSet(Pile(f, S) \cup R)
      /\ Cardinality(Pile(f, S) \cup R)
           = Cardinality(Pile(f, S)) + Cardinality(R) - Cardinality(Pile(f, S) \cap R)
  BY <1>3, FS_Union
<1>7. Cardinality(Pile(f, S) \cup R) = Cardinality(Pile(f, S)) + w
  BY <1>3, <1>4, <1>5, <1>6
<1> QED BY <1>1, <1>6, <1>7

-----------------------------------------------------------------------------
(* The steps                                                               *)

\* The invariant holds at the start.
LEMMA InitIInv == Init => IInv
<1> SUFFICES ASSUME Init PROVE IInv
  OBVIOUS
<1>1. Assigned = {} /\ \A s \in Services, j \in WorkerThreads : Queue(s, j) = {}
  BY DEF Init, Assigned, Queue
<1>2. Cardinality({}) = 0
  BY FS_EmptySet
<1>3. TypeOK
  BY DEF Init, TypeOK
<1>4. Turns /\ Placed /\ LoadsCount
  BY SMTT(60), <1>1, <1>2 DEF Init, Turns, Placed, LoadsCount
<1>5. QueuesSound
  <2>1. Busy = {} /\ Late = {}
    BY <1>1 DEF Busy, Late
  <2> QED BY <2>1, <1>1, NoQueue DEF Init, QueuesSound, Busy, Late
<1> QED BY <1>3, <1>4, <1>5 DEF IInv

\* Reading and sorting come before any request is served.
LEMMA InputKeeps ==
    ASSUME IInv, phase = "input",
           requests' \in Seq(Requests), Len(requests') >= Len(requests),
           phase' \in {"input", "assign"},
           UNCHANGED <<resources, numReqsTaken, served, statistics>>
    PROVE  IInv'
<1> USE DEF IInv
<1>1. /\ served = <<>> /\ served' = <<>> /\ resources' = resources
      /\ numReqsTaken' = numReqsTaken /\ totalWaitingTime' = totalWaitingTime
      /\ rejected' = rejected /\ waited' = waited /\ blocked' = blocked
  BY DEF Turns, statistics
<1>2. /\ Assigned = {} /\ Assigned' = {}
      /\ \A s \in Services, j \in WorkerThreads : Queue(s, j) = {} /\ Queue(s, j)' = {}
  BY <1>1 DEF Assigned, Queue
<1>3. TypeOK'
  BY <1>1 DEF TypeOK
<1>4. Turns'
  BY <1>1 DEF Turns
<1>5. Placed' /\ LoadsCount'
  BY <1>1, <1>2 DEF Placed, LoadsCount
<1>6. QueuesSound'
  <2>1. Busy = {} /\ Late = {} /\ Busy' = {} /\ Late' = {}
    BY <1>2 DEF Busy, Late
  <2>2. waited' = 0 /\ blocked' = 0
    BY <2>1, <1>1, NoQueue DEF QueuesSound, Busy, Late
  <2> QED BY <2>1, <2>2, <1>2, NoQueue DEF QueuesSound, Busy, Late
<1> QED BY <1>3, <1>4, <1>5, <1>6

\* A request is read.
LEMMA ReadKeeps ==
    ASSUME IInv, ReadRequest
    PROVE  IInv'
<1>1. PICK r \in Requests : requests' = Append(requests, r)
  BY DEF ReadRequest
<1>2. requests \in Seq(Requests)
  BY DEF IInv, TypeOK
<1>3. requests' \in Seq(Requests) /\ Len(requests') >= Len(requests)
  BY <1>1, <1>2
<1> QED BY <1>3, InputKeeps DEF ReadRequest

\* The requests are sorted.
LEMMA SortKeeps ==
    ASSUME IInv, SortRequests
    PROVE  IInv'
<1>1. PICK order \in [DOMAIN requests -> DOMAIN requests] :
        requests' = [k \in DOMAIN requests |-> requests[order[k]]]
  BY DEF SortRequests
<1>2. /\ requests \in Seq(Requests) /\ DOMAIN requests = 1..Len(requests)
      /\ Len(requests) \in Nat
  BY DEF IInv, TypeOK
<1>3. \A k \in 1..Len(requests) : requests[order[k]] \in Requests
  BY <1>2
<1>4. requests' = [k \in 1..Len(requests) |-> requests[order[k]]]
  BY <1>1, <1>2
<1>5. requests' \in Seq(Requests) /\ Len(requests') = Len(requests)
  BY <1>2, <1>3, <1>4
<1>6. phase = "input" /\ phase' = "assign"
      /\ UNCHANGED <<resources, numReqsTaken, served, statistics>>
  BY DEF SortRequests
<1> QED BY <1>2, <1>5, <1>6, InputKeeps

\* What the next request appended to the vector of results is.
LEMMA ServedGrows ==
    ASSUME IInv, More, NEW wait \in Nat \cup {INT_MAX},
           NEW thread \in WorkerThreads \cup {-1},
           served' = Append(served, Outcome(wait, thread)),
           phase' = phase, requests' = requests
    PROVE  /\ served' \in Seq([waitTime : Nat \cup {INT_MAX},
                               threadAssigned : WorkerThreads \cup {-1}])
           /\ Turns'
           /\ \A k \in Assigned : served'[k] = served[k]
           /\ Assigned' = IF wait = INT_MAX THEN Assigned
                          ELSE Assigned \cup {Len(served) + 1}
           /\ served'[Len(served) + 1] = Outcome(wait, thread)
           /\ req \in Requests /\ req = requests[Len(served) + 1]
           /\ \A k \in Assigned : k < Len(served) + 1
<1> DEFINE N == Len(served) + 1
           Out == [waitTime : Nat \cup {INT_MAX}, threadAssigned : WorkerThreads \cup {-1}]
<1>1. /\ served \in Seq(Out) /\ requests \in Seq(Requests)
      /\ Len(served) \in Nat /\ Len(requests) \in Nat
      /\ phase = "assign" /\ Len(served) < Len(requests)
  BY DEF IInv, TypeOK, More
<1>2. Outcome(wait, thread) \in Out /\ Outcome(wait, thread).waitTime = wait
  BY DEF Outcome
<1>3. /\ served' \in Seq(Out) /\ Len(served') = N /\ DOMAIN served' = 1..N
      /\ DOMAIN served = 1..Len(served) /\ served'[N] = Outcome(wait, thread)
      /\ \A k \in 1..Len(served) : served'[k] = served[k]
  BY <1>1, <1>2
<1>4. 1..N = 1..Len(served) \cup {N} /\ \A k \in 1..Len(served) : k < N
  BY <1>1
<1>5. Assigned \subseteq 1..Len(served)
  BY <1>3 DEF Assigned
<1>6. Turns'
  BY <1>1, <1>3 DEF Turns
<1>7. Assigned' = IF wait = INT_MAX THEN Assigned ELSE Assigned \cup {N}
  <2>1. Assigned' = {k \in 1..N : served'[k].waitTime # INT_MAX}
    BY <1>3 DEF Assigned
  <2>2. Assigned = {k \in 1..Len(served) : served[k].waitTime # INT_MAX}
    BY <1>3 DEF Assigned
  <2> QED BY <2>1, <2>2, <1>2, <1>3, <1>4
<1>8. N \in 1..Len(requests)
  BY <1>1
<1>9. req \in Requests /\ req = requests[N]
  BY <1>1, <1>8 DEF req
<1> QED BY <1>3, <1>4, <1>5, <1>6, <1>7, <1>9

\* A request that is rejected changes no queue.
LEMMA RejectKeeps ==
    ASSUME IInv, RejectType \/ RejectResources
    PROVE  IInv'
<1>1. /\ More /\ served' = Append(served, Outcome(INT_MAX, -1))
      /\ phase' = phase /\ requests' = requests /\ resources' = resources
      /\ numReqsTaken' = numReqsTaken /\ totalWaitingTime' = totalWaitingTime
      /\ waited' = waited /\ blocked' = blocked
      /\ rejected' \in {rejected, rejected + 1}
  BY DEF RejectType, RejectResources, statistics
<1>2. /\ served' \in Seq([waitTime : Nat \cup {INT_MAX},
                          threadAssigned : WorkerThreads \cup {-1}])
      /\ Turns' /\ Assigned' = Assigned
      /\ \A k \in Assigned : served'[k] = served[k]
  BY <1>1, ServedGrows
<1>3. \A s, j : Queue(s, j)' = Queue(s, j)
  BY <1>1, <1>2 DEF Queue
<1>4. TypeOK'
  BY <1>1, <1>2 DEF IInv, TypeOK
<1>5. Placed' /\ LoadsCount'
  BY <1>1, <1>2, <1>3 DEF IInv, Placed, LoadsCount
<1>6. Busy' = Busy /\ Late' = Late
  BY <1>1, <1>2, <1>3 DEF Busy, Late
<1>7. QueuesSound'
  <2>1. waited' = Cardinality(Late') /\ blocked' = Cardinality(Busy')
    BY <1>1, <1>6 DEF IInv, QueuesSound, Busy, Late
  <2>2. ASSUME NEW s \in Services, NEW j \in WorkerThreads
        PROVE  /\ {served'[k].waitTime : k \in Queue(s, j)'}
                    = 0..(Cardinality(Queue(s, j)') - 1)
               /\ \A k \in Queue(s, j)' : resources'[s][j] >= requests'[k].resourcesRequired
    <3>1. Queue(s, j) \subseteq Assigned
      BY DEF Queue
    <3>2. {served'[k].waitTime : k \in Queue(s, j)} = {served[k].waitTime : k \in Queue(s, j)}
      BY <3>1, <1>2
    <3> QED BY <3>2, <1>1, <1>3 DEF IInv, QueuesSound
  <2> QED BY <2>1, <2>2 DEF QueuesSound, Busy, Late
<1> QED BY <1>2, <1>4, <1>5, <1>7 DEF IInv

\* The values of f on a queue Q.
Values(f, Q) == {f[k] : k \in Q}

\* The requests of a queue, one more: the newcomer waits for all of the others.
LEMMA QueueGrows ==
    ASSUME NEW Q, IsFiniteSet(Q), NEW x, x \notin Q, NEW f, NEW g,
           Values(f, Q) = 0..(Cardinality(Q) - 1),
           \A k \in Q : g[k] = f[k], g[x] = Cardinality(Q)
    PROVE  /\ Cardinality(Q \cup {x}) = Cardinality(Q) + 1
           /\ Values(g, Q \cup {x}) = 0..(Cardinality(Q \cup {x}) - 1)
<1>1. Cardinality(Q) \in Nat /\ Cardinality(Q \cup {x}) = Cardinality(Q) + 1
  BY FS_CardinalityType, FS_AddElement
<1>2. Values(g, Q \cup {x}) = Values(f, Q) \cup {Cardinality(Q)}
  BY DEF Values
<1>3. \A c \in Nat : 0..(c - 1) \cup {c} = 0..(c + 1 - 1)
  OBVIOUS
<1>4. Values(g, Q \cup {x}) = 0..(Cardinality(Q) + 1 - 1)
  BY <1>1, <1>2, <1>3
<1> QED BY <1>1, <1>4

\* What an assignment does: request N goes to a least loaded of the threads
\* of its service that have the resources for it, and to the end of its queue.
Assigns(N, type, j) ==
    /\ More /\ type = req.transactionType /\ service = type
    /\ phase' = phase /\ resources' = resources /\ requests' = requests /\ rejected' = rejected
    /\ threadChosen(j) /\ resources[type][j] >= req.resourcesRequired
    /\ totalWaitingTime' = totalWaitingTime + Load(j)
    /\ waited' = IF Load(j) > 0 THEN waited + 1 ELSE waited
    /\ blocked' = IF isThreadAvailable(j) THEN blocked ELSE blocked + 1
    /\ \A w \in WorkerThreads : Load(w) = numReqsTaken[type][w] /\ Load(w) \in Nat
    /\ served' \in Seq([waitTime : Nat \cup {INT_MAX},
                        threadAssigned : WorkerThreads \cup {-1}])
    /\ Turns' /\ Assigned' = Assigned \cup {N}
    /\ \A k \in Assigned : served'[k] = served[k]
    /\ served'[N].waitTime = Load(j) /\ served'[N].threadAssigned = j
    /\ req = requests[N] /\ \A k \in Assigned : k < N /\ k # N
    /\ numReqsTaken' \in [Services -> [WorkerThreads -> Nat]]
    /\ numReqsTaken'[type][j] = Load(j) + 1
    /\ \A s \in Services, w \in WorkerThreads :
         s # type \/ w # j => numReqsTaken'[s][w] = numReqsTaken[s][w]
    /\ \A s \in Services, w \in WorkerThreads :
         Queue(s, w)' = IF s = type /\ w = j THEN Queue(s, w) \cup {N} ELSE Queue(s, w)

\* Every assignment is one of these.
LEMMA AssignEffect ==
    ASSUME IInv, Assign
    PROVE  \E type \in Services, j \in WorkerThreads : Assigns(Len(served) + 1, type, j)
<1> DEFINE N == Len(served) + 1
<1>1. PICK j \in WorkerThreads :
        /\ threadChosen(j)
        /\ numReqsTaken' = [numReqsTaken EXCEPT ![service][j] = @ + 1]
        /\ served' = Append(served, Outcome(Load(j), j))
        /\ totalWaitingTime' = totalWaitingTime + Load(j)
        /\ waited' = IF Load(j) > 0 THEN waited + 1 ELSE waited
        /\ blocked' = IF isThreadAvailable(j) THEN blocked ELSE blocked + 1
  BY DEF Assign
<1>2. PICK type \in Services :
        /\ More /\ type = req.transactionType /\ service = type
        /\ phase' = phase /\ resources' = resources /\ requests' = requests
        /\ rejected' = rejected
  BY DEF Assign, service
<1>3. /\ numReqsTaken \in [Services -> [WorkerThreads -> Nat]]
      /\ Load(j) = numReqsTaken[type][j] /\ Load(j) \in Nat
      /\ \A w \in WorkerThreads : Load(w) = numReqsTaken[type][w] /\ Load(w) \in Nat
  BY <1>2 DEF IInv, TypeOK, Load
<1>4. resources[type][j] >= req.resourcesRequired
  BY <1>1, <1>2 DEF threadChosen, Capable
<1>5. /\ served' \in Seq([waitTime : Nat \cup {INT_MAX},
                          threadAssigned : WorkerThreads \cup {-1}])
      /\ Turns' /\ Assigned' = Assigned \cup {N}
      /\ \A k \in Assigned : served'[k] = served[k]
      /\ served'[N].waitTime = Load(j) /\ served'[N].threadAssigned = j
      /\ req = requests[N] /\ \A k \in Assigned : k < N /\ k # N
  <2>1. Load(j) # INT_MAX
    BY <1>3 DEF INT_MAX
  <2> HIDE DEF N
  <2>2. /\ Outcome(Load(j), j).waitTime = Load(j)
        /\ Outcome(Load(j), j).threadAssigned = j
    BY DEF Outcome
  <2>3. \A k \in Assigned : k \in Nat /\ (k < N => k # N)
    BY FiniteAssigned DEF IInv, N
  <2> QED BY <1>1, <1>2, <1>3, <2>1, <2>2, <2>3, ServedGrows DEF N
<1>6. /\ numReqsTaken' \in [Services -> [WorkerThreads -> Nat]]
      /\ numReqsTaken'[type][j] = Load(j) + 1
      /\ \A s \in Services, w \in WorkerThreads :
           s # type \/ w # j => numReqsTaken'[s][w] = numReqsTaken[s][w]
  BY <1>1, <1>2, <1>3
<1> HIDE DEF N
<1>7. \A s \in Services, w \in WorkerThreads :
        Queue(s, w)' = IF s = type /\ w = j THEN Queue(s, w) \cup {N} ELSE Queue(s, w)
  <2>1. requests[N].transactionType = type
    BY <1>2, <1>5
  <2> QED BY <2>1, <1>2, <1>5 DEF Queue
<1>8. Assigns(N, type, j)
  <2> HIDE DEF threadChosen, isThreadAvailable, More, Load, service, req, Queue, Assigned
  <2> QED BY <1>1, <1>2, <1>3, <1>4, <1>5, <1>6, <1>7 DEF Assigns
<1> HIDE DEF Assigns
<1> QED BY <1>8 DEF N

\* A request is queued at the last of the least loaded threads that have the
\* resources for it.
LEMMA AssignKeeps ==
    ASSUME IInv, Assign
    PROVE  IInv'
<1> DEFINE N == Len(served) + 1
<1>1. PICK type \in Services, j \in WorkerThreads : Assigns(N, type, j)
  BY AssignEffect
<1> HIDE DEF N
<1>2. /\ type = req.transactionType /\ service = type
      /\ phase' = phase /\ resources' = resources /\ requests' = requests
      /\ rejected' = rejected
  BY <1>1 DEF Assigns
<1>3. \A w \in WorkerThreads : Load(w) = numReqsTaken[type][w] /\ Load(w) \in Nat
  BY <1>1 DEF Assigns
<1>4. /\ threadChosen(j) /\ resources[type][j] >= req.resourcesRequired
      /\ totalWaitingTime' = totalWaitingTime + Load(j)
      /\ waited' = IF Load(j) > 0 THEN waited + 1 ELSE waited
      /\ blocked' = IF isThreadAvailable(j) THEN blocked ELSE blocked + 1
  BY <1>1 DEF Assigns
<1>5. /\ served' \in Seq([waitTime : Nat \cup {INT_MAX},
                          threadAssigned : WorkerThreads \cup {-1}])
      /\ Turns' /\ Assigned' = Assigned \cup {N}
      /\ \A k \in Assigned : served'[k] = served[k]
      /\ served'[N].waitTime = Load(j) /\ served'[N].threadAssigned = j
      /\ req = requests[N] /\ \A k \in Assigned : k < N /\ k # N
  BY <1>1 DEF Assigns
<1>6. /\ numReqsTaken' \in [Services -> [WorkerThreads -> Nat]]
      /\ numReqsTaken'[type][j] = Load(j) + 1
      /\ \A s \in Services, w \in WorkerThreads :
           s # type \/ w # j => numReqsTaken'[s][w] = numReqsTaken[s][w]
  BY <1>1 DEF Assigns
<1>7. \A s \in Services, w \in WorkerThreads :
        Queue(s, w)' = IF s = type /\ w = j THEN Queue(s, w) \cup {N} ELSE Queue(s, w)
  BY <1>1 DEF Assigns
<1>8. /\ \A s \in Services, w \in WorkerThreads :
           /\ Queue(s, w) \subseteq Assigned /\ N \notin Queue(s, w)
           /\ IsFiniteSet(Queue(s, w)) /\ Cardinality(Queue(s, w)) \in Nat
           /\ numReqsTaken[s][w] = Cardinality(Queue(s, w))
           /\ {served[k].waitTime : k \in Queue(s, w)}
                = 0..(Cardinality(Queue(s, w)) - 1)
           /\ \A k \in Queue(s, w) : resources[s][w] >= requests[k].resourcesRequired
  <2>1. \A s, w : Queue(s, w) \subseteq Assigned
    BY DEF Queue
  <2> QED BY <2>1, <1>5, FiniteAssigned DEF IInv, LoadsCount, QueuesSound
<1>9. TypeOK'
  <2>1. waited' \in Nat /\ blocked' \in Nat /\ totalWaitingTime' \in Nat
    BY <1>3, <1>4 DEF IInv, TypeOK
  <2> QED BY <2>1, <1>2, <1>5, <1>6 DEF IInv, TypeOK
<1>10. Placed'
  <2>1. requests'[N].transactionType = type
    BY <1>2, <1>5
  <2> QED BY <2>1, <1>2, <1>5 DEF IInv, Placed
<1>11. ASSUME NEW s \in Services, NEW w \in WorkerThreads
       PROVE  /\ numReqsTaken'[s][w] = Cardinality(Queue(s, w)')
              /\ {served'[k].waitTime : k \in Queue(s, w)'}
                   = 0..(Cardinality(Queue(s, w)') - 1)
              /\ \A k \in Queue(s, w)' : resources'[s][w] >= requests'[k].resourcesRequired
  <2> DEFINE Q == Queue(s, w)
             f == [k \in Assigned |-> served[k].waitTime]
             g == [k \in Assigned \cup {N} |-> served'[k].waitTime]
  <2>1. CASE s = type /\ w = j
    <3>1. Queue(s, w)' = Q \cup {N}
      BY <2>1, <1>7
    <3>2. IsFiniteSet(Q) /\ N \notin Q /\ Q \subseteq Assigned
      BY <1>8
    <3>3. Values(f, Q) = {served[k].waitTime : k \in Q}
      BY <3>2 DEF Values
    <3>4. Values(g, Q \cup {N}) = {served'[k].waitTime : k \in Q \cup {N}}
      BY <3>2 DEF Values
    <3>5. /\ \A k \in Q : g[k] = f[k]
          /\ g[N] = Load(j) /\ Load(j) = Cardinality(Q)
      BY <3>2, <2>1, <1>3, <1>5, <1>8
    <3>6. Values(f, Q) = 0..(Cardinality(Q) - 1)
      BY <3>3, <1>8
    <3>7. resources'[s][w] >= requests'[N].resourcesRequired
      BY <2>1, <1>2, <1>4, <1>5
    <3>8. \A k \in Q : resources'[s][w] >= requests'[k].resourcesRequired
      BY <1>2, <1>8
    <3> HIDE DEF Q, f, g
    <3>9. /\ Cardinality(Q \cup {N}) = Cardinality(Q) + 1
          /\ Values(g, Q \cup {N}) = 0..(Cardinality(Q \cup {N}) - 1)
      BY <3>2, <3>5, <3>6, QueueGrows
    <3>10. numReqsTaken'[s][w] = Cardinality(Q) + 1
      BY <3>5, <2>1, <1>6
    <3> QED BY <3>1, <3>4, <3>7, <3>8, <3>9, <3>10
  <2>2. CASE s # type \/ w # j
    <3>1. Queue(s, w)' = Queue(s, w)
      BY <2>2, <1>7
    <3>2. {served'[k].waitTime : k \in Q} = {served[k].waitTime : k \in Q}
      BY <1>5, <1>8
    <3>3. /\ numReqsTaken'[s][w] = Cardinality(Q)
          /\ {served[k].waitTime : k \in Q} = 0..(Cardinality(Q) - 1)
          /\ \A k \in Q : resources[s][w] >= requests[k].resourcesRequired
      BY <2>2, <1>6, <1>8
    <3> HIDE DEF Q
    <3> QED BY <3>1, <3>2, <3>3, <1>2 DEF Q
  <2> QED BY <2>1, <2>2
<1>12. waited' = Cardinality(Late')
  <2>1. Late' = IF Load(j) > 0 THEN Late \cup {N} ELSE Late
    BY <1>5 DEF Late
  <2>2. IsFiniteSet(Late) /\ N \notin Late /\ waited = Cardinality(Late)
    <3>1. Late \subseteq Assigned
      BY DEF Late
    <3> QED BY <3>1, <1>5, FiniteAssigned DEF IInv, QueuesSound, Late
  <2> QED BY <2>1, <2>2, <1>4, FS_AddElement
<1>13. isThreadAvailable(j) <=> \E w \in WorkerThreads : Queue(type, w) = {}
  <2>1. \A w \in WorkerThreads : Load(w) = 0 <=> Queue(type, w) = {}
    BY <1>2, <1>3, <1>8, FS_EmptySet
  <2>2. j \in Int
    BY DEF WorkerThreads
  <2>3. isThreadAvailable(j) <=> \E w \in WorkerThreads : Load(w) = 0
    BY <2>2 DEF isThreadAvailable
  <2> QED BY <2>1, <2>3
<1>14. blocked' = Cardinality(Busy')
  <2>1. \A k \in Assigned : requests'[k].transactionType = requests[k].transactionType
                            /\ requests[k].transactionType \in Services
    BY <1>2 DEF IInv, Placed
  <2>2. ASSUME NEW k \in Assigned PROVE k \in Busy' <=> k \in Busy
    <3> DEFINE s == requests[k].transactionType
    <3>1. \A w \in WorkerThreads :
            (\E l \in Queue(s, w)' : l < k) <=> (\E l \in Queue(s, w) : l < k)
      <4>1. ~(N < k)
        <5>1. k \in Nat /\ N \in Nat
          BY FiniteAssigned DEF IInv, N
        <5> QED BY <5>1, <1>5
      <4> QED BY <4>1, <2>1, <1>7
    <3> QED BY <3>1, <2>1, <1>5 DEF Busy
  <2>3. N \in Busy' <=> \A w \in WorkerThreads : Queue(type, w) # {}
    <3>1. requests'[N].transactionType = type /\ N \in Assigned'
      BY <1>2, <1>5
    <3>2. N \in Busy' <=> \A w \in WorkerThreads : \E l \in Queue(type, w)' : l < N
      BY <3>1 DEF Busy
    <3>3. \A w \in WorkerThreads :
            (\E l \in Queue(type, w)' : l < N) <=> Queue(type, w) # {}
      <4>1. ~(N < N)
        BY FiniteAssigned DEF IInv, N
      <4>2. ASSUME NEW w \in WorkerThreads
            PROVE  (\E l \in Queue(type, w)' : l < N) <=> Queue(type, w) # {}
        <5>1. \A l \in Queue(type, w) : l < N
          BY <1>5, <1>8
        <5>2. Queue(type, w)' \in {Queue(type, w), Queue(type, w) \cup {N}}
          BY <1>7
        <5> QED BY <4>1, <5>1, <5>2
      <4> QED BY <4>2
    <3> QED BY <3>2, <3>3
  <2>4. Busy' \subseteq Assigned \cup {N} /\ Busy \subseteq Assigned
    BY <1>5 DEF Busy
  <2>5. Busy' = IF isThreadAvailable(j) THEN Busy ELSE Busy \cup {N}
    <3>1. CASE isThreadAvailable(j)
      BY <3>1, <2>2, <2>3, <2>4, <1>13
    <3>2. CASE ~isThreadAvailable(j)
      BY <3>2, <2>2, <2>3, <2>4, <1>13
    <3> HIDE DEF isThreadAvailable
    <3> QED BY <3>1, <3>2
  <2>6. IsFiniteSet(Busy) /\ N \notin Busy /\ blocked = Cardinality(Busy)
    BY <2>4, <1>5, FiniteAssigned DEF IInv, QueuesSound, Busy
  <2> QED BY <2>5, <2>6, <1>4, FS_AddElement
<1>15. QueuesSound' /\ LoadsCount'
  BY <1>11, <1>12, <1>14 DEF QueuesSound, LoadsCount, Late, Busy
<1> QED BY <1>5, <1>9, <1>10, <1>15 DEF IInv

-----------------------------------------------------------------------------
(* Waiting as little as possible                                           *)

\* How long each of the requests assigned so far waits.
Wait == [k \in Assigned |-> served[k].waitTime]

\* The assignments of these requests to threads with enough resources.
Plans == {q \in [Assigned -> WorkerThreads] :
            \A k \in Assigned : resources[requests[k].transactionType][q[k]]
                                  >= requests[k].resourcesRequired}
\* The requests that request k waits for under the plan q, and their number.
Before(q, k) == {l \in Assigned : /\ l < k /\ q[l] = q[k]
                                  /\ requests[l].transactionType = requests[k].transactionType}
Rank(q) == [k \in Assigned |-> Cardinality(Before(q, k))]

\* The requests are dealt with in the order of the resources they need.
InOrder == phase = "assign" => Sorted(requests)

\* A request that waits found a longer or equal queue at every thread it
\* could have been assigned to.
ShortestQueue ==
    \A k \in Assigned, s \in Services, j \in WorkerThreads :
      requests[k].transactionType = s /\ resources[s][j] >= requests[k].resourcesRequired =>
        \A h \in 0..(served[k].waitTime - 1) :
          \E l \in Queue(s, j) : l < k /\ served[l].waitTime = h

\* The total is the sum of the waits.
TotalCounts == /\ IsFiniteSet(Pile(Wait, Assigned))
               /\ totalWaitingTime = Cardinality(Pile(Wait, Assigned))

GreedyInv == IInv /\ InOrder /\ ShortestQueue /\ TotalCounts

\* What is known of the requests that are assigned.
LEMMA AssignedShape ==
    ASSUME TypeOK, Turns
    PROVE  \A k \in Assigned : /\ k \in Nat /\ k \in DOMAIN requests
                               /\ requests[k].resourcesRequired \in Int
                               /\ served[k].waitTime \in Nat /\ phase = "assign"
<1>1. /\ requests \in Seq(Requests) /\ Len(requests) \in Nat /\ Len(served) \in Nat
      /\ DOMAIN requests = 1..Len(requests) /\ DOMAIN served = 1..Len(served)
      /\ Len(served) <= Len(requests)
      /\ \A k \in DOMAIN served : served[k].waitTime \in Nat \cup {INT_MAX}
  <2>1. requests \in Seq(Requests) /\ Len(served) <= Len(requests)
    BY DEF TypeOK, Turns
  <2> DEFINE Out == [waitTime : Nat \cup {INT_MAX}, threadAssigned : WorkerThreads \cup {-1}]
  <2>2. served \in Seq(Out) /\ \A o \in Out : o.waitTime \in Nat \cup {INT_MAX}
    BY DEF TypeOK
  <2> HIDE DEF Out
  <2>3. /\ Len(served) \in Nat /\ DOMAIN served = 1..Len(served)
        /\ \A k \in DOMAIN served : served[k] \in Out
    BY <2>2
  <2> QED BY <2>1, <2>2, <2>3
<1>2. phase # "assign" => served = <<>>
  BY DEF TypeOK, Turns
<1> SUFFICES ASSUME NEW k \in Assigned
             PROVE  /\ k \in Nat /\ k \in DOMAIN requests
                    /\ requests[k].resourcesRequired \in Int
                    /\ served[k].waitTime \in Nat /\ phase = "assign"
  OBVIOUS
<1>3. k \in 1..Len(served) /\ served[k].waitTime # INT_MAX
  BY <1>1 DEF Assigned
<1>4. k \in 1..Len(requests) /\ k \in Nat
  BY <1>1, <1>3
<1>5. requests[k] \in Requests
  BY <1>1, <1>4
<1>6. requests[k].resourcesRequired \in Int
  BY <1>5, RequestShape
<1>7. phase = "assign"
  BY <1>1, <1>2, <1>3
<1> QED BY <1>1, <1>3, <1>4, <1>6, <1>7

\* Ranks are numbers; the requests at one thread have different ones.
LEMMA RanksDiffer ==
    ASSUME TypeOK, Turns, NEW q \in Plans
    PROVE  /\ Rank(q) \in [Assigned -> Nat]
           /\ \A k, l \in Assigned :
                /\ requests[l].transactionType = requests[k].transactionType
                /\ q[l] = q[k] /\ Rank(q)[l] = Rank(q)[k]
                => l = k
<1>1. \A k : Before(q, k) \subseteq Assigned
  BY DEF Before
<1>2. \A k \in Assigned : /\ IsFiniteSet(Before(q, k)) /\ Cardinality(Before(q, k)) \in Nat
                          /\ Rank(q)[k] = Cardinality(Before(q, k))
  BY <1>1, FiniteAssigned DEF Rank
<1>3. ASSUME NEW k \in Assigned, NEW l \in Assigned, l < k, q[l] = q[k],
             requests[l].transactionType = requests[k].transactionType
      PROVE  Rank(q)[l] < Rank(q)[k]
  <2>1. k \in Nat /\ l \in Nat /\ \A i \in Assigned : i \in Nat
    BY AssignedShape
  <2>2. Before(q, l) \cup {l} \subseteq Before(q, k) /\ l \notin Before(q, l)
    <3>1. ASSUME NEW i \in Before(q, l) PROVE i \in Before(q, k) /\ i # l
      <4>1. /\ i \in Assigned /\ i < l /\ q[i] = q[l]
            /\ requests[i].transactionType = requests[l].transactionType
        BY DEF Before
      <4>2. i < k /\ i # l
        BY <4>1, <2>1, <1>3
      <4> QED BY <4>1, <4>2, <1>3 DEF Before
    <3>2. l \in Before(q, k)
      BY <1>3 DEF Before
    <3> QED BY <3>1, <3>2
  <2>3. Cardinality(Before(q, l) \cup {l}) = Cardinality(Before(q, l)) + 1
    BY <2>2, <1>2, FS_AddElement
  <2>4. Cardinality(Before(q, l) \cup {l}) <= Cardinality(Before(q, k))
    BY <2>2, <1>2, FS_Subset
  <2> QED BY <2>3, <2>4, <1>2
<1>4. Rank(q) \in [Assigned -> Nat]
  BY <1>2 DEF Rank
<1>5. ASSUME NEW k \in Assigned, NEW l \in Assigned, q[l] = q[k],
             requests[l].transactionType = requests[k].transactionType,
             Rank(q)[l] = Rank(q)[k]
      PROVE  l = k
  <2>1. k \in Nat /\ l \in Nat
    BY AssignedShape
  <2>2. Rank(q)[l] \in Nat /\ Rank(q)[k] \in Nat
    BY <1>4
  <2>3. ~ (l < k) /\ ~ (k < l)
    BY <1>3, <1>5, <2>2
  <2> QED BY <2>1, <2>3
<1> QED BY <1>4, <1>5

\* At every level: no plan has fewer requests that wait longer.  Were there
\* one of rank at most h that comes before a request of its service waiting
\* longer than h, its thread could have served the latter, too, so there is
\* a request in that queue whose wait is this rank.
LEMMA LevelsAreMinimal ==
    ASSUME GreedyInv, NEW q \in Plans, NEW h \in Nat
    PROVE  Cardinality(Above(Wait, Assigned, h)) <= Cardinality(Above(Rank(q), Assigned, h))
<1> DEFINE type(k) == requests[k].transactionType
           Low == {k \in Assigned : Rank(q)[k] <= h}
           Short == {k \in Assigned : served[k].waitTime <= h}
           Held(k) == \E i \in Assigned : i >= k /\ type(i) = type(k) /\ served[i].waitTime > h
           Match(k, l) == /\ type(l) = type(k)
                          /\ Held(k) => /\ Held(l) /\ served[l].threadAssigned = q[k]
                                        /\ served[l].waitTime = Rank(q)[k]
                          /\ ~Held(k) => l = k
           F == [k \in Low |-> CHOOSE l \in Short : Match(k, l)]
<1>1. /\ TypeOK /\ Turns /\ ShortestQueue /\ InOrder
      /\ \A k \in Assigned : k \in Nat /\ served[k].waitTime \in Nat
      /\ Rank(q) \in [Assigned -> Nat]
  BY AssignedShape, RanksDiffer DEF GreedyInv, IInv
<1>2. ASSUME NEW k \in Assigned, NEW i \in Assigned, i >= k
      PROVE  requests[k].resourcesRequired >= requests[i].resourcesRequired
  <2>1. /\ k \in DOMAIN requests /\ i \in DOMAIN requests /\ Sorted(requests)
        /\ requests[k].resourcesRequired \in Int /\ k \in Nat /\ i \in Nat
    BY <1>1, AssignedShape DEF InOrder
  <2>2. CASE i = k
    BY <2>1, <2>2
  <2>3. CASE i > k
    BY <2>1, <2>3 DEF Sorted
  <2> QED BY <2>1, <2>2, <2>3, <1>2
<1>3. ASSUME NEW k \in Low PROVE \E l \in Short : Match(k, l)
  <2>1. k \in Assigned /\ Rank(q)[k] <= h /\ Rank(q)[k] \in Nat
    BY <1>1
  <2>2. CASE ~Held(k)
    <3>1. ~(served[k].waitTime > h)
      BY <2>1, <2>2, <1>1
    <3>2. k \in Short
      BY <2>1, <3>1, <1>1
    <3> QED BY <3>2, <2>2
  <2>3. CASE Held(k)
    <3>1. PICK i \in Assigned : i >= k /\ type(i) = type(k) /\ served[i].waitTime > h
      BY <2>3
    <3>2. /\ q[k] \in WorkerThreads
          /\ resources[type(k)][q[k]] >= requests[k].resourcesRequired
      BY <2>1 DEF Plans
    <3>3. resources[type(i)][q[k]] >= requests[i].resourcesRequired
      <4>1. requests[k].resourcesRequired >= requests[i].resourcesRequired
        BY <2>1, <3>1, <1>2
      <4>2. /\ requests[k].resourcesRequired \in Int
            /\ requests[i].resourcesRequired \in Int
        BY <2>1, <1>1, AssignedShape
      <4>3. resources[type(k)][q[k]] \in Int
        <5>1. resources \in [Services -> [WorkerThreads -> Nat]]
          BY <1>1, ThreadsAssumption DEF TypeOK
        <5>2. type(k) \in Services
          BY <2>1 DEF GreedyInv, IInv, Placed
        <5> QED BY <5>1, <5>2, <3>2
      <4> QED BY <4>1, <4>2, <4>3, <3>1, <3>2
    <3>4. Rank(q)[k] \in 0..(served[i].waitTime - 1)
      BY <2>1, <3>1, <1>1
    <3>5. PICK l \in Queue(type(i), q[k]) : l < i /\ served[l].waitTime = Rank(q)[k]
      <4>1. type(i) \in Services
        BY DEF GreedyInv, IInv, Placed
      <4> QED BY <4>1, <3>2, <3>3, <3>4, <1>1 DEF ShortestQueue
    <3>6. /\ l \in Assigned /\ type(l) = type(k) /\ served[l].threadAssigned = q[k]
      BY <3>1, <3>5 DEF Queue
    <3>7. Held(l)
      BY <3>1, <3>5, <3>6, <1>1
    <3>8. l \in Short
      BY <3>5, <3>6, <2>1
    <3> HIDE DEF Held, Short
    <3> QED BY <3>5, <3>6, <3>7, <3>8, <2>3
  <2> QED BY <2>2, <2>3
<1>4. \A k \in Low : F[k] \in Short /\ Match(k, F[k])
  <2> HIDE DEF Match, Short, Low
  <2>1. \A k \in Low : F[k] = CHOOSE l \in Short : Match(k, l)
    OBVIOUS
  <2> HIDE DEF F
  <2> QED BY <2>1, <1>3
<1>5. F \in [Low -> Short]
  <2> HIDE DEF Short, Low, Match
  <2> QED BY <1>4
<1> HIDE DEF F
<1>6. ASSUME NEW k \in Low, NEW i \in Low, F[k] = F[i]
      PROVE  k = i
  <2>1. Match(k, F[k]) /\ Match(i, F[k])
    BY <1>4, <1>6
  <2>2. type(k) = type(i)
    BY <2>1
  <2> HIDE DEF Held
  <2>3. CASE ~Held(k) /\ ~Held(i)
    BY <2>1, <2>3
  <2>4. CASE Held(k) /\ Held(i)
    <3>1. q[k] = q[i] /\ Rank(q)[k] = Rank(q)[i] /\ k \in Assigned /\ i \in Assigned
      BY <2>1, <2>4
    <3> QED BY <3>1, <2>2, <1>1, RanksDiffer
  <2>5. CASE Held(k) /\ ~Held(i)
    BY <2>1, <2>5
  <2>6. CASE ~Held(k) /\ Held(i)
    BY <2>1, <2>6
  <2> QED BY <2>3, <2>4, <2>5, <2>6
<1>7. /\ IsFiniteSet(Assigned) /\ Cardinality(Assigned) \in Nat
      /\ IsFiniteSet(Short) /\ Cardinality(Short) \in Nat
      /\ IsFiniteSet(Low) /\ Cardinality(Low) \in Nat
  BY <1>1, FiniteAssigned
<1>8. Cardinality(Low) <= Cardinality(Short)
  <2> HIDE DEF Low, Short
  <2>1. F \in Injection(Low, Short)
    BY <1>5, <1>6, Fun_IsInj
  <2> QED BY <2>1, <1>7, FS_Injection
<1>9. /\ Above(Wait, Assigned, h) = Assigned \ Short
      /\ Above(Rank(q), Assigned, h) = Assigned \ Low
  BY <1>1 DEF Above, Wait
<1>10. /\ Cardinality(Assigned \ Short) = Cardinality(Assigned) - Cardinality(Short)
       /\ Cardinality(Assigned \ Low) = Cardinality(Assigned) - Cardinality(Low)
  <2>1. Assigned \cap Short = Short /\ Assigned \cap Low = Low
    OBVIOUS
  <2> HIDE DEF Low, Short
  <2>2. Cardinality(Assigned \ Short) = Cardinality(Assigned) - Cardinality(Assigned \cap Short)
    BY <1>7, FS_Difference
  <2>3. Cardinality(Assigned \ Low) = Cardinality(Assigned) - Cardinality(Assigned \cap Low)
    BY <1>7, FS_Difference
  <2> QED BY <2>1, <2>2, <2>3
<1> QED BY <1>7, <1>8, <1>9, <1>10

\* The ranks add up to the number of pairs of requests at one thread.
LEMMA RanksArePairs ==
    ASSUME TypeOK, Turns, NEW q \in Plans
    PROVE  LET queue == [k \in Assigned |-> <<requests[k].transactionType, q[k]>>]
           IN  /\ IsFiniteSet(Pile(Rank(q), Assigned))
               /\ Cardinality(Pile(Rank(q), Assigned)) <= Waiting(queue)
               /\ Waiting(queue) \in Nat
<1> DEFINE queue == [k \in Assigned |-> <<requests[k].transactionType, q[k]>>]
           Pairs == {p \in Assigned \X Assigned : p[1] < p[2] /\ queue[p[1]] = queue[p[2]]}
           B == [k \in Assigned |-> CHOOSE b \in Bijection(1..Cardinality(Before(q, k)), Before(q, k)) : TRUE]
           G == [p \in Pile(Rank(q), Assigned) |-> <<B[p[1]][p[2] + 1], p[1]>>]
<1>1. Waiting(queue) = Cardinality(Pairs)
  BY DEF Waiting
<1>2. IsFiniteSet(Pairs)
  <2>1. IsFiniteSet(Assigned \X Assigned)
    BY FiniteAssigned, FS_Product
  <2> QED BY <2>1, FS_Subset
<1>3. ASSUME NEW k \in Assigned
      PROVE  /\ B[k] \in [1..Rank(q)[k] -> Before(q, k)] /\ Rank(q)[k] \in Nat
             /\ \A x, y \in 1..Rank(q)[k] : B[k][x] = B[k][y] => x = y
  <2>1. Before(q, k) \subseteq Assigned /\ Rank(q)[k] = Cardinality(Before(q, k))
    BY DEF Before, Rank
  <2>2. IsFiniteSet(Before(q, k)) /\ Cardinality(Before(q, k)) \in Nat
    BY <2>1, FiniteAssigned
  <2>3. B[k] \in Bijection(1..Cardinality(Before(q, k)), Before(q, k))
    BY <2>2, FS_CardinalityType DEF ExistsBijection
  <2> HIDE DEF B
  <2> QED BY <2>1, <2>2, <2>3 DEF Bijection, Injection, IsInjective
<1> HIDE DEF B
<1>4. ASSUME NEW p \in Pile(Rank(q), Assigned)
      PROVE  /\ p = <<p[1], p[2]>> /\ p[1] \in Assigned /\ p[2] \in Nat
             /\ p[2] + 1 \in 1..Rank(q)[p[1]]
             /\ G[p] = <<B[p[1]][p[2] + 1], p[1]>> /\ G[p] \in Pairs
  <2>1. p = <<p[1], p[2]>> /\ p[1] \in Assigned /\ p[2] \in Nat /\ p[2] < Rank(q)[p[1]]
    BY DEF Pile
  <2>2. p[2] + 1 \in 1..Rank(q)[p[1]]
    BY <2>1, <1>3
  <2>3. B[p[1]][p[2] + 1] \in Before(q, p[1])
    BY <2>1, <2>2, <1>3
  <2>4. <<B[p[1]][p[2] + 1], p[1]>> \in Pairs
    BY <2>1, <2>3 DEF Before
  <2> QED BY <2>1, <2>2, <2>4
<1>5. ASSUME NEW p \in Pile(Rank(q), Assigned), NEW r \in Pile(Rank(q), Assigned), G[p] = G[r]
      PROVE  p = r
  <2>1. /\ p = <<p[1], p[2]>> /\ p[1] \in Assigned /\ p[2] \in Nat
        /\ p[2] + 1 \in 1..Rank(q)[p[1]] /\ G[p] = <<B[p[1]][p[2] + 1], p[1]>>
    BY <1>4
  <2>2. /\ r = <<r[1], r[2]>> /\ r[2] \in Nat
        /\ r[2] + 1 \in 1..Rank(q)[r[1]] /\ G[r] = <<B[r[1]][r[2] + 1], r[1]>>
    BY <1>4
  <2> HIDE DEF G
  <2>3. p[1] = r[1] /\ B[p[1]][p[2] + 1] = B[p[1]][r[2] + 1]
    BY <2>1, <2>2, <1>5
  <2>4. p[2] + 1 = r[2] + 1
    BY <2>1, <2>2, <2>3, <1>3
  <2>5. p[2] = r[2]
    BY <2>1, <2>2, <2>4
  <2> QED BY <2>1, <2>2, <2>3, <2>5
<1>6. G \in [Pile(Rank(q), Assigned) -> Pairs]
  BY <1>4
<1> HIDE DEF G, Pairs
<1>7. G \in Injection(Pile(Rank(q), Assigned), Pairs)
  BY <1>5, <1>6, Fun_IsInj
<1> QED BY <1>1, <1>2, <1>7, FS_Injection, FS_CardinalityType

\* No plan waits less.
LEMMA GreedyIsBest == GreedyInv => WaitsAreMinimal
<1> SUFFICES ASSUME GreedyInv, NEW q \in Plans
             PROVE  totalWaitingTime
                      <= Waiting([k \in Assigned |-> <<requests[k].transactionType, q[k]>>])
  BY DEF WaitsAreMinimal, Plans
<1>1. TypeOK /\ Turns /\ TotalCounts
  BY DEF GreedyInv, IInv
<1>2. /\ IsFiniteSet(Pile(Rank(q), Assigned))
      /\ Cardinality(Pile(Rank(q), Assigned))
           <= Waiting([k \in Assigned |-> <<requests[k].transactionType, q[k]>>])
      /\ Waiting([k \in Assigned |-> <<requests[k].transactionType, q[k]>>]) \in Nat
  BY <1>1, RanksArePairs
<1>3. Wait \in [Assigned -> Nat] /\ Rank(q) \in [Assigned -> Nat] /\ IsFiniteSet(Assigned)
  BY <1>1, AssignedShape, RanksDiffer, FiniteAssigned DEF Wait
<1>4. Cardinality(Pile(Wait, Assigned)) <= Cardinality(Pile(Rank(q), Assigned))
  BY <1>2, <1>3, LevelsAreMinimal, SmallerPile
<1>5. /\ totalWaitingTime = Cardinality(Pile(Wait, Assigned))
      /\ Cardinality(Pile(Wait, Assigned)) \in Nat
      /\ Cardinality(Pile(Rank(q), Assigned)) \in Nat
  BY <1>1, <1>2, FS_CardinalityType DEF TotalCounts
<1> HIDE DEF Plans
<1> QED BY <1>2, <1>4, <1>5

\* It holds at the start.
LEMMA InitGreedy == Init => GreedyInv
<1> SUFFICES ASSUME Init PROVE GreedyInv
  OBVIOUS
<1>1. IInv
  BY InitIInv
<1>2. Assigned = {} /\ totalWaitingTime = 0 /\ phase = "input"
  BY DEF Init, Assigned
<1>3. Pile(Wait, Assigned) = {}
  BY <1>2 DEF Pile
<1> QED BY <1>1, <1>2, <1>3, FS_EmptySet DEF GreedyInv, InOrder, ShortestQueue, TotalCounts

\* While no request is assigned, only the order can be lost.
LEMMA NothingAssigned ==
    ASSUME GreedyInv, IInv', phase = "input", served' = served, InOrder',
           totalWaitingTime' = totalWaitingTime
    PROVE  GreedyInv'
<1>1. served = <<>>
  BY DEF GreedyInv, IInv, Turns
<1>2. Assigned = {} /\ Assigned' = {}
  BY <1>1 DEF Assigned
<1>3. Pile(Wait, Assigned) = {} /\ Pile(Wait, Assigned)' = {}
  BY <1>2 DEF Pile
<1>4. ShortestQueue'
  BY <1>2 DEF ShortestQueue
<1>5. TotalCounts'
  BY <1>3 DEF GreedyInv, TotalCounts
<1> QED BY <1>4, <1>5 DEF GreedyInv

\* While the requests assigned stay the same, so do their waits.
LEMMA NothingNew ==
    ASSUME GreedyInv, IInv', Assigned' = Assigned, UNCHANGED <<phase, resources, requests>>,
           \A k \in Assigned : served'[k] = served[k], totalWaitingTime' = totalWaitingTime
    PROVE  GreedyInv'
<1>1. phase' = phase /\ resources' = resources /\ requests' = requests
  OBVIOUS
<1>2. \A s, j : Queue(s, j)' = Queue(s, j) /\ Queue(s, j) \subseteq Assigned
  BY <1>1 DEF Queue
<1>3. InOrder'
  BY <1>1 DEF GreedyInv, InOrder
<1>4. ShortestQueue'
  BY <1>1, <1>2 DEF GreedyInv, ShortestQueue
<1>5. Wait' = Wait
  BY DEF Wait
<1>6. Pile(Wait, Assigned)' = Pile(Wait, Assigned)
  BY <1>5 DEF Pile
<1>7. TotalCounts'
  BY <1>6 DEF GreedyInv, TotalCounts
<1> QED BY <1>3, <1>4, <1>7 DEF GreedyInv

\* The thread chosen is least loaded, and the loads are the waits to come.
LEMMA AssignGreedy ==
    ASSUME GreedyInv, Assign
    PROVE  GreedyInv'
<1> DEFINE N == Len(served) + 1
<1>1. IInv /\ IInv'
  BY AssignKeeps DEF GreedyInv
<1>2. PICK type \in Services, j \in WorkerThreads : Assigns(N, type, j)
  BY <1>1, AssignEffect
<1> HIDE DEF N
<1>3. /\ type = req.transactionType /\ service = type /\ threadChosen(j)
      /\ phase' = phase /\ resources' = resources /\ requests' = requests
      /\ totalWaitingTime' = totalWaitingTime + Load(j)
      /\ \A w \in WorkerThreads : Load(w) = numReqsTaken[type][w] /\ Load(w) \in Nat
  BY <1>2 DEF Assigns
<1>4. /\ Assigned' = Assigned \cup {N} /\ req = requests[N]
      /\ \A k \in Assigned : served'[k] = served[k] /\ k < N /\ k # N
      /\ served'[N].waitTime = Load(j)
  BY <1>2 DEF Assigns
<1>5. /\ \A s, w : Queue(s, w) \subseteq Assigned
      /\ \A s \in Services, w \in WorkerThreads : Queue(s, w) \subseteq Queue(s, w)'
  BY <1>2 DEF Assigns, Queue
<1>6. InOrder'
  BY <1>3 DEF GreedyInv, InOrder
<1>7. ASSUME NEW w \in WorkerThreads,
             resources[type][w] >= req.resourcesRequired,
             NEW h \in 0..(Load(j) - 1)
      PROVE  \E l \in Queue(type, w) : served[l].waitTime = h
  <2>1. w \in Capable
    BY <1>3, <1>7 DEF Capable
  <2>2. Load(j) <= Load(w)
    BY <2>1, <1>3 DEF threadChosen
  <2>3. Load(w) = Cardinality(Queue(type, w))
    BY <1>1, <1>3 DEF IInv, LoadsCount
  <2>4. h \in 0..(Cardinality(Queue(type, w)) - 1)
    BY <2>2, <2>3, <1>3
  <2>5. {served[l].waitTime : l \in Queue(type, w)} = 0..(Cardinality(Queue(type, w)) - 1)
    BY <1>1 DEF IInv, QueuesSound
  <2> QED BY <2>4, <2>5
<1>8. ShortestQueue'
  <2> SUFFICES ASSUME NEW k \in Assigned', NEW s \in Services, NEW w \in WorkerThreads,
                      requests'[k].transactionType = s,
                      resources'[s][w] >= requests'[k].resourcesRequired,
                      NEW h \in 0..(served'[k].waitTime - 1)
               PROVE  \E l \in Queue(s, w)' : l < k /\ served'[l].waitTime = h
    BY DEF ShortestQueue
  <2>1. requests[k].transactionType = s
    BY <1>3
  <2>2. CASE k = N
    <3>1. s = type /\ resources[type][w] >= req.resourcesRequired /\ h \in 0..(Load(j) - 1)
      BY <2>1, <2>2, <1>3, <1>4
    <3>2. PICK l \in Queue(type, w) : served[l].waitTime = h
      BY <3>1, <1>7
    <3>3. l \in Queue(type, w)' /\ l < N /\ served'[l].waitTime = h
      BY <3>2, <1>4, <1>5
    <3> QED BY <3>1, <3>3, <2>2
  <2>3. CASE k \in Assigned
    <3>2. resources[s][w] >= requests[k].resourcesRequired /\ h \in 0..(served[k].waitTime - 1)
      BY <2>1, <2>3, <1>3, <1>4
    <3>3. PICK l \in Queue(s, w) : l < k /\ served[l].waitTime = h
      BY <3>2, <2>1, <2>3 DEF GreedyInv, ShortestQueue
    <3>4. l \in Queue(s, w)' /\ served'[l].waitTime = h
      BY <3>3, <1>4, <1>5
    <3> QED BY <3>3, <3>4
  <2> QED BY <2>2, <2>3, <1>4
<1>9. TotalCounts'
  <2>1. PICK f, g : f = Wait /\ g = Wait'
    OBVIOUS
  <2>2. /\ \A k \in Assigned : g[k] = f[k]
        /\ g[N] = Load(j) /\ Load(j) \in Nat /\ N \notin Assigned
    BY <2>1, <1>3, <1>4 DEF Wait
  <2>3. IsFiniteSet(Pile(f, Assigned)) /\ totalWaitingTime = Cardinality(Pile(f, Assigned))
    BY <2>1 DEF GreedyInv, TotalCounts
  <2>4. PICK S, w : S = Assigned /\ w \in Nat /\ w = Load(j)
    BY <2>2
  <2>5. /\ IsFiniteSet(Pile(g, S \cup {N}))
        /\ Cardinality(Pile(g, S \cup {N})) = Cardinality(Pile(f, S)) + w
    BY <2>2, <2>3, <2>4, PileGrows
  <2>6. Pile(Wait, Assigned)' = Pile(g, S \cup {N})
    BY <2>1, <2>4, <1>4 DEF Pile
  <2> QED BY <2>3, <2>4, <2>5, <2>6, <1>3 DEF TotalCounts
<1> QED BY <1>1, <1>6, <1>8, <1>9 DEF GreedyInv

-----------------------------------------------------------------------------
(* The theorems                                                            *)

\* Every step keeps the invariant.
LEMMA NextKeeps == IInv /\ [Next]_vars => IInv'
<1> SUFFICES ASSUME IInv, [Next]_vars PROVE IInv'
  OBVIOUS
<1>1. CASE Next
  BY <1>1, ReadKeeps, SortKeeps, RejectKeeps, AssignKeeps DEF Next
<1>2. CASE UNCHANGED vars
  <2>1. /\ phase' = phase /\ resources' = resources /\ requests' = requests
        /\ numReqsTaken' = numReqsTaken /\ served' = served
        /\ totalWaitingTime' = totalWaitingTime /\ rejected' = rejected
        /\ waited' = waited /\ blocked' = blocked
    BY <1>2 DEF vars, statistics
  <2>2. Assigned' = Assigned
    BY <2>1 DEF Assigned
  <2>3. \A s, j : Queue(s, j)' = Queue(s, j)
    BY <2>1, <2>2 DEF Queue
  <2>4. Busy' = Busy /\ Late' = Late
    BY <2>1, <2>2, <2>3 DEF Busy, Late
  <2>5. QueuesSound'
    BY <2>1, <2>3, <2>4 DEF IInv, QueuesSound, Busy, Late
  <2>6. TypeOK' /\ Turns' /\ Placed' /\ LoadsCount'
    BY <2>1, <2>2, <2>3 DEF IInv, TypeOK, Turns, Placed, LoadsCount
  <2> QED BY <2>5, <2>6 DEF IInv
<1> QED BY <1>1, <1>2

\* Every step keeps what the optimality rests on.
LEMMA NextGreedy == GreedyInv /\ [Next]_vars => GreedyInv'
<1> SUFFICES ASSUME GreedyInv, [Next]_vars PROVE GreedyInv'
  OBVIOUS
<1>1. IInv /\ IInv'
  BY NextKeeps DEF GreedyInv
<1>2. CASE ReadRequest
  <2>1. phase = "input" /\ phase' = phase /\ served' = served
        /\ totalWaitingTime' = totalWaitingTime
    BY <1>2 DEF ReadRequest, statistics
  <2>2. InOrder'
    BY <2>1 DEF InOrder
  <2> QED BY <2>1, <2>2, <1>1, NothingAssigned
<1>3. CASE SortRequests
  <2>1. phase = "input" /\ served' = served /\ totalWaitingTime' = totalWaitingTime
    BY <1>3 DEF SortRequests, statistics
  <2>2. Sorted(requests')
    BY <1>3 DEF SortRequests
  <2>3. InOrder'
    BY <2>2 DEF InOrder, Sorted
  <2> QED BY <2>1, <2>3, <1>1, NothingAssigned
<1>4. CASE RejectType \/ RejectResources
  <2>1. /\ More /\ served' = Append(served, Outcome(INT_MAX, -1))
        /\ phase' = phase /\ requests' = requests /\ resources' = resources
        /\ totalWaitingTime' = totalWaitingTime
    BY <1>4 DEF RejectType, RejectResources, statistics
  <2>2. Assigned' = Assigned /\ \A k \in Assigned : served'[k] = served[k]
    BY <2>1, <1>1, ServedGrows
  <2> QED BY <2>1, <2>2, <1>1, NothingNew
<1>5. CASE Assign
  BY <1>5, AssignGreedy
<1>6. CASE UNCHANGED vars
  <2>1. /\ phase' = phase /\ requests' = requests /\ resources' = resources
        /\ served' = served /\ totalWaitingTime' = totalWaitingTime
    BY <1>6 DEF vars, statistics
  <2>2. Assigned' = Assigned
    BY <2>1 DEF Assigned
  <2> QED BY <2>1, <2>2, <1>1, NothingNew
<1> QED BY <1>2, <1>3, <1>4, <1>5, <1>6 DEF Next

\* The inductive invariant.
THEOREM Invariance == Spec => []IInv
BY InitIInv, NextKeeps, PTL DEF Spec

\* Every variable of ass5_32.cpp keeps to its type; a request of an unknown
\* type never gets to the vectors of threads.
THEOREM TypesHold == Spec => []TypeOK
<1>1. IInv => TypeOK
  BY DEF IInv
<1> QED BY <1>1, Invariance, PTL

\* QueuesSound (lines 107-151): each thread serves its requests one after the
\* other, and has the resources for each; the requests counted as waiting and
\* as blocked are those that wait, and those that found all threads busy.
THEOREM QueuesAreSound == Spec => []QueuesSound
<1>1. IInv => QueuesSound
  BY DEF IInv
<1> QED BY <1>1, Invariance, PTL

\* WaitsAreMinimal (lines 101-143): whatever other threads with enough
\* resources the requests dealt with so far were assigned to, they would not
\* wait less altogether.  Sorting by need and the shortest queue are optimal.
THEOREM GreedyIsOptimal == Spec => []WaitsAreMinimal
BY InitGreedy, NextGreedy, GreedyIsBest, PTL DEF Spec
=============================================================================
