------------------------- MODULE EventBookingProofs -------------------------
(***************************************************************************)
(* Proofs about the booking server, for any number of workers, events and  *)
(* table entries: who owns an entry of the table, when two queries overlap *)
(* on an event, and what the seats of an event without such an overlap add *)
(* up to.                                                                  *)
(***************************************************************************)
EXTENDS EventBooking, Sums, FiniteSetTheorems, TLAPS

\* The gate counts the threads between their passing it and EndQuery.
GateCounts == numActiveQueries = Cardinality(InQuery)

\* A thread past its check has chosen a query and an event, and only one that
\* writes gets to the seats.
QueryShape ==
    \A t \in Threads :
      /\ pc[t] \in {"fill", "seats", "load", "store", "free"} =>
           query[t].type \in QueryTypes /\ query[t].event \in Events
      /\ pc[t] = "seats" => query[t].type = "BOOK"
      /\ pc[t] \in {"load", "store"} => query[t].type \in {"BOOK", "CANCEL"}

\* As long as the table was never full, a thread past its second critical
\* section was assigned an entry.
Slotted == ~overfull => \A t \in Holding : query[t].entry \in Slots

\* On an event without an overlap, the value a thread has loaded is still the
\* number of seats, and the demand it has compared with them still fits.
Fresh ==
    \A t \in Writing : ~overfull /\ query[t].event \notin stale =>
      /\ pc[t] = "store" => query[t].old = events[query[t].event]
      /\ query[t].type = "BOOK" => query[t].k <= events[query[t].event]

Typed == TypeOK /\ GateCounts /\ QueryShape
Tabled == Slotted /\ EntriesAreOwned /\ ExclusiveUnlessStale
IInv == Typed /\ Tabled /\ Fresh /\ SeatsConserved

-----------------------------------------------------------------------------
(* The shape of the steps                                                  *)

\* Where a query has an entry to find, or has found one.
Inside == {"fill", "seats", "load", "store", "free"}

\* A step that stays clear of the table: it moves threads between locations
\* outside of the critical part of a query.
Quiet ==
    /\ UNCHANGED <<activeQueries, events, query, booked, history>>
    /\ \A t \in Threads : \/ pc'[t] = pc[t]
                          \/ pc[t] \notin Inside /\ pc'[t] \notin Inside

\* What a quiet step leaves of the types.
QuietTypes == /\ mdone' \in BOOLEAN
              /\ master' \in {"sleeping", "barrier", "joined"}
              /\ pc' \in [Threads -> {"idle", "gate", "querycond", "woken", "query",
                                      "fill", "seats", "load", "store", "free",
                                      "end", "spin", "barrier", "exited"}]

\* What the loop, the gate, the barrier and the empty cancellation do.
LEMMA QuietSteps ==
    ASSUME TypeOK,
           \/ \E t \in Threads :
                \/ CheckDone(t) \/ PassGate(t) \/ BlockAtGate(t) \/ ResumeAtGate(t)
                \/ CancelNothing(t) \/ CancelSpin(t) \/ EndQuery(t)
                \/ SpuriousWake(t)
           \/ SetDone \/ BarrierTrips
    PROVE  Quiet /\ QuietTypes
<1>1. ASSUME NEW t \in Threads,
             CheckDone(t) \/ PassGate(t) \/ BlockAtGate(t) \/ ResumeAtGate(t)
      PROVE  Quiet /\ QuietTypes
  BY <1>1 DEF CheckDone, PassGate, BlockAtGate, ResumeAtGate, Goto, gate, booked,
              history, Quiet, Inside, TypeOK, QuietTypes
<1>2. ASSUME NEW t \in Threads,
             CancelNothing(t) \/ CancelSpin(t) \/ SpuriousWake(t)
      PROVE  Quiet /\ QuietTypes
  BY <1>2 DEF CancelNothing, CancelSpin, SpuriousWake, Goto, gate, booked,
              history, Quiet, Inside, TypeOK, QuietTypes
<1>3. ASSUME NEW t \in Threads, EndQuery(t)
      PROVE  Quiet /\ QuietTypes
  <2>1. PICK u \in Threads :
          \/ pc' = [pc EXCEPT ![t] = "idle"]
          \/ /\ pc[u] = "querycond"
             /\ pc' = [[pc EXCEPT ![t] = "idle"] EXCEPT ![u] = "woken"]
    BY <1>3 DEF EndQuery
  <2> QED BY <1>3, <2>1 DEF EndQuery, booked, history, Quiet, Inside, TypeOK, QuietTypes
<1>4. CASE SetDone \/ BarrierTrips
  BY <1>4 DEF SetDone, BarrierTrips, BarrierFull, booked, history, Quiet, Inside,
              TypeOK, QuietTypes
<1> QED BY <1>1, <1>2, <1>3, <1>4

\* The first critical section of any query.
ChecksEvent(t) ==
    \E ty \in QueryTypes, ev \in Events : pc[t] = "query" /\ Check(t, ty, ev)

\* Every step is quiet or one of the steps of a query that touch the table or
\* the seats.
LEMMA Steps ==
    ASSUME TypeOK, Next
    PROVE  \/ Quiet /\ QuietTypes
           \/ \E t \in Threads :
                \/ ChecksEvent(t) \/ FillEntry(t) \/ CheckSeats(t)
                \/ LoadSeats(t) \/ StoreSeats(t) \/ FreeEntry(t)
<1>1. ASSUME NEW t \in Threads, NEW ev \in Events,
             Inquiry(t, ev) \/ Booking(t, ev) \/ Cancellation(t, ev)
      PROVE  ChecksEvent(t)
  BY <1>1 DEF Inquiry, Booking, Cancellation, ChecksEvent, QueryTypes
<1> QED BY <1>1, QuietSteps DEF Next, Worker, QueryStep

\* Only these threads hold an entry; a quiet step changes none of the sets.
LEMMA QuietHolding ==
    ASSUME Quiet
    PROVE  /\ Holding' = Holding /\ Writing' = Writing
           /\ \A t \in Threads : pc'[t] \in Inside => pc'[t] = pc[t]
BY DEF Quiet, Inside, Holding, Writing

\* The second critical section picks an entry that is free.
LEMMA FirstIsFree ==
    ASSUME {i \in Slots : activeQueries[i] = Free} # {}
    PROVE  LET empty == {i \in Slots : activeQueries[i] = Free}
               first == CHOOSE i \in empty : \A j \in empty : i <= j
           IN  first \in Slots /\ activeQueries[first] = Free
<1> DEFINE empty == {i \in Slots : activeQueries[i] = Free}
<1>1. empty \subseteq Nat
  BY ConstAssumption DEF Slots
<1>2. \E i \in empty : \A j \in empty : i <= j
  <2> HIDE DEF empty
  <2>1. empty # {}
    BY DEF empty
  <2> QED BY <1>1, <2>1, LeastNat
<1> QED BY <1>2

\* What is read of the entries of the table.
LEMMA EntryShape ==
    ASSUME TypeOK, NEW i \in Slots
    PROVE  /\ activeQueries[i] # Free =>
                activeQueries[i] \in [event : Events, type : QueryTypes,
                                      thread : Threads]
           /\ Free \notin [event : Events, type : QueryTypes, thread : Threads]
           /\ Free.event \notin Events
BY EventAssumption DEF TypeOK, Free

-----------------------------------------------------------------------------
(* The types and the gate                                                  *)

\* The invariant holds at the start.
LEMMA InitIInv == Init => IInv
<1> SUFFICES ASSUME Init PROVE IInv
  OBVIOUS
<1>1. InQuery = {} /\ Holding = {} /\ Writing = {}
  BY DEF Init, InQuery, Holding, Writing
<1>2. Cardinality(Threads) \in Nat /\ Cardinality({}) = 0
  BY ConstAssumption, FS_CardinalityType, FS_EmptySet
<1>3. Typed
  <2>1. TypeOK
    <3>1. NoQuery \in [type : QueryTypes \cup {"none"}, event : Events \cup {-1},
                       k : Nat, entry : Slots \cup {NoSlot}, old : Int]
      BY DEF NoQuery
    <3>2. Capacity \in Int
      BY ConstAssumption
    <3>3. /\ query \in [Threads -> [type : QueryTypes \cup {"none"},
                                   event : Events \cup {-1}, k : Nat,
                                   entry : Slots \cup {NoSlot}, old : Int]]
          /\ activeQueries \in [Slots -> {Free} \cup
                [event : Events, type : QueryTypes, thread : Threads]]
      BY <3>1 DEF Init
    <3>4. /\ pc \in [Threads -> {"idle", "gate", "querycond", "woken", "query",
                             "fill", "seats", "load", "store", "free", "end",
                             "spin", "barrier", "exited"}]
          /\ numActiveQueries \in 0..Cardinality(Threads)
          /\ isBooked \in [Threads -> [Events -> Int]]
          /\ eventsBooked \in [Threads -> SUBSET Events]
          /\ events \in [Events -> Int]
      BY <1>2, <3>2 DEF Init
    <3> QED BY <3>3, <3>4 DEF Init, TypeOK
  <2> QED BY <1>1, <1>2, <2>1 DEF Init, Typed, GateCounts, QueryShape
<1>4. Tabled
  BY <1>1 DEF Init, Tabled, Slotted, EntriesAreOwned, ExclusiveUnlessStale
<1>5. Fresh
  BY <1>1 DEF Fresh
<1>6. SeatsConserved
  <2>1. ASSUME NEW ev \in Events
        PROVE  BookedSeats(ev) = 0
    <3>1. \A t \in Threads : [u \in Threads |-> isBooked[u][ev]][t] = 0
      BY DEF Init
    <3> QED BY <3>1, ConstAssumption, SumZero DEF BookedSeats
  <2> QED BY <2>1, ConstAssumption DEF Init, SeatsConserved
<1> QED BY <1>3, <1>4, <1>5, <1>6 DEF IInv

\* The set of the threads under way stays in step with the number.
LEMMA GateKept ==
    ASSUME TypeOK, GateCounts, QueryShape, Next
    PROVE  GateCounts' /\ numActiveQueries' \in 0..Cardinality(Threads)
<1>1. /\ IsFiniteSet(InQuery) /\ Cardinality(InQuery) \in Nat
      /\ IsFiniteSet(InQuery') /\ Cardinality(InQuery') \in Nat
      /\ Cardinality(Threads) \in Nat
      /\ Cardinality(InQuery') <= Cardinality(Threads)
  BY ConstAssumption, FS_Subset, FS_CardinalityType DEF InQuery
<1>2. ASSUME NEW t \in Threads, PassGate(t) \/ ResumeAtGate(t)
      PROVE  Cardinality(InQuery') = numActiveQueries'
  <2>1. InQuery' = InQuery \cup {t} /\ t \notin InQuery
    BY <1>2 DEF PassGate, ResumeAtGate, Goto, InQuery, TypeOK
  <2> QED BY <1>1, <1>2, <2>1, FS_AddElement
          DEF PassGate, ResumeAtGate, GateCounts
<1>3. ASSUME NEW t \in Threads, EndQuery(t)
      PROVE  Cardinality(InQuery') = numActiveQueries'
  <2>1. PICK u \in Threads :
          \/ pc' = [pc EXCEPT ![t] = "idle"]
          \/ /\ pc[u] = "querycond"
             /\ pc' = [[pc EXCEPT ![t] = "idle"] EXCEPT ![u] = "woken"]
    BY <1>3 DEF EndQuery
  <2>2. InQuery' = InQuery \ {t} /\ t \in InQuery
    BY <1>3, <2>1 DEF EndQuery, InQuery, TypeOK
  <2> QED BY <1>1, <1>3, <2>2, FS_RemoveElement DEF EndQuery, GateCounts
<1>4. ASSUME InQuery' = InQuery, numActiveQueries' = numActiveQueries
      PROVE  Cardinality(InQuery') = numActiveQueries'
  BY <1>4 DEF GateCounts
<1>5. ASSUME NEW t \in Threads,
             CheckDone(t) \/ BlockAtGate(t) \/ SpuriousWake(t)
      PROVE  Cardinality(InQuery') = numActiveQueries'
  <2>1. InQuery' = InQuery /\ numActiveQueries' = numActiveQueries
    BY <1>5 DEF CheckDone, BlockAtGate, SpuriousWake, Goto, gate, InQuery, TypeOK
  <2> QED BY <1>4, <2>1
<1>6. ASSUME NEW t \in Threads, QueryStep(t)
      PROVE  Cardinality(InQuery') = numActiveQueries'
  <2>1. ASSUME NEW ty \in QueryTypes, NEW ev \in Events, pc[t] = "query",
               Check(t, ty, ev)
        PROVE  InQuery' = InQuery /\ numActiveQueries' = numActiveQueries
    BY <2>1 DEF Check, Return, Goto, gate, InQuery, TypeOK
  <2>2. ASSUME CancelNothing(t) \/ CancelSpin(t) \/ CheckSeats(t) \/ LoadSeats(t)
               \/ StoreSeats(t) \/ FreeEntry(t)
        PROVE  InQuery' = InQuery /\ numActiveQueries' = numActiveQueries
    BY <2>2 DEF CancelNothing, CancelSpin, CheckSeats, LoadSeats, StoreSeats,
                FreeEntry, Return, Goto, gate, InQuery, TypeOK
  <2>3. ASSUME FillEntry(t)
        PROVE  InQuery' = InQuery /\ numActiveQueries' = numActiveQueries
    <3>1. pc[t] = "fill" /\ pc' = [pc EXCEPT ![t] = Work(query[t].type)]
          /\ numActiveQueries' = numActiveQueries
      BY <2>3 DEF FillEntry, Goto, gate
    <3>2. query[t].type \in QueryTypes => Work(query[t].type) \in Inside
      BY DEF Work, QueryTypes, Inside
    <3>3. query[t].type \in QueryTypes
      BY <1>6, <3>1 DEF QueryShape
    <3> QED BY <3>1, <3>2, <3>3 DEF InQuery, TypeOK, Inside
  <2> QED BY <1>4, <1>6, <2>1, <2>2, <2>3
          DEF QueryStep, Inquiry, Booking, Cancellation, QueryTypes
<1>7. ASSUME SetDone \/ BarrierTrips
      PROVE  Cardinality(InQuery') = numActiveQueries'
  <2>1. InQuery' = InQuery /\ numActiveQueries' = numActiveQueries
    BY <1>7 DEF SetDone, BarrierTrips, BarrierFull, InQuery, TypeOK
  <2> QED BY <1>4, <2>1
<1> QED BY <1>1, <1>2, <1>3, <1>5, <1>6, <1>7 DEF Next, Worker, GateCounts

\* The records of the queries.
QueryRecs == [type : QueryTypes \cup {"none"}, event : Events \cup {-1}, k : Nat,
              entry : Slots \cup {NoSlot}, old : Int]

\* The six steps inside of a query keep the types.
LEMMA CheckTypes ==
    ASSUME TypeOK, QueryShape, NEW t \in Threads, ChecksEvent(t),
           numActiveQueries' \in 0..Cardinality(Threads)
    PROVE  TypeOK' /\ QueryShape'
<1>1. PICK ty \in QueryTypes, ev \in Events : pc[t] = "query" /\ Check(t, ty, ev)
  BY DEF ChecksEvent
<1>2. /\ NoQuery \in QueryRecs
      /\ [NoQuery EXCEPT !.type = ty, !.event = ev] \in QueryRecs
      /\ [NoQuery EXCEPT !.type = ty, !.event = ev].type = ty
      /\ [NoQuery EXCEPT !.type = ty, !.event = ev].event = ev
  <2>1. NoQuery \in QueryRecs
    BY DEF NoQuery, QueryRecs
  <2>2. \A q \in QueryRecs : /\ [q EXCEPT !.type = ty, !.event = ev] \in QueryRecs
                             /\ [q EXCEPT !.type = ty, !.event = ev].type = ty
                             /\ [q EXCEPT !.type = ty, !.event = ev].event = ev
    BY DEF QueryRecs
  <2> QED BY <2>1, <2>2
<1>3. \E q \in QueryRecs :
        /\ query' = [query EXCEPT ![t] = q]
        /\ \/ pc' = [pc EXCEPT ![t] = "end"]
           \/ pc' = [pc EXCEPT ![t] = "fill"] /\ q.type = ty /\ q.event = ev
  <2>1. CASE Conflict(ty, ev)
    BY <1>1, <1>2, <2>1 DEF Check, Return, Goto
  <2>2. CASE ~ Conflict(ty, ev)
    BY <1>1, <1>2, <2>2 DEF Check, Return, Goto
  <2> QED BY <2>1, <2>2
<1>4. TypeOK'
  <2>1. query' \in [Threads -> QueryRecs]
    BY <1>3 DEF TypeOK, QueryRecs
  <2> QED BY SMTT(60), <1>1, <1>3, <2>1
          DEF TypeOK, QueryRecs, Check, gate, booked, history
<1>5. QueryShape'
  BY <1>3 DEF QueryShape, TypeOK
<1> QED BY <1>4, <1>5

\* Filling an entry keeps the types.
LEMMA FillTypes ==
    ASSUME TypeOK, QueryShape, NEW t \in Threads, FillEntry(t),
           numActiveQueries' \in 0..Cardinality(Threads)
    PROVE  TypeOK' /\ QueryShape'
<1> DEFINE ty == query[t].type
           ev == query[t].event
           empty == {i \in Slots : activeQueries[i] = Free}
           first == CHOOSE i \in empty : \A j \in empty : i <= j
<1>1. ty \in QueryTypes /\ ev \in Events /\ pc[t] = "fill"
  BY DEF FillEntry, QueryShape
<1>2. /\ ty = "INQUIRE" => Work(ty) = "free"
      /\ ty = "BOOK" => Work(ty) = "seats"
      /\ ty = "CANCEL" => Work(ty) = "load"
  BY DEF Work
<1>3. pc' = [pc EXCEPT ![t] = Work(ty)] /\ UNCHANGED <<gate, events, booked>>
  BY DEF FillEntry, Goto
<1>4. stale' \subseteq Events
  BY <1>1 DEF FillEntry, TypeOK
<1>5. /\ activeQueries' \in [Slots -> {Free} \cup
            [event : Events, type : QueryTypes, thread : Threads]]
      /\ query' \in [Threads -> QueryRecs] /\ overfull' \in BOOLEAN
      /\ \A u \in Threads : /\ query'[u].type = query[u].type
                            /\ query'[u].event = query[u].event
  <2>1. CASE empty # {}
    <3>1. first \in Slots
      BY <2>1, FirstIsFree
    <3>2. /\ activeQueries' = [activeQueries EXCEPT ![first] =
                                 [event |-> ev, type |-> ty, thread |-> t]]
          /\ query' = [query EXCEPT ![t].entry = first]
          /\ overfull' = overfull
      BY <2>1 DEF FillEntry
    <3> HIDE DEF first, empty
    <3> QED BY SMTT(60), <1>1, <3>1, <3>2 DEF TypeOK, QueryRecs
  <2>2. CASE empty = {}
    <3>1. activeQueries' = activeQueries /\ query' = query /\ overfull' = TRUE
      BY <2>2 DEF FillEntry
    <3> QED BY <3>1 DEF TypeOK, QueryRecs
  <2> QED BY <2>1, <2>2
<1> HIDE DEF ty, ev, empty, first
<1>6. Work(ty) \in {"free", "seats", "load"}
  BY <1>1, <1>2 DEF QueryTypes
<1>7. pc' \in [Threads -> {"idle", "gate", "querycond", "woken", "query",
                           "fill", "seats", "load", "store", "free", "end",
                           "spin", "barrier", "exited"}]
  BY <1>3, <1>6 DEF TypeOK
<1>8. TypeOK'
  BY <1>3, <1>4, <1>5, <1>7 DEF TypeOK, QueryRecs, gate, booked
<1>9. QueryShape'
  <2>1. SUFFICES ASSUME NEW u \in Threads
                 PROVE  QueryShape!(u)'
    BY DEF QueryShape
  <2>2. CASE u = t
    BY <1>1, <1>2, <1>3, <1>5, <2>2 DEF QueryTypes, TypeOK, ty, ev
  <2>3. CASE u # t
    BY <1>3, <1>5, <2>3 DEF QueryShape, TypeOK
  <2> QED BY <2>2, <2>3
<1> QED BY <1>8, <1>9

\* So do looking at the seats, loading, storing and freeing the entry.
LEMMA SeatTypes ==
    ASSUME TypeOK, QueryShape, NEW t \in Threads,
           CheckSeats(t) \/ LoadSeats(t) \/ StoreSeats(t) \/ FreeEntry(t),
           numActiveQueries' \in 0..Cardinality(Threads)
    PROVE  TypeOK' /\ QueryShape'
<1>1. NoQuery \in QueryRecs
  BY DEF NoQuery, QueryRecs
<1>2. ASSUME CheckSeats(t) PROVE TypeOK' /\ QueryShape'
  <2>1. PICK k \in Tickets :
          \/ pc' = [pc EXCEPT ![t] = "end"] /\ query' = [query EXCEPT ![t] = NoQuery]
          \/ pc' = [pc EXCEPT ![t] = "load"] /\ query' = [query EXCEPT ![t].k = k]
    BY <1>2 DEF CheckSeats, Return, Goto
  <2>2. k \in Nat /\ pc[t] = "seats"
    BY <1>2, ConstAssumption DEF CheckSeats
  <2>3. query' \in [Threads -> QueryRecs]
    <3>1. query[t] \in QueryRecs /\ 0 \in Int
      BY DEF TypeOK, QueryRecs
    <3>2. [query[t] EXCEPT !.k = k] \in QueryRecs
      BY <2>2, <3>1 DEF QueryRecs
    <3>3. query \in [Threads -> QueryRecs]
      BY DEF TypeOK, QueryRecs
    <3> QED BY <1>1, <2>1, <3>2, <3>3
  <2>4. TypeOK'
    BY <1>2, <2>1, <2>3 DEF TypeOK, QueryRecs, CheckSeats, gate, booked, history
  <2>5. QueryShape'
    <3>1. query \in [Threads -> QueryRecs]
      BY DEF TypeOK, QueryRecs
    <3>2. \A u \in Threads : u # t => pc'[u] = pc[u] /\ query'[u] = query[u]
      BY <2>1 DEF TypeOK
    <3>3. \/ pc'[t] = "end"
          \/ /\ pc'[t] = "load" /\ query'[t].type = query[t].type
             /\ query'[t].event = query[t].event
      BY <2>1, <3>1 DEF TypeOK, QueryRecs
    <3> QED BY <2>2, <3>2, <3>3 DEF QueryShape
  <2> QED BY <2>4, <2>5
<1>3. ASSUME LoadSeats(t) PROVE TypeOK' /\ QueryShape'
  <2>1. events[query[t].event] \in Int
    BY <1>3 DEF LoadSeats, QueryShape, TypeOK
  <2>2. query' \in [Threads -> QueryRecs]
    <3> DEFINE n == events[query[t].event]
    <3>1. query \in [Threads -> QueryRecs]
      BY DEF TypeOK, QueryRecs
    <3>2. [query[t] EXCEPT !.old = n] \in QueryRecs
      <4> HIDE DEF n
      <4> QED BY <2>1, <3>1 DEF QueryRecs, n
    <3>3. query' = [query EXCEPT ![t] = [query[t] EXCEPT !.old = n]]
      BY <1>3, <3>1 DEF LoadSeats
    <3> HIDE DEF n
    <3> QED BY <3>1, <3>2, <3>3
  <2>3. TypeOK'
    BY <1>3, <2>2 DEF LoadSeats, Goto, TypeOK, QueryRecs, gate, booked, history
  <2>4. QueryShape'
    BY <1>3 DEF LoadSeats, Goto, QueryShape, TypeOK
  <2> QED BY <2>3, <2>4
<1>4. ASSUME StoreSeats(t) PROVE TypeOK' /\ QueryShape'
  <2>1. /\ query[t].old \in Int /\ Delta(query[t]) \in Int
        /\ query[t].event \in Events /\ pc[t] = "store"
    BY <1>4 DEF StoreSeats, QueryShape, TypeOK, Delta
  <2>2. query' \in [Threads -> QueryRecs]
    <3>1. query \in [Threads -> QueryRecs]
      BY DEF TypeOK, QueryRecs
    <3>2. \A q \in QueryRecs, k \in Nat, n \in Int :
            [q EXCEPT !.k = k, !.old = n] \in QueryRecs
      BY DEF QueryRecs
    <3> DEFINE q0 == [query[t] EXCEPT !.k = 0, !.old = 0]
    <3>3. q0 \in QueryRecs
      <4>1. query[t] \in QueryRecs /\ 0 \in Nat /\ 0 \in Int
        BY <3>1
      <4> QED BY <3>2, <4>1, Zenon
    <3>4. query' = [query EXCEPT ![t] = q0]
      BY <1>4, <3>1 DEF StoreSeats
    <3> HIDE DEF q0
    <3> QED BY <3>1, <3>3, <3>4
  <2>3. events' \in [Events -> Int]
    BY <1>4, <2>1 DEF StoreSeats, TypeOK
  <2>4. isBooked' \in [Threads -> [Events -> Int]]
    BY <1>4, <2>1 DEF StoreSeats, TypeOK
  <2>5. eventsBooked' \in [Threads -> SUBSET Events]
    BY <1>4, <2>1 DEF StoreSeats, TypeOK
  <2>6. TypeOK'
    BY <1>4, <2>2, <2>3, <2>4, <2>5
       DEF StoreSeats, Goto, TypeOK, QueryRecs, gate, history
  <2>7. QueryShape'
    BY <1>4 DEF StoreSeats, Goto, QueryShape, TypeOK
  <2> QED BY <2>6, <2>7
<1>5. ASSUME FreeEntry(t) PROVE TypeOK' /\ QueryShape'
  <2>1. query' = [query EXCEPT ![t] = NoQuery] /\ pc' = [pc EXCEPT ![t] = "end"]
    BY <1>5 DEF FreeEntry, Return, Goto
  <2>2. \/ activeQueries' = activeQueries
        \/ \E i \in Slots : activeQueries' = [activeQueries EXCEPT ![i] = Free]
    BY <1>5 DEF FreeEntry, TypeOK
  <2>3. query' \in [Threads -> QueryRecs]
    BY <1>1, <2>1 DEF TypeOK, QueryRecs
  <2>4. TypeOK'
    BY <1>5, <2>1, <2>2, <2>3 DEF FreeEntry, TypeOK, QueryRecs, gate, booked, history
  <2>5. QueryShape'
    BY <2>1 DEF QueryShape, TypeOK
  <2> QED BY <2>4, <2>5
<1> QED BY <1>2, <1>3, <1>4, <1>5

\* Every step keeps the types, the count at the gate and the shape of queries.
LEMMA TypedKept ==
    ASSUME Typed, Next
    PROVE  Typed'
<1>1. TypeOK /\ GateCounts /\ QueryShape
  BY DEF Typed
<1>2. GateCounts' /\ numActiveQueries' \in 0..Cardinality(Threads)
  BY <1>1, GateKept
<1>3. CASE Quiet /\ QuietTypes
  <2>1. TypeOK'
    BY <1>1, <1>2, <1>3 DEF Quiet, QuietTypes, TypeOK, booked, history
  <2>2. QueryShape'
    BY <1>1, <1>3 DEF Quiet, QueryShape, Inside
  <2> QED BY <1>2, <2>1, <2>2 DEF Typed
<1>4. ASSUME NEW t \in Threads,
             \/ ChecksEvent(t) \/ FillEntry(t) \/ CheckSeats(t)
             \/ LoadSeats(t) \/ StoreSeats(t) \/ FreeEntry(t)
      PROVE  Typed'
  BY <1>1, <1>2, <1>4, CheckTypes, FillTypes, SeatTypes DEF Typed
<1> QED BY <1>1, <1>3, <1>4, Steps

-----------------------------------------------------------------------------
(* The table                                                               *)

\* The fields by which an entry is recognised.
Key(q) == <<q.type, q.event, q.entry>>

\* A step that leaves the table alone, and lets only bookings forget their
\* entry, keeps what is known of the table.
LEMMA SameTable ==
    ASSUME Typed, Tabled, UNCHANGED <<activeQueries, history>>,
           Holding' \subseteq Holding,
           \A u \in Holding' : Key(query'[u]) = Key(query[u]),
           \A u \in Holding : u \notin Holding' => query[u].type = "BOOK"
    PROVE  Tabled'
<1>1. \A u \in Holding' : /\ query'[u].type = query[u].type
                          /\ query'[u].event = query[u].event
                          /\ query'[u].entry = query[u].entry
  BY DEF Key
<1>2. Slotted' /\ ExclusiveUnlessStale'
  BY <1>1 DEF Tabled, Slotted, ExclusiveUnlessStale, history
<1>3. EntriesAreOwned'
  <2>1. SUFFICES ASSUME ~overfull PROVE EntriesAreOwned'
    BY DEF EntriesAreOwned, history
  <2>2. \A u \in Holding' :
          activeQueries'[query'[u].entry] =
            [event |-> query'[u].event, type |-> query'[u].type, thread |-> u]
    BY <1>1, <2>1 DEF Tabled, EntriesAreOwned
  <2>3. ASSUME NEW i \in Slots, activeQueries'[i] # Free,
               activeQueries'[i].type # "BOOK"
        PROVE  /\ activeQueries'[i].thread \in Holding'
               /\ query'[activeQueries'[i].thread].entry = i
    <3> DEFINE u == activeQueries[i].thread
    <3>1. u \in Holding /\ query[u].entry = i
      BY <2>1, <2>3 DEF Tabled, EntriesAreOwned
    <3>2. activeQueries[i].type = query[u].type
      <4>1. activeQueries[i] = [event |-> query[u].event, type |-> query[u].type,
                                thread |-> u]
        BY <2>1, <3>1 DEF Tabled, EntriesAreOwned
      <4> HIDE DEF u
      <4> QED BY <4>1
    <3>3. u \in Holding'
      BY <2>3, <3>1, <3>2
    <3> QED BY <1>1, <3>1, <3>3
  <2> QED BY <2>2, <2>3 DEF EntriesAreOwned
<1> QED BY <1>2, <1>3 DEF Tabled

\* A conflicting entry is found whenever another thread holds one for the
\* event and one of the two queries writes.
LEMMA HolderConflicts ==
    ASSUME Tabled, ~overfull, NEW u \in Holding, NEW ty,
           ty # "INQUIRE" \/ query[u].type # "INQUIRE"
    PROVE  Conflict(ty, query[u].event)
<1>1. query[u].entry \in Slots
  BY DEF Tabled, Slotted
<1>2. activeQueries[query[u].entry] =
        [event |-> query[u].event, type |-> query[u].type, thread |-> u]
  BY DEF Tabled, EntriesAreOwned
<1>3. /\ activeQueries[query[u].entry].event = query[u].event
      /\ activeQueries[query[u].entry].type = query[u].type
  BY <1>2
<1> QED BY <1>1, <1>3 DEF Conflict

\* Filling the first free entry takes it from nobody, and makes no overlap that
\* the check before it has not seen or that is not recorded as stale.
LEMMA FillTable ==
    ASSUME Typed, Tabled, NEW t \in Threads, FillEntry(t)
    PROVE  Tabled'
<1> DEFINE ty == query[t].type
           ev == query[t].event
           empty == {i \in Slots : activeQueries[i] = Free}
           first == CHOOSE i \in empty : \A j \in empty : i <= j
<1>1. /\ pc[t] = "fill" /\ ty \in QueryTypes
      /\ pc' = [pc EXCEPT ![t] = Work(ty)]
  BY DEF Typed, QueryShape, FillEntry, Goto
<1>2. Work(ty) \in {"seats", "load", "free"}
  BY <1>1 DEF Work, QueryTypes
<1>3. Holding' = Holding \cup {t} /\ t \notin Holding
  BY <1>1, <1>2 DEF Holding, Typed, TypeOK
<1>4. stale' = IF Conflict(ty, ev) THEN stale \cup {ev} ELSE stale
  BY DEF FillEntry
<1>5. CASE empty = {}
  <2>1. overfull' = TRUE
    BY <1>5 DEF FillEntry
  <2> QED BY <2>1 DEF Tabled, Slotted, EntriesAreOwned, ExclusiveUnlessStale
<1>6. CASE empty # {}
  <2>1. first \in Slots /\ activeQueries[first] = Free
    BY <1>6, FirstIsFree
  <2>2. /\ activeQueries' = [activeQueries EXCEPT ![first] =
                               [event |-> ev, type |-> ty, thread |-> t]]
        /\ query' = [query EXCEPT ![t].entry = first]
        /\ overfull' = overfull
    BY <1>6 DEF FillEntry
  <2> HIDE DEF first, empty
  <2>3. /\ activeQueries'[first] = [event |-> ev, type |-> ty, thread |-> t]
        /\ \A i \in Slots : i # first => activeQueries'[i] = activeQueries[i]
    BY <2>1, <2>2 DEF Typed, TypeOK
  <2>4. /\ query'[t].type = ty /\ query'[t].event = ev /\ query'[t].entry = first
        /\ \A u \in Threads : u # t => query'[u] = query[u]
    BY <2>2 DEF Typed, TypeOK
  <2>5. Slotted'
    BY <1>3, <2>1, <2>2, <2>4 DEF Tabled, Slotted, Holding
  <2>6. EntriesAreOwned'
    <3>1. SUFFICES ASSUME ~overfull PROVE EntriesAreOwned'
      BY <2>2 DEF EntriesAreOwned
    <3>2. ASSUME NEW u \in Holding'
          PROVE  activeQueries'[query'[u].entry] =
                   [event |-> query'[u].event, type |-> query'[u].type,
                    thread |-> u]
      <4>1. CASE u = t
        BY <2>3, <2>4, <4>1
      <4>2. CASE u # t
        <5>1. u \in Holding /\ query'[u] = query[u] /\ query[u].entry \in Slots
          BY <1>3, <2>4, <3>1, <4>2 DEF Tabled, Slotted, Holding
        <5>2. activeQueries[query[u].entry] =
                [event |-> query[u].event, type |-> query[u].type, thread |-> u]
          BY <3>1, <5>1 DEF Tabled, EntriesAreOwned
        <5>3. query[u].event \in Events
          BY <5>1 DEF Typed, QueryShape, Holding
        <5>4. activeQueries[query[u].entry] # Free
          <6>1. activeQueries[query[u].entry].event = query[u].event
            BY <5>2
          <6> QED BY <5>3, <6>1, EventAssumption DEF Free
        <5> QED BY <2>1, <2>3, <5>1, <5>2, <5>4
      <4> QED BY <4>1, <4>2
    <3>3. ASSUME NEW i \in Slots, activeQueries'[i] # Free,
                 activeQueries'[i].type # "BOOK"
          PROVE  /\ activeQueries'[i].thread \in Holding'
                 /\ query'[activeQueries'[i].thread].entry = i
      <4>1. CASE i = first
        BY <1>3, <2>3, <2>4, <4>1
      <4>2. CASE i # first
        <5>1. activeQueries'[i] = activeQueries[i]
          BY <2>3, <4>2
        <5>2. /\ activeQueries[i].thread \in Holding
              /\ query[activeQueries[i].thread].entry = i
          BY <3>1, <3>3, <5>1 DEF Tabled, EntriesAreOwned
        <5> QED BY <1>3, <2>4, <5>1, <5>2 DEF Holding
      <4> QED BY <4>1, <4>2
    <3> QED BY <3>2, <3>3 DEF EntriesAreOwned
  <2>7. ExclusiveUnlessStale'
    <3>1. SUFFICES ASSUME NEW u \in Holding', NEW v \in Holding', u # v,
                          query'[u].event = query'[v].event,
                          query'[u].type # "INQUIRE", ~overfull
                   PROVE  query'[u].event \in stale'
      BY <2>2 DEF ExclusiveUnlessStale
    <3>2. CASE u # t /\ v # t
      BY <1>3, <1>4, <2>4, <3>1, <3>2
         DEF Tabled, ExclusiveUnlessStale, Holding
    <3>3. CASE u = t
      <4>1. v \in Holding /\ query'[v] = query[v] /\ query[v].event = ev
            /\ ty # "INQUIRE"
        BY <1>3, <2>4, <3>1, <3>3 DEF Holding
      <4>2. Conflict(ty, ev)
        BY <3>1, <4>1, HolderConflicts
      <4> QED BY <1>4, <2>4, <3>3, <4>2
    <3>4. CASE v = t
      <4>1. u \in Holding /\ query'[u] = query[u] /\ query[u].event = ev
            /\ query[u].type # "INQUIRE"
        BY <1>3, <2>4, <3>1, <3>4 DEF Holding
      <4>2. Conflict(ty, ev)
        BY <3>1, <4>1, HolderConflicts
      <4> QED BY <1>4, <4>1, <4>2
    <3> QED BY <3>2, <3>3, <3>4
  <2> QED BY <2>5, <2>6, <2>7 DEF Tabled
<1> QED BY <1>5, <1>6

\* Freeing an entry leaves the others with their owners.
LEMMA FreeTable ==
    ASSUME Typed, Tabled, NEW t \in Threads, FreeEntry(t)
    PROVE  Tabled'
<1>1. /\ Holding' = Holding \ {t} /\ t \in Holding
      /\ \A u \in Threads : u # t => query'[u] = query[u]
      /\ UNCHANGED history
  BY DEF FreeEntry, Return, Goto, Holding, Typed, TypeOK
<1>2. Slotted' /\ ExclusiveUnlessStale'
  BY <1>1 DEF Tabled, Slotted, ExclusiveUnlessStale, Holding, history
<1>3. EntriesAreOwned'
  <2>1. SUFFICES ASSUME ~overfull PROVE EntriesAreOwned'
    BY <1>1 DEF EntriesAreOwned, history
  <2> DEFINE e == query[t].entry
  <2>2. e \in Slots /\ e # NoSlot
    BY <1>1, <2>1, ConstAssumption DEF Tabled, Slotted, Slots, NoSlot
  <2>3. activeQueries' = [activeQueries EXCEPT ![e] = Free]
    BY <2>2 DEF FreeEntry
  <2>4. activeQueries[e].thread = t
    <3>1. activeQueries[e] = [event |-> query[t].event, type |-> query[t].type,
                              thread |-> t]
      BY <1>1, <2>1 DEF Tabled, EntriesAreOwned
    <3> HIDE DEF e
    <3> QED BY <3>1
  <2> HIDE DEF e
  <2>5. \A i \in Slots : activeQueries'[i] = IF i = e THEN Free
                                             ELSE activeQueries[i]
    BY <2>2, <2>3 DEF Typed, TypeOK
  <2>6. ASSUME NEW u \in Holding'
        PROVE  activeQueries'[query'[u].entry] =
                 [event |-> query'[u].event, type |-> query'[u].type,
                  thread |-> u]
    <3>1. u \in Holding /\ u # t /\ query'[u] = query[u] /\ query[u].entry \in Slots
      BY <1>1, <2>1 DEF Tabled, Slotted, Holding
    <3>2. activeQueries[query[u].entry] =
            [event |-> query[u].event, type |-> query[u].type, thread |-> u]
      BY <2>1, <3>1 DEF Tabled, EntriesAreOwned
    <3>3. activeQueries[query[u].entry].thread = u
      BY <3>2
    <3>4. query[u].entry # e
      BY <2>4, <3>1, <3>3
    <3> QED BY <2>5, <3>1, <3>2, <3>4
  <2>7. ASSUME NEW i \in Slots, activeQueries'[i] # Free,
               activeQueries'[i].type # "BOOK"
        PROVE  /\ activeQueries'[i].thread \in Holding'
               /\ query'[activeQueries'[i].thread].entry = i
    <3>1. i # e /\ activeQueries'[i] = activeQueries[i]
      BY <2>5, <2>7
    <3>2. /\ activeQueries[i].thread \in Holding
          /\ query[activeQueries[i].thread].entry = i
      BY <2>1, <2>7, <3>1 DEF Tabled, EntriesAreOwned
    <3>3. activeQueries[i].thread # t
      BY <3>1, <3>2 DEF e
    <3> QED BY <1>1, <3>1, <3>2, <3>3 DEF Holding
  <2> QED BY <2>6, <2>7 DEF EntriesAreOwned
<1> QED BY <1>2, <1>3 DEF Tabled

\* Every step keeps the table sound.
LEMMA TabledKept ==
    ASSUME Typed, Tabled, Next
    PROVE  Tabled'
<1>1. CASE Quiet
  <2>1. Holding' = Holding /\ query' = query
    BY <1>1, QuietHolding DEF Quiet
  <2> QED BY <1>1, <2>1, SameTable DEF Quiet, Key
<1>2. ASSUME NEW t \in Threads, ChecksEvent(t)
      PROVE  Tabled'
  <2>1. /\ Holding' = Holding /\ t \notin Holding
        /\ \A u \in Threads : u # t => query'[u] = query[u]
        /\ UNCHANGED <<activeQueries, history>>
    BY <1>2 DEF ChecksEvent, Check, Return, Goto, Holding, Typed, TypeOK
  <2>2. \A u \in Holding' : query'[u] = query[u]
    BY <2>1 DEF Holding
  <2> QED BY <2>1, <2>2, SameTable DEF Key
<1>3. ASSUME NEW t \in Threads, CheckSeats(t)
      PROVE  Tabled'
  <2>1. PICK k \in Tickets :
          \/ pc' = [pc EXCEPT ![t] = "end"] /\ query' = [query EXCEPT ![t] = NoQuery]
          \/ pc' = [pc EXCEPT ![t] = "load"] /\ query' = [query EXCEPT ![t].k = k]
    BY <1>3 DEF CheckSeats, Return, Goto
  <2>2. pc[t] = "seats" /\ t \in Holding /\ query[t].type = "BOOK"
    BY <1>3 DEF CheckSeats, Holding, Typed, QueryShape
  <2>3. \/ Holding' = Holding /\ query' = [query EXCEPT ![t].k = k]
        \/ Holding' = Holding \ {t} /\ query' = [query EXCEPT ![t] = NoQuery]
    BY <2>1, <2>2 DEF Holding, Typed, TypeOK
  <2>4. \A u \in Holding' : Key(query'[u]) = Key(query[u])
    BY <2>3 DEF Key, Holding, Typed, TypeOK
  <2>5. UNCHANGED <<activeQueries, history>>
    BY <1>3 DEF CheckSeats
  <2> QED BY <2>2, <2>3, <2>4, <2>5, SameTable
<1>4. ASSUME NEW t \in Threads, LoadSeats(t) \/ StoreSeats(t)
      PROVE  Tabled'
  <2>1. Holding' = Holding /\ UNCHANGED <<activeQueries, history>>
    BY <1>4 DEF LoadSeats, StoreSeats, Goto, Holding, Typed, TypeOK
  <2>2. \A u \in Threads : Key(query'[u]) = Key(query[u])
    <3>1. \A u \in Threads : u # t => query'[u] = query[u]
      BY <1>4 DEF LoadSeats, StoreSeats, Typed, TypeOK
    <3>2. /\ query'[t].type = query[t].type /\ query'[t].event = query[t].event
          /\ query'[t].entry = query[t].entry
      <4>1. CASE LoadSeats(t)
        BY <4>1 DEF LoadSeats, Typed, TypeOK
      <4>2. CASE StoreSeats(t)
        BY <4>2 DEF StoreSeats, Typed, TypeOK
      <4> QED BY <1>4, <4>1, <4>2
    <3> QED BY <3>1, <3>2 DEF Key
  <2> QED BY <2>1, <2>2, SameTable DEF Holding
<1>5. ASSUME NEW t \in Threads, FillEntry(t) \/ FreeEntry(t)
      PROVE  Tabled'
  BY <1>5, FillTable, FreeTable
<1> QED BY <1>1, <1>2, <1>3, <1>4, <1>5, Steps DEF Typed

-----------------------------------------------------------------------------
(* The seats                                                               *)

\* What was once stale, or overfull, stays so.
LEMMA HistoryGrows ==
    ASSUME TypeOK, Next
    PROVE  stale \subseteq stale' /\ (overfull => overfull')
<1>1. ASSUME NEW t \in Threads, FillEntry(t)
      PROVE  stale \subseteq stale' /\ (overfull => overfull')
  BY <1>1 DEF FillEntry
<1>2. ASSUME NEW t \in Threads,
             \/ ChecksEvent(t) \/ CheckSeats(t) \/ LoadSeats(t)
             \/ StoreSeats(t) \/ FreeEntry(t)
      PROVE  UNCHANGED history
  BY <1>2 DEF ChecksEvent, Check, CheckSeats, LoadSeats, StoreSeats, FreeEntry
<1> QED BY <1>1, <1>2, Steps DEF Quiet, history

\* On an event without an overlap at most one thread is about to write.
LEMMA OneWriter ==
    ASSUME Typed, Tabled, ~overfull, NEW t \in Writing, NEW u \in Writing,
           query[t].event = query[u].event, query[t].event \notin stale
    PROVE  t = u
<1>1. t \in Holding /\ u \in Holding /\ query[t].type # "INQUIRE"
  BY DEF Holding, Writing, Typed, QueryShape
<1> QED BY <1>1 DEF Tabled, ExclusiveUnlessStale

\* A step that writes no seats, and lets no thread but t come to them, keeps
\* what is known of them.
LEMMA SeatsUntouched ==
    ASSUME Typed, Tabled, Fresh, SeatsConserved, Next, UNCHANGED <<events, isBooked>>,
           \A u \in Writing' :
             \/ u \in Writing /\ pc'[u] = pc[u] /\ query'[u] = query[u]
             \/ pc'[u] = "load" /\ query'[u].type = "CANCEL"
             \/ pc'[u] = "load" /\ query'[u].k <= events[query'[u].event]
             \/ /\ u \in Writing /\ query'[u].old = events[query'[u].event]
                /\ query'[u].event = query[u].event /\ query'[u].k = query[u].k
                /\ query'[u].type = query[u].type
    PROVE  Fresh' /\ SeatsConserved'
<1>1. stale \subseteq stale' /\ (overfull => overfull')
  BY HistoryGrows DEF Typed
<1>2. Fresh'
  <2>1. SUFFICES ASSUME NEW u \in Writing', ~overfull', query'[u].event \notin stale'
                 PROVE  /\ pc'[u] = "store" =>
                             query'[u].old = events'[query'[u].event]
                        /\ query'[u].type = "BOOK" =>
                             query'[u].k <= events'[query'[u].event]
    BY DEF Fresh
  <2>2. CASE u \in Writing /\ pc'[u] = pc[u] /\ query'[u] = query[u]
    BY <1>1, <2>1, <2>2 DEF Fresh
  <2>3. CASE pc'[u] = "load" /\ query'[u].type = "CANCEL"
    BY <2>3
  <2>4. CASE pc'[u] = "load" /\ query'[u].k <= events[query'[u].event]
    BY <2>4
  <2>5. CASE /\ u \in Writing /\ query'[u].old = events[query'[u].event]
             /\ query'[u].event = query[u].event /\ query'[u].k = query[u].k
             /\ query'[u].type = query[u].type
    BY <1>1, <2>1, <2>5 DEF Fresh
  <2> QED BY <2>1, <2>2, <2>3, <2>4, <2>5
<1>3. SeatsConserved'
  <2>1. \A ev : BookedSeats(ev)' = BookedSeats(ev)
    BY DEF BookedSeats
  <2> QED BY <1>1, <2>1 DEF SeatsConserved
<1> QED BY <1>2, <1>3

\* The seats booked are counted as integers, and a change of one thread's
\* bookings changes the count by as much.
LEMMA BookedChanges ==
    ASSUME TypeOK, TypeOK', NEW t \in Threads, NEW ev \in Events,
           \A u \in Threads : u # t => isBooked'[u][ev] = isBooked[u][ev]
    PROVE  /\ BookedSeats(ev) \in Int
           /\ BookedSeats(ev)' = BookedSeats(ev) + isBooked'[t][ev] - isBooked[t][ev]
<1> DEFINE f == [u \in Threads |-> isBooked[u][ev]]
           g == [u \in Threads |-> isBooked'[u][ev]]
<1>1. \A u \in Threads : f[u] \in Int /\ g[u] \in Int
  BY DEF TypeOK
<1>2. \A u \in Threads \ {t} : f[u] = g[u]
  OBVIOUS
<1>3. f[t] = isBooked[t][ev] /\ g[t] = isBooked'[t][ev]
  OBVIOUS
<1>4. BookedSeats(ev) = SumFunctionOnSet(f, Threads)
      /\ BookedSeats(ev)' = SumFunctionOnSet(g, Threads)
  BY DEF BookedSeats
<1> HIDE DEF f, g
<1>5. /\ SumFunctionOnSet(f, Threads) \in Int
      /\ SumFunctionOnSet(g, Threads) = SumFunctionOnSet(f, Threads) - f[t] + g[t]
  BY <1>1, <1>2, ConstAssumption, SumInt, SumUpdate
<1> QED BY <1>1, <1>3, <1>4, <1>5

\* A store on an event without an overlap changes seats and bookings by the same
\* number, because the value loaded is still the current one.
LEMMA StoreKeepsSeats ==
    ASSUME Typed, Tabled, Fresh, SeatsConserved, Typed', NEW t \in Threads,
           StoreSeats(t)
    PROVE  Fresh' /\ SeatsConserved'
<1> DEFINE q == query[t]
           ev == q.event
<1>1. /\ pc[t] = "store" /\ t \in Writing /\ ev \in Events
      /\ q.type \in {"BOOK", "CANCEL"}
      /\ Writing' = Writing \ {t} /\ stale' = stale /\ overfull' = overfull
      /\ \A u \in Threads : u # t => query'[u] = query[u] /\ pc'[u] = pc[u]
  BY DEF StoreSeats, Goto, Writing, Typed, TypeOK, QueryShape, history
<1>2. /\ events' = [events EXCEPT ![ev] = q.old - Delta(q)]
      /\ isBooked' = [isBooked EXCEPT ![t][ev] = @ + Delta(q)]
  BY DEF StoreSeats
<1>3. /\ q.old \in Int /\ q.k \in Nat
      /\ Delta(q) = IF q.type = "BOOK" THEN q.k ELSE -1
  BY DEF Typed, TypeOK, Delta
<1>4. /\ \A e \in Events : events[e] \in Int
      /\ \A e \in Events : events'[e] = IF e = ev THEN q.old - Delta(q) ELSE events[e]
      /\ \A u \in Threads, e \in Events :
           isBooked'[u][e] = IF u = t /\ e = ev THEN isBooked[t][ev] + Delta(q)
                             ELSE isBooked[u][e]
      /\ \A u \in Threads, e \in Events : isBooked[u][e] \in Int
  BY <1>1, <1>2 DEF Typed, TypeOK
<1>5. Fresh'
  <2>1. SUFFICES ASSUME NEW u \in Writing', ~overfull, query'[u].event \notin stale
                 PROVE  /\ pc'[u] = "store" =>
                             query'[u].old = events'[query'[u].event]
                        /\ query'[u].type = "BOOK" =>
                             query'[u].k <= events'[query'[u].event]
    BY <1>1 DEF Fresh
  <2>2. u \in Writing /\ u # t /\ query'[u] = query[u] /\ pc'[u] = pc[u]
        /\ query[u].event \in Events
    BY <1>1 DEF Writing, Typed, QueryShape
  <2>3. query[u].event # ev
    BY <1>1, <2>1, <2>2, OneWriter
  <2> HIDE DEF q, ev
  <2>4. events'[query[u].event] = events[query[u].event]
    BY <1>4, <2>2, <2>3
  <2> QED BY <2>1, <2>2, <2>4 DEF Fresh
<1>6. SeatsConserved'
  <2>1. SUFFICES ASSUME NEW e \in Events, ~overfull, e \notin stale
                 PROVE  /\ events'[e] + BookedSeats(e)' = Capacity
                        /\ events'[e] >= 0
    BY <1>1 DEF SeatsConserved
  <2>2. events[e] + BookedSeats(e) = Capacity /\ events[e] >= 0
    BY <2>1 DEF SeatsConserved
  <2>3. /\ BookedSeats(e) \in Int
        /\ BookedSeats(e)' = BookedSeats(e) + isBooked'[t][e] - isBooked[t][e]
    <3>1. \A u \in Threads : u # t => isBooked'[u][e] = isBooked[u][e]
      BY <1>4
    <3> QED BY <3>1, BookedChanges DEF Typed
  <2>4. CASE e # ev
    BY <1>4, <2>2, <2>3, <2>4
  <2>5. CASE e = ev
    <3>1. /\ q.old = events[e]
          /\ q.type = "BOOK" => q.k <= events[e]
      BY <1>1, <2>1, <2>5 DEF Fresh
    <3> HIDE DEF q, ev
    <3> QED BY <1>3, <1>4, <2>2, <2>3, <2>5, <3>1
  <2> QED BY <2>4, <2>5
<1> QED BY <1>5, <1>6

\* Every step keeps the sum of seats and bookings of such an event.
LEMMA SeatsKept ==
    ASSUME Typed, Tabled, Fresh, SeatsConserved, Next
    PROVE  Fresh' /\ SeatsConserved'
<1>1. CASE Quiet
  <2>1. Writing' = Writing /\ \A u \in Writing : pc'[u] = pc[u]
    BY <1>1, QuietHolding DEF Quiet, Inside, Writing
  <2> QED BY <1>1, <2>1, SeatsUntouched DEF Quiet, booked
<1>2. ASSUME NEW t \in Threads, ChecksEvent(t) \/ FreeEntry(t)
      PROVE  Fresh' /\ SeatsConserved'
  <2>1. /\ Writing' = Writing /\ t \notin Writing
        /\ \A u \in Threads : u # t => query'[u] = query[u] /\ pc'[u] = pc[u]
        /\ UNCHANGED <<events, isBooked>>
    BY <1>2 DEF ChecksEvent, Check, FreeEntry, Return, Goto, Writing, Typed, TypeOK,
                booked
  <2> QED BY <2>1, SeatsUntouched DEF Writing
<1>3. ASSUME NEW t \in Threads, FillEntry(t)
      PROVE  Fresh' /\ SeatsConserved'
  <2>1. /\ pc[t] = "fill" /\ query[t].type \in QueryTypes
        /\ pc' = [pc EXCEPT ![t] = Work(query[t].type)]
        /\ UNCHANGED <<events, isBooked>>
    BY <1>3 DEF FillEntry, Goto, Typed, QueryShape, booked
  <2>2. query'[t].type = query[t].type
        /\ \A u \in Threads : u # t => query'[u] = query[u]
    BY <1>3 DEF FillEntry, Typed, TypeOK
  <2>3. Work(query[t].type) \in {"load", "store"} =>
          Work(query[t].type) = "load" /\ query[t].type = "CANCEL"
    BY <2>1 DEF Work, QueryTypes
  <2>4. \A u \in Writing' : \/ u \in Writing /\ pc'[u] = pc[u] /\ query'[u] = query[u]
                            \/ pc'[u] = "load" /\ query'[u].type = "CANCEL"
    BY <2>1, <2>2, <2>3 DEF Writing, Typed, TypeOK
  <2> QED BY <2>1, <2>4, SeatsUntouched
<1>4. ASSUME NEW t \in Threads, CheckSeats(t)
      PROVE  Fresh' /\ SeatsConserved'
  <2>1. PICK k \in Tickets :
          \/ pc' = [pc EXCEPT ![t] = "end"] /\ query' = [query EXCEPT ![t] = NoQuery]
          \/ /\ ~(k > events[query[t].event])
             /\ pc' = [pc EXCEPT ![t] = "load"] /\ query' = [query EXCEPT ![t].k = k]
    BY <1>4 DEF CheckSeats, Return, Goto
  <2>2. k \in Int /\ pc[t] = "seats" /\ events[query[t].event] \in Int
        /\ UNCHANGED <<events, isBooked>>
    BY <1>4, ConstAssumption DEF CheckSeats, Typed, TypeOK, QueryShape, booked
  <2>3. \A u \in Writing' :
          \/ u \in Writing /\ pc'[u] = pc[u] /\ query'[u] = query[u]
          \/ pc'[u] = "load" /\ query'[u].k <= events[query'[u].event]
    <3>1. SUFFICES ASSUME NEW u \in Writing'
                   PROVE  \/ u \in Writing /\ pc'[u] = pc[u] /\ query'[u] = query[u]
                          \/ pc'[u] = "load" /\ query'[u].k <= events[query'[u].event]
      OBVIOUS
    <3>2. CASE u # t
      BY <2>1, <3>2 DEF Writing, Typed, TypeOK
    <3>3. CASE u = t
      <4>1. /\ pc'[t] = "load" /\ k <= events[query[t].event]
            /\ query' = [query EXCEPT ![t].k = k]
        BY <2>1, <2>2, <3>3 DEF Writing, Typed, TypeOK
      <4>2. query'[t].k = k /\ query'[t].event = query[t].event
        BY <4>1 DEF Typed, TypeOK
      <4> QED BY <3>3, <4>1, <4>2
    <3> QED BY <3>2, <3>3
  <2> QED BY <2>2, <2>3, SeatsUntouched
<1>5. ASSUME NEW t \in Threads, LoadSeats(t)
      PROVE  Fresh' /\ SeatsConserved'
  <2>1. /\ pc[t] = "load" /\ pc' = [pc EXCEPT ![t] = "store"]
        /\ query' = [query EXCEPT ![t].old = events[query[t].event]]
        /\ UNCHANGED <<events, isBooked>>
    BY <1>5 DEF LoadSeats, Goto, booked
  <2>2. /\ query'[t].old = events[query[t].event] /\ t \in Writing
        /\ query'[t].event = query[t].event /\ query'[t].k = query[t].k
        /\ query'[t].type = query[t].type
    BY <2>1 DEF Writing, Typed, TypeOK
  <2>3. \A u \in Writing' : u # t => /\ u \in Writing /\ pc'[u] = pc[u]
                                     /\ query'[u] = query[u]
    BY <2>1 DEF Writing, Typed, TypeOK
  <2> QED BY <2>1, <2>2, <2>3, SeatsUntouched
<1>6. ASSUME NEW t \in Threads, StoreSeats(t)
      PROVE  Fresh' /\ SeatsConserved'
  BY <1>6, TypedKept, StoreKeepsSeats
<1> QED BY <1>1, <1>2, <1>3, <1>4, <1>5, <1>6, Steps DEF Typed

-----------------------------------------------------------------------------
(* The theorems                                                            *)

\* Every step of the server keeps the invariant.
LEMMA NextKeeps == IInv /\ [Next]_vars => IInv'
<1> SUFFICES ASSUME IInv, [Next]_vars PROVE IInv'
  OBVIOUS
<1>1. CASE Next
  BY <1>1, TypedKept, TabledKept, SeatsKept DEF IInv
<1>2. CASE UNCHANGED vars
  <2>1. Typed'
    BY <1>2 DEF IInv, Typed, TypeOK, GateCounts, QueryShape, InQuery, vars, gate,
                booked, history
  <2>2. Tabled'
    BY <1>2 DEF IInv, Tabled, Slotted, EntriesAreOwned, ExclusiveUnlessStale,
                Holding, vars, history
  <2>3. Fresh' /\ SeatsConserved'
    BY <1>2 DEF IInv, Fresh, SeatsConserved, Writing, BookedSeats, vars, booked,
                history
  <2> QED BY <2>1, <2>2, <2>3 DEF IInv
<1> QED BY <1>1, <1>2

\* The inductive invariant, for any number of workers, events and entries.
THEOREM Invariance == Spec => []IInv
<1>1. Init => IInv
  BY InitIInv
<1>2. IInv /\ [Next]_vars => IInv'
  BY NextKeeps
<1> QED BY <1>1, <1>2, PTL DEF Spec

\* Every variable keeps its type, and the gate counts the queries under way.
THEOREM TypesHold == Spec => [](TypeOK /\ GateCounts)
<1>1. IInv => TypeOK /\ GateCounts
  BY DEF IInv, Typed
<1> QED BY <1>1, Invariance, PTL

\* Whatever number of workers and entries: a thread past its second critical
\* section owns the entry it filled in (lines 133-147), and an entry without
\* an owner was left behind by a booking, unless the table was full once.
THEOREM EntriesOwned == Spec => []EntriesAreOwned
<1>1. IInv => EntriesAreOwned
  BY DEF IInv, Tabled
<1> QED BY <1>1, Invariance, PTL

\* A query that writes shares its event with another one only if one of them
\* was filled in after its check (lines 108-118) had gone stale, or the table
\* was full.
THEOREM OverlapIsStale == Spec => []ExclusiveUnlessStale
<1>1. IInv => ExclusiveUnlessStale
  BY DEF IInv, Tabled
<1> QED BY <1>1, Invariance, PTL

\* Whatever the capacity and the number of workers: on an event that never
\* saw such an overlap the seats left and the seats booked add up to the
\* capacity, and no seat is sold that is not there (lines 150-167, 242-243).
THEOREM SeatsAddUp == Spec => []SeatsConserved
<1>1. IInv => SeatsConserved
  BY DEF IInv
<1> QED BY <1>1, Invariance, PTL
=============================================================================
