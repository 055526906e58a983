---------------------------- MODULE EventBooking ----------------------------
(***************************************************************************)
(* Assignment4/Group_1/ass4_3.c: worker threads make inquiry, booking and  *)
(* cancellation queries on events.  A gate (querymutex, querycond) counts  *)
(* the queries under way; a table of MAX entries (csmutex) says which      *)
(* event each of them works on, so that a query can give way to a          *)
(* conflicting one; the seats themselves have no lock.                     *)
(*                                                                         *)
(* The code between a lock and the next unlock or wait is one action.      *)
(* events[..] -= k is two: the load and the store.  What only its own      *)
(* thread touches (isBooked, eventsBooked, the random choices) is done in  *)
(* the nearest action.                                                     *)
(***************************************************************************)
EXTENDS Integers, FiniteSets, Functions

CONSTANTS Threads,      \* the s workers
          Events,       \* the e events
          MAX,          \* MAX: entries of the table, size of the gate
          Capacity,     \* c
          Tickets,      \* the numbers of seats a booking may ask for (5..10)
          SeatBound,    \* bounds: a query that writes starts only on an event
          BookedBound,  \* with at most so many seats free, and booked
          Spurious      \* may pthread_cond_wait return without a signal?

ASSUME ConstAssumption ==
    /\ IsFiniteSet(Threads)
    /\ MAX \in Nat \ {0}
    /\ Capacity \in Nat
    /\ Tickets \subseteq Nat \ {0}
    /\ SeatBound \in Nat /\ BookedBound \in Nat
    /\ Spurious \in BOOLEAN

Slots == 0..(MAX - 1)
QueryTypes == {"INQUIRE", "BOOK", "CANCEL"}
Free == [event |-> -1]
NoSlot == -1            \* entry was never assigned

ASSUME EventAssumption == -1 \notin Events

VARIABLES numActiveQueries,
          activeQueries,    \* slot -> Free or what is worked on, by whom
          events,           \* event -> seats available
          mdone,
          master,           \* the master thread
          pc,               \* worker -> where it is
          query,            \* worker -> type, event, seats, slot, loaded value
          isBooked,         \* worker -> event -> seats it has booked
          eventsBooked,     \* worker -> the events it ever booked
          stale,            \* history: events filled in after a check that
                            \* no longer held
          overfull          \* history: some query found no free entry

gate == <<numActiveQueries, mdone, master>>
history == <<stale, overfull>>
booked == <<isBooked, eventsBooked>>
vars == <<gate, activeQueries, events, pc, query, booked, history>>

NoQuery == [type |-> "none", event |-> -1, k |-> 0, entry |-> NoSlot, old |-> 0]

Goto(t, loc) == pc' = [pc EXCEPT ![t] = loc]

\* Return from a query: its local variables are gone.
Return(t) == Goto(t, "end") /\ query' = [query EXCEPT ![t] = NoQuery]

Init == /\ numActiveQueries = 0
        /\ activeQueries = [i \in Slots |-> Free]
        /\ events = [ev \in Events |-> Capacity]
        /\ mdone = FALSE /\ master = "sleeping"
        /\ pc = [t \in Threads |-> "idle"]
        /\ query = [t \in Threads |-> NoQuery]
        /\ isBooked = [t \in Threads |-> [ev \in Events |-> 0]]
        /\ eventsBooked = [t \in Threads |-> {}]
        /\ stale = {} /\ overfull = FALSE

-----------------------------------------------------------------------------
(* The loop of a worker and the gate                                       *)

\* Mutant: a worker that is told to stop leaves without the barrier.
CheckDoneNoBarrier(t) ==
    /\ pc[t] = "idle"
    /\ Goto(t, IF mdone THEN "exited" ELSE "gate")
    /\ UNCHANGED <<gate, activeQueries, events, query, booked, history>>

\* The worker goes on unless the master is done.
CheckDone(t) ==
    /\ pc[t] = "idle"
    /\ Goto(t, IF mdone THEN "barrier" ELSE "gate")
    /\ UNCHANGED <<gate, activeQueries, events, query, booked, history>>

PassGate(t) ==
    /\ pc[t] = "gate" /\ numActiveQueries # MAX
    /\ numActiveQueries' = numActiveQueries + 1
    /\ Goto(t, "query")
    /\ UNCHANGED <<mdone, master, activeQueries, events, query, booked, history>>

BlockAtGate(t) ==
    /\ pc[t] = "gate" /\ numActiveQueries = MAX
    /\ Goto(t, "querycond")
    /\ UNCHANGED <<gate, activeQueries, events, query, booked, history>>

\* Back from querycond: the count is not looked at again.
ResumeAtGate(t) ==
    /\ pc[t] = "woken"
    /\ numActiveQueries' = numActiveQueries + 1
    /\ Goto(t, "query")
    /\ UNCHANGED <<mdone, master, activeQueries, events, query, booked, history>>

\* The query is over; only the step from MAX to MAX - 1 wakes a waiter.
EndQuery(t) ==
    /\ pc[t] = "end"
    /\ numActiveQueries' = numActiveQueries - 1
    /\ LET idle == [pc EXCEPT ![t] = "idle"]
           waiting == {u \in Threads : pc[u] = "querycond"}
       IN  IF numActiveQueries' = MAX - 1 /\ waiting # {}
             THEN \E u \in waiting : pc' = [idle EXCEPT ![u] = "woken"]
             ELSE pc' = idle
    /\ UNCHANGED <<mdone, master, activeQueries, events, query, booked, history>>

SpuriousWake(t) ==
    /\ Spurious /\ pc[t] = "querycond"
    /\ Goto(t, "woken")
    /\ UNCHANGED <<gate, activeQueries, events, query, booked, history>>

-----------------------------------------------------------------------------
(* The table                                                               *)

\* Mutant: a booking or cancellation does not mind an inquiry either.
ConflictWritersOnly(type, ev) ==
    \E i \in Slots : activeQueries[i].event = ev /\ activeQueries[i].type # "INQUIRE"

\* An entry that type must give way to: any on the event, but an inquiry
\* only minds those that write.
Conflict(type, ev) ==
    \E i \in Slots : /\ activeQueries[i].event = ev
                     /\ type = "INQUIRE" => activeQueries[i].type # "INQUIRE"

\* The first critical section of a query: look for a conflict.
Check(t, type, ev) ==
    /\ IF Conflict(type, ev)
         THEN Return(t)
         ELSE /\ Goto(t, "fill")
              /\ query' = [query EXCEPT ![t] =
                             [NoQuery EXCEPT !.type = type, !.event = ev]]
    /\ UNCHANGED <<gate, activeQueries, events, booked, history>>

\* Where a query goes once its entry is filled in.
Work(type) == CASE type = "INQUIRE" -> "free"
                [] type = "BOOK"    -> "seats"
                [] type = "CANCEL"  -> "load"

\* Mutant: the first entry is taken, free or not.
FillFirst(t) ==
    /\ pc[t] = "fill"
    /\ LET ty == query[t].type
           ev == query[t].event
       IN  /\ Goto(t, Work(ty))
           /\ stale' = IF Conflict(ty, ev) THEN stale \cup {ev} ELSE stale
           /\ activeQueries' = [activeQueries EXCEPT ![0] =
                                  [event |-> ev, type |-> ty, thread |-> t]]
           /\ query' = [query EXCEPT ![t].entry = 0]
           /\ UNCHANGED overfull
    /\ UNCHANGED <<gate, events, booked>>

\* The second one: the lowest free entry, if there is one, is filled in.
FillEntry(t) ==
    /\ pc[t] = "fill"
    /\ LET ty == query[t].type
           ev == query[t].event
           empty == {i \in Slots : activeQueries[i] = Free}
           first == CHOOSE i \in empty : \A j \in empty : i <= j
       IN  /\ Goto(t, Work(ty))
           /\ stale' = IF Conflict(ty, ev) THEN stale \cup {ev} ELSE stale
           /\ IF empty # {}
                THEN /\ activeQueries' = [activeQueries EXCEPT ![first] =
                                            [event |-> ev, type |-> ty, thread |-> t]]
                     /\ query' = [query EXCEPT ![t].entry = first]
                     /\ UNCHANGED overfull
                ELSE /\ overfull' = TRUE
                     /\ UNCHANGED <<activeQueries, query>>
    /\ UNCHANGED <<gate, events, booked>>

\* The last one: the entry is given back.  If none was assigned, the variable
\* holds anything, and the entry cleared is any one, or memory outside of the
\* table.
FreeEntry(t) ==
    /\ pc[t] = "free"
    /\ \/ /\ query[t].entry # NoSlot
          /\ activeQueries' = [activeQueries EXCEPT ![query[t].entry] = Free]
       \/ /\ query[t].entry = NoSlot
          /\ \/ \E i \in Slots : activeQueries' = [activeQueries EXCEPT ![i] = Free]
             \/ UNCHANGED activeQueries
    /\ Return(t)
    /\ UNCHANGED <<gate, events, booked, history>>

-----------------------------------------------------------------------------
(* The three queries                                                       *)

BookedSeats(ev) ==
    SumFunctionOnSet([t \in Threads |-> isBooked[t][ev]], Threads)

\* Lost updates make both numbers drift without limit: the bounds stop that.
InBounds(ev) == events[ev] \in 0..SeatBound /\ BookedSeats(ev) <= BookedBound

Inquiry(t, ev) == pc[t] = "query" /\ Check(t, "INQUIRE", ev)

Booking(t, ev) == /\ pc[t] = "query" /\ InBounds(ev)
                  /\ Check(t, "BOOK", ev)

\* Nothing was ever booked: the query ends at once.
CancelNothing(t) ==
    /\ pc[t] = "query" /\ eventsBooked[t] = {}
    /\ Goto(t, "end")
    /\ UNCHANGED <<gate, activeQueries, events, query, booked, history>>

\* Everything booked is cancelled again: the search for an event never ends.
CancelSpin(t) ==
    /\ pc[t] = "query" /\ eventsBooked[t] # {}
    /\ \A ev \in eventsBooked[t] : isBooked[t][ev] = 0
    /\ Goto(t, "spin")
    /\ UNCHANGED <<gate, activeQueries, events, query, booked, history>>

Cancellation(t, ev) ==
    /\ pc[t] = "query" /\ ev \in eventsBooked[t] /\ isBooked[t][ev] # 0
    /\ InBounds(ev)
    /\ Check(t, "CANCEL", ev)

\* Mutant: the seats are not compared with the demand.
AnySeats(t) ==
    /\ pc[t] = "seats"
    /\ \E k \in Tickets : /\ query' = [query EXCEPT ![t].k = k]
                          /\ Goto(t, "load")
    /\ UNCHANGED <<gate, activeQueries, events, booked, history>>

\* A booking that finds too few seats ends here, its entry still in the table.
CheckSeats(t) ==
    /\ pc[t] = "seats"
    /\ \E k \in Tickets :
         IF k > events[query[t].event]
           THEN Return(t)
           ELSE Goto(t, "load") /\ query' = [query EXCEPT ![t].k = k]
    /\ UNCHANGED <<gate, activeQueries, events, booked, history>>

LoadSeats(t) ==
    /\ pc[t] = "load"
    /\ query' = [query EXCEPT ![t].old = events[query[t].event]]
    /\ Goto(t, "store")
    /\ UNCHANGED <<gate, activeQueries, events, booked, history>>

\* What the query adds to the seats booked by its thread.
Delta(q) == IF q.type = "BOOK" THEN q.k ELSE -1

StoreSeats(t) ==
    /\ pc[t] = "store"
    /\ LET q == query[t]
       IN  /\ events' = [events EXCEPT ![q.event] = q.old - Delta(q)]
           /\ isBooked' = [isBooked EXCEPT ![t][q.event] = @ + Delta(q)]
           /\ eventsBooked' = IF q.type = "BOOK"
                THEN [eventsBooked EXCEPT ![t] = @ \cup {q.event}]
                ELSE eventsBooked
    /\ query' = [query EXCEPT ![t].k = 0, ![t].old = 0]
    /\ Goto(t, "free")
    /\ UNCHANGED <<gate, activeQueries, history>>

-----------------------------------------------------------------------------
(* The master thread and the barrier of s + 1                              *)

SetDone == /\ master = "sleeping"
           /\ mdone' = TRUE /\ master' = "barrier"
           /\ UNCHANGED <<numActiveQueries, activeQueries, events, pc, query,
                          booked, history>>

BarrierFull == \A t \in Threads : pc[t] = "barrier"

BarrierTrips == /\ master = "barrier" /\ BarrierFull
                /\ pc' = [t \in Threads |-> "exited"]
                /\ master' = "joined"
                /\ UNCHANGED <<numActiveQueries, mdone, activeQueries, events,
                               query, booked, history>>

-----------------------------------------------------------------------------
QueryStep(t) ==
    \/ \E ev \in Events : Inquiry(t, ev) \/ Booking(t, ev) \/ Cancellation(t, ev)
    \/ CancelNothing(t) \/ CancelSpin(t)
    \/ FillEntry(t) \/ CheckSeats(t) \/ LoadSeats(t) \/ StoreSeats(t)
    \/ FreeEntry(t)

Worker(t) == \/ CheckDone(t) \/ PassGate(t) \/ BlockAtGate(t) \/ ResumeAtGate(t)
             \/ QueryStep(t) \/ EndQuery(t)

Next == \/ \E t \in Threads : Worker(t) \/ SpuriousWake(t)
        \/ SetDone \/ BarrierTrips

\* Every thread that can run does, and the master's sleep ends.
Fairness == /\ \A t \in Threads : WF_vars(Worker(t))
            /\ WF_vars(SetDone) /\ WF_vars(BarrierTrips)

Spec == Init /\ [][Next]_vars /\ Fairness

-----------------------------------------------------------------------------
(* Properties                                                              *)

InQuery == {t \in Threads : pc[t] \in {"query", "fill", "seats", "load", "store",
                                        "free", "end", "spin"}}
Holding == {t \in Threads : pc[t] \in {"seats", "load", "store", "free"}}
Writing == {t \in Threads : pc[t] \in {"load", "store"}}

\* Every variable has a value of its type.
TypeOK ==
    /\ numActiveQueries \in 0..Cardinality(Threads)
    /\ activeQueries \in [Slots -> {Free} \cup
         [event : Events, type : QueryTypes, thread : Threads]]
    /\ events \in [Events -> Int]
    /\ mdone \in BOOLEAN /\ master \in {"sleeping", "barrier", "joined"}
    /\ pc \in [Threads -> {"idle", "gate", "querycond", "woken", "query", "fill",
                           "seats", "load", "store", "free", "end", "spin",
                           "barrier", "exited"}]
    /\ query \in [Threads -> [type : QueryTypes \cup {"none"},
                              event : Events \cup {-1}, k : Nat,
                              entry : Slots \cup {NoSlot}, old : Int]]
    /\ isBooked \in [Threads -> [Events -> Int]]
    /\ eventsBooked \in [Threads -> SUBSET Events]
    /\ stale \subseteq Events /\ overfull \in BOOLEAN

\* As long as no query has found the table full, a thread past its second
\* critical section (lines 77-90, 134-147, 221-235) owns the entry it filled
\* in, and an entry without such an owner was left behind by a booking that
\* found too few seats (150-154).
EntriesAreOwned ==
    ~overfull =>
      /\ \A t \in Holding :
           activeQueries[query[t].entry] = [event |-> query[t].event,
                                            type |-> query[t].type, thread |-> t]
      /\ \A i \in Slots : activeQueries[i] # Free =>
           \/ activeQueries[i].type = "BOOK"
           \/ /\ activeQueries[i].thread \in Holding
              /\ query[activeQueries[i].thread].entry = i

\* Two queries work on one event at a time, one of them writing, only if one
\* was filled in after its check (lines 108-118) had gone stale, or if the
\* table was full.
ExclusiveUnlessStale ==
    \A t, u \in Holding :
      /\ t # u /\ query[t].event = query[u].event
      /\ query[t].type # "INQUIRE"
      => overfull \/ query[t].event \in stale

\* On an event that never saw such an overlap no seat is lost, sold twice, or
\* sold without being there (lines 150-167, 242-243).
SeatsConserved ==
    \A ev \in Events : ~overfull /\ ev \notin stale =>
      /\ events[ev] + BookedSeats(ev) = Capacity
      /\ events[ev] >= 0

\* Once the master is done (lines 391-396) the program ends, unless a worker
\* is left on querycond, which nobody signals any more, or searches for ever
\* for a booking to cancel (189-193).
EndsOrStuck ==
    mdone ~> \/ master = "joined"
             \/ \E t \in Threads : pc[t] \in {"querycond", "spin"}

\* Line 11, "Max queries at any time": it does not hold.
AtMostMAX == numActiveQueries <= MAX
=============================================================================
