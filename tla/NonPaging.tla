----------------------------- MODULE NonPaging ------------------------------
(***************************************************************************)
(* Assignment6/Q2/non_paging_system.h: processes of random size get        *)
(* contiguous memory by first fit; when no hole is found, the largest      *)
(* process may have to go.                                                 *)
(*                                                                         *)
(* request_states has the processes that hold memory, in the order they    *)
(* came: an entry that was set to -1 is never looked at again.             *)
(***************************************************************************)
EXTENDS Integers, FiniteSets, SequencesExt

CONSTANTS MemSize, MaxProcessSize, NumRequests

\* main asks for at most 1024 of 102400 bytes, so that the first process
\* always finds memory, and there is always one to evict later.
SizesAssumption == /\ MaxProcessSize \in Nat \ {0} /\ MemSize \in Nat
                   /\ MaxProcessSize < MemSize
                   /\ NumRequests \in Nat

Bytes == 0..(MemSize - 1)
Sizes == 1..MaxProcessSize

VARIABLES free_bytes,       \* byte -> is it used? (the name is the code's)
          request_states,   \* the first and last bytes of the processes
          numFaults,
          i                 \* requests made

vars == <<free_bytes, request_states, numFaults, i>>

Init == /\ free_bytes = [b \in Bytes |-> FALSE]
        /\ request_states = <<>>
        /\ numFaults = 0
        /\ i = 0

Extent(s, e) == [first |-> s, second |-> e]
BytesOf(p) == p.first..p.second
Size(p) == p.second - p.first + 1

-----------------------------------------------------------------------------
(* First fit                                                               *)

\* Mutant: only a free byte ends the search, not the process behind a hole.
ScanWithoutUsed(size) ==
    LET at[j \in 0..MemSize] ==
          IF j = 0 THEN [hole |-> {}, found |-> FALSE]
          ELSE LET before == at[j - 1]
               IN  CASE before.found -> before
                     [] ~before.found /\ free_bytes[j - 1] -> [hole |-> {}, found |-> FALSE]
                     [] ~before.found /\ ~free_bytes[j - 1] ->
                          IF Cardinality(before.hole) >= size
                          THEN [before EXCEPT !.found = TRUE]
                          ELSE [before EXCEPT !.hole = @ \cup {j - 1}]
    IN  at[MemSize]

\* The loop over the bytes: the hole that ends before byte j (from s to e),
\* and whether it was found to be large enough.  That is asked at the byte
\* behind it, so never of a hole that ends with the memory.
Scan(size) ==
    LET at[j \in 0..MemSize] ==
          IF j = 0 THEN [hole |-> {}, found |-> FALSE]
          ELSE LET before == at[j - 1]
                   fits == Cardinality(before.hole) >= size
               IN  CASE fits -> [before EXCEPT !.found = TRUE]
                     [] ~fits /\ free_bytes[j - 1] -> [hole |-> {}, found |-> FALSE]
                     [] ~fits /\ ~free_bytes[j - 1] -> [before EXCEPT !.hole = @ \cup {j - 1}]
    IN  at[MemSize]

Allocate(size) ==
    /\ Scan(size).found
    /\ LET hole == Scan(size).hole
       IN  /\ free_bytes' = [b \in Bytes |-> free_bytes[b] \/ b \in hole]
           /\ request_states' = Append(request_states, Extent(Min(hole), Max(hole)))
    /\ UNCHANGED numFaults

-----------------------------------------------------------------------------
(* The largest process makes room                                          *)

\* Mutant: the last process, whatever its size.
LastProcess(pos) == pos = Len(request_states)

\* The last of the largest.
Largest(pos) ==
    \A c \in DOMAIN request_states :
      /\ Size(request_states[c]) <= Size(request_states[pos])
      /\ c > pos => Size(request_states[c]) < Size(request_states[pos])

\* The process with the free bytes on both sides of it.
Merged(p) ==
    Extent(Min({b \in 0..p.first : \A c \in b..(p.first - 1) : ~free_bytes[c]}),
           Max({b \in p.second..(MemSize - 1) : \A c \in (p.second + 1)..b : ~free_bytes[c]}))

\* Mutant: the entry of the process that goes stays.
EvictKeepingEntry(size) ==
    /\ ~Scan(size).found
    /\ \E pos \in DOMAIN request_states :
         LET room == Merged(request_states[pos])
             new == Extent(room.first, room.first + size - 1)
         IN  /\ Largest(pos) /\ Size(room) >= size
             /\ request_states' = Append(request_states, new)
             /\ free_bytes' = [b \in Bytes |-> IF b \in BytesOf(room) THEN b \in BytesOf(new)
                                               ELSE free_bytes[b]]
    /\ UNCHANGED numFaults

Evict(size) ==
    /\ ~Scan(size).found
    /\ \E pos \in DOMAIN request_states :
         LET room == Merged(request_states[pos])
             new == Extent(room.first, room.first + size - 1)
         IN  /\ Largest(pos) /\ Size(room) >= size
             /\ request_states' = Append(RemoveAt(request_states, pos), new)
             /\ free_bytes' = [b \in Bytes |-> IF b \in BytesOf(room) THEN b \in BytesOf(new)
                                               ELSE free_bytes[b]]
    /\ UNCHANGED numFaults

Refuse(size) ==
    /\ ~Scan(size).found
    /\ \E pos \in DOMAIN request_states :
         Largest(pos) /\ Size(Merged(request_states[pos])) < size
    /\ numFaults' = numFaults + 1
    /\ UNCHANGED <<free_bytes, request_states>>

\* One round of generateRequests.
generateRequest(size) == /\ i < NumRequests
                         /\ i' = i + 1
                         /\ Allocate(size) \/ Evict(size) \/ Refuse(size)

Next == \E size \in Sizes : generateRequest(size)

Spec == Init /\ [][Next]_vars

-----------------------------------------------------------------------------
(* Properties                                                              *)

Live == Range(request_states)

\* Every variable has a value of its type.
TypeOK == /\ free_bytes \in [Bytes -> BOOLEAN]
          /\ request_states \in Seq([first : Bytes, second : Bytes])
          /\ numFaults \in 0..i /\ i \in 0..NumRequests

\* After any number of allocations, evictions and merges the used bytes are
\* exactly those of the processes, no byte is two processes' (lines 94-101),
\* and once a process has come there is always one to evict: pos is set
\* (line 70).
ExtentsTile ==
    /\ {b \in Bytes : free_bytes[b]} = UNION {BytesOf(p) : p \in Live}
    /\ \A c, d \in DOMAIN request_states :
         c # d => BytesOf(request_states[c]) \cap BytesOf(request_states[d]) = {}
    /\ i > 0 => request_states # <<>>

\* Where size bytes in a row are free.
Starts(size) == {s \in 0..(MemSize - size) : \A b \in s..(s + size - 1) : ~free_bytes[b]}

\* A request gets the lowest bytes that are free in sufficient number.  A
\* process goes, or the request fails, only when there are none; the code
\* also overlooks a hole of just this size at the end of the memory, the
\* byte behind which never comes (lines 28, 38).
FirstFit(size) ==
    LET seen == Starts(size) \ {MemSize - size}
    IN  IF seen # {}
        THEN request_states' = Append(request_states, Extent(Min(seen), Min(seen) + size - 1))
        ELSE \/ numFaults' = numFaults + 1
             \/ Size(Last(request_states')) = size /\ Len(request_states') = Len(request_states)
FirstFitButTheTail == [][\A size \in Sizes : generateRequest(size) => FirstFit(size)]_vars

\* A request only fails in a memory crowded with processes: all of them and
\* the holes between them are smaller than it is.  So k processes and k + 1
\* holes, the last of them at most one larger, have to fill the memory (the
\* process to go is the largest, lines 70-82).
FailsOnlyWhenCrowded ==
    [][numFaults' > numFaults =>
         \A size \in Sizes :
           Refuse(size) =>
             MemSize <= (2 * Len(request_states) + 1) * (size - 1) + 1]_vars
=============================================================================
