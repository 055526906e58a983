---------------------------- MODULE PagingPolicy ----------------------------
(***************************************************************************)
(* The paging system as a page replacement policy: the resident pages in   *)
(* the order of the time stamps that its algorithm compares.               *)
(***************************************************************************)
EXTENDS Paging, SequencesExt

Loaded == {p \in Pages : pageTable[p].isLoaded}

\* The elements of S from the smallest value of f to the largest; each value
\* occurs once.
Rank(S, f, p) == Cardinality({q \in S : f[q] <= f[p]})
Order(S, f) == [k \in 1..Cardinality(S) |-> CHOOSE p \in S : Rank(S, f, p) = k]

Stamps == [p \in Loaded |-> Stamp(p)]

Policy == INSTANCE PageReplacement WITH
            resident <- Order(Loaded, Stamps),
            faults <- numPageFaults

\* The loop over the frames with its time stamps (lines 134-158) evicts the
\* least recently used page under LRU and the oldest one under FIFO, it evicts
\* only when no frame is free, and every miss is counted once.
ImplementsPolicy == Policy!Spec
=============================================================================
