------------------------------- MODULE Paging -------------------------------
(***************************************************************************)
(* Assignment6/Q2: the demand paging system (paging_system.h), driven by   *)
(* simulate (main.cpp) with the requests of the data generator             *)
(* (data_generator.h).                                                     *)
(*                                                                         *)
(* Memory and swap space are arrays of bytes; a frame and a page's place   *)
(* in the swap space are their slices of PageSize bytes, numbered from 1.  *)
(* Every request takes time, so its number stands for the time it is       *)
(* served at: numPageAccess, which is also the loop counter of simulate.   *)
(***************************************************************************)
EXTENDS Integers, Sequences, FiniteSets

CONSTANTS NumPages, NumFrames, PageSize, NumRequests,
          Byte, NUL,        \* the bytes and the one that ends a string
          Texts,            \* the strings the generator may produce
          Algorithms        \* the replacement algorithms asked for

ASSUME ConstAssumption ==
    /\ NumPages \in Nat \ {0} /\ NumFrames \in Nat \ {0}
    /\ PageSize \in Nat \ {0} /\ NumRequests \in Nat
    /\ NUL \in Byte
    /\ Texts \subseteq Seq(Byte) \ {<<>>}

Pages == 0..(NumPages - 1)
Frames == 0..(NumFrames - 1)
Offsets == 1..PageSize
NoPage == -1
NoFrame == -1

VARIABLES pageTable, frameTable, physicalMemory, swapSpace,
          algorithm,
          pageWrittenStatus,    \* the generator's: was the page ever written?
          numPageFaults, numPageAccess,
          shown                 \* what print() wrote out last

vars == <<pageTable, frameTable, physicalMemory, swapSpace, algorithm,
          pageWrittenStatus, numPageFaults, numPageAccess, shown>>

Init == /\ pageTable = [p \in Pages |-> [frameNo |-> NoFrame, isLoaded |-> FALSE,
                                         isDirty |-> FALSE, size |-> 0,
                                         firstEntry |-> 0, lastAccessed |-> 0]]
        /\ frameTable = [f \in Frames |-> NoPage]
        /\ physicalMemory = [f \in Frames |-> [k \in Offsets |-> NUL]]
        /\ swapSpace = [p \in Pages |-> [k \in Offsets |-> NUL]]
        /\ algorithm \in Algorithms
        /\ pageWrittenStatus = [p \in Pages |-> FALSE]
        /\ numPageFaults = 0
        /\ numPageAccess = 0
        /\ shown = <<>>

Now == numPageAccess + 1

-----------------------------------------------------------------------------
(* Bytes: the copying loops and print                                      *)

Copy(to, from, size) == [k \in Offsets |-> IF k <= size THEN from[k] ELSE to[k]]
Prefix(bytes, size) == [k \in 1..size |-> bytes[k]]

\* What a frame may hold after memcpy took PageSize bytes from the buffer of
\* a string: the string, its end, and then whatever lies behind the buffer.
Images(text) ==
    {bytes \in [Offsets -> Byte] :
       \A k \in Offsets : /\ k <= Len(text) => bytes[k] = text[k]
                          /\ k = Len(text) + 1 => bytes[k] = NUL}

UsedSize(text) == IF Len(text) > PageSize THEN PageSize ELSE Len(text)

-----------------------------------------------------------------------------
(* Replacement                                                             *)

Stamp(p) == IF algorithm = "LRU" THEN pageTable[p].lastAccessed
                                 ELSE pageTable[p].firstEntry

\* Mutant: the loop compares firstEntry in both branches.
OldestByEntry(f) ==
    \A g \in Frames :
      /\ pageTable[frameTable[f]].firstEntry <= pageTable[frameTable[g]].firstEntry
      /\ g < f => pageTable[frameTable[f]].firstEntry < pageTable[frameTable[g]].firstEntry

\* The frame the loop ends with: the first one whose page has the smallest
\* time stamp.
Oldest(f) ==
    \A g \in Frames :
      /\ Stamp(frameTable[f]) <= Stamp(frameTable[g])
      /\ g < f => Stamp(frameTable[f]) < Stamp(frameTable[g])

Free(f) == frameTable[f] = NoPage
SomeFree == \E f \in Frames : Free(f)

\* The frame a missing page goes to: the first free one, or a victim's.
FirstFree(f) == Free(f) /\ \A g \in Frames : Free(g) => f <= g
Victim(f) == ~SomeFree /\ (algorithm = "RANDOM" \/ Oldest(f))
Target(f) == FirstFree(f) \/ Victim(f)

\* The page that has to leave frame f.
Leaving(f, p) == frameTable[f] = p

\* Mutant: no page is written back.
WrittenBackNever(f) == swapSpace

\* unloadPage: a dirty page is written back, and its bytes are cleared.
WrittenBack(f) ==
    [p \in Pages |-> IF Leaving(f, p) /\ pageTable[p].isDirty
                     THEN Copy(swapSpace[p], physicalMemory[f], pageTable[p].size)
                     ELSE swapSpace[p]]

Cleared(f) ==
    IF \E p \in Pages : Leaving(f, p) /\ pageTable[p].isDirty
    THEN Copy(physicalMemory[f], [k \in Offsets |-> NUL],
              pageTable[frameTable[f]].size)
    ELSE physicalMemory[f]

\* Mutant: the page that left still counts as loaded.
TableKeepingVictim(f, p) ==
    [q \in Pages |->
       IF q = p THEN [pageTable[q] EXCEPT !.frameNo = f, !.isLoaded = TRUE,
                        !.isDirty = FALSE, !.firstEntry = Now, !.lastAccessed = Now]
                ELSE pageTable[q]]

\* The page table when frame f's page has made room for page p.
TableAfterFault(f, p) ==
    [q \in Pages |->
       IF q = p THEN [pageTable[q] EXCEPT !.frameNo = f, !.isLoaded = TRUE,
                        !.isDirty = FALSE, !.firstEntry = Now, !.lastAccessed = Now]
       ELSE IF Leaving(f, q)
            THEN [pageTable[q] EXCEPT !.frameNo = NoFrame, !.isLoaded = FALSE,
                                      !.isDirty = FALSE]
       ELSE pageTable[q]]

\* loadPage: the used bytes of p from the swap space into frame f.
LoadedBytes(f, p) == Copy(Cleared(f), WrittenBack(f)[p], pageTable[p].size)

Fault(f, p) == /\ ~pageTable[p].isLoaded
               /\ Target(f)
               /\ frameTable' = [frameTable EXCEPT ![f] = p]
               /\ swapSpace' = WrittenBack(f)
               /\ numPageFaults' = numPageFaults + 1

-----------------------------------------------------------------------------
(* Requests                                                                *)

Request == /\ numPageAccess < NumRequests
           /\ numPageAccess' = numPageAccess + 1
           /\ UNCHANGED algorithm

MayRead(p) == pageWrittenStatus[p]

ReadHit(p) == /\ Request /\ MayRead(p)
              /\ pageTable[p].isLoaded
              /\ shown' = Prefix(physicalMemory[pageTable[p].frameNo],
                                 pageTable[p].size)
              /\ pageTable' = [pageTable EXCEPT ![p].lastAccessed = Now]
              /\ UNCHANGED <<frameTable, physicalMemory, swapSpace,
                             pageWrittenStatus, numPageFaults>>

ReadMiss(p, f) == /\ Request /\ MayRead(p)
                  /\ Fault(f, p)
                  /\ physicalMemory' = [physicalMemory EXCEPT ![f] = LoadedBytes(f, p)]
                  /\ shown' = Prefix(LoadedBytes(f, p), pageTable[p].size)
                  /\ pageTable' = TableAfterFault(f, p)
                  /\ UNCHANGED pageWrittenStatus

\* Mutant: a write to a loaded page does not mark it dirty.
WriteHitClean(p, text, image) ==
    /\ Request
    /\ pageTable[p].isLoaded
    /\ physicalMemory' = [physicalMemory EXCEPT ![pageTable[p].frameNo] = image]
    /\ pageTable' = [pageTable EXCEPT ![p].size = UsedSize(text),
                                      ![p].lastAccessed = Now]
    /\ shown' = Prefix(image, UsedSize(text))
    /\ pageWrittenStatus' = [pageWrittenStatus EXCEPT ![p] = TRUE]
    /\ UNCHANGED <<frameTable, swapSpace, numPageFaults>>

WriteHit(p, text, image) ==
    /\ Request
    /\ pageTable[p].isLoaded
    /\ physicalMemory' = [physicalMemory EXCEPT ![pageTable[p].frameNo] = image]
    /\ pageTable' = [pageTable EXCEPT ![p].size = UsedSize(text),
                                      ![p].isDirty = TRUE,
                                      ![p].lastAccessed = Now]
    /\ shown' = Prefix(image, UsedSize(text))
    /\ pageWrittenStatus' = [pageWrittenStatus EXCEPT ![p] = TRUE]
    /\ UNCHANGED <<frameTable, swapSpace, numPageFaults>>

WriteMiss(p, f, text, image) ==
    /\ Request
    /\ Fault(f, p)
    /\ physicalMemory' = [physicalMemory EXCEPT ![f] = image]
    /\ pageTable' = [TableAfterFault(f, p) EXCEPT ![p].size = UsedSize(text),
                                                  ![p].isDirty = TRUE]
    /\ shown' = Prefix(image, UsedSize(text))
    /\ pageWrittenStatus' = [pageWrittenStatus EXCEPT ![p] = TRUE]

Read(p) == ReadHit(p) \/ \E f \in Frames : ReadMiss(p, f)

Write(p, text) ==
    \E image \in Images(text) :
      WriteHit(p, text, image) \/ \E f \in Frames : WriteMiss(p, f, text, image)

Next == \E p \in Pages : Read(p) \/ \E text \in Texts : Write(p, text)

Spec == Init /\ [][Next]_vars

-----------------------------------------------------------------------------
(* Properties                                                              *)

Page == [frameNo : Frames \cup {NoFrame}, isLoaded : BOOLEAN,
         isDirty : BOOLEAN, size : 0..PageSize,
         firstEntry : Nat, lastAccessed : Nat]

\* Every variable has a value of its type; no page uses more than PageSize.
TypeOK == /\ pageTable \in [Pages -> Page]
          /\ frameTable \in [Frames -> Pages \cup {NoPage}]
          /\ physicalMemory \in [Frames -> [Offsets -> Byte]]
          /\ swapSpace \in [Pages -> [Offsets -> Byte]]
          /\ pageWrittenStatus \in [Pages -> BOOLEAN]
          /\ numPageFaults \in Nat /\ numPageAccess \in Nat

\* The two tables are each other's inverse: a page is loaded if and only if a
\* frame holds it, and then in exactly that frame (lines 92-95, 124-127).
TablesAgree ==
    \A p \in Pages :
      /\ pageTable[p].isLoaded <=> pageTable[p].frameNo # NoFrame
      /\ \A f \in Frames : pageTable[p].frameNo = f <=> frameTable[f] = p

\* A loaded page that is not dirty may be dropped (line 114): its used bytes
\* are the ones in the swap space.
CleanIsSwapped ==
    \A p \in Pages :
      pageTable[p].isLoaded /\ ~pageTable[p].isDirty
        => Prefix(physicalMemory[pageTable[p].frameNo], pageTable[p].size)
             = Prefix(swapSpace[p], pageTable[p].size)

\* The contents of a page, wherever its newest copy is.
Contents(p) == Prefix(IF pageTable[p].isLoaded
                      THEN physicalMemory[pageTable[p].frameNo] ELSE swapSpace[p],
                      pageTable[p].size)

Store == INSTANCE PageStore WITH pages <- [p \in Pages |-> Contents(p)]

\* Through any sequence of hits, misses and evictions, what is read is what
\* was last written, and nothing is read before it is written (line 62 of
\* data_generator.h, "read befor write").
ImplementsStore == Store!Spec
=============================================================================
