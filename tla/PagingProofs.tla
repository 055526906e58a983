---------------------------- MODULE PagingProofs ----------------------------
(***************************************************************************)
(* Proofs about the demand paging system, for any number of pages and      *)
(* frames, any size of a page and any replacement algorithm: it is a store *)
(* of pages, and it replaces them by the policy it was asked for.  Then    *)
(* about the memory without paging: its processes tile the used bytes, and *)
(* the search for a hole is first fit but for the last one.                *)
(***************************************************************************)
EXTENDS Simulations, Sums, SequenceTheorems

\* A page the generator may let be read has something in it.
WrittenHasBytes ==
    \A p \in Pages : pageWrittenStatus[p] => pageTable[p].size # 0

IInv == TypeOK /\ TablesAgree /\ CleanIsSwapped /\ WrittenHasBytes

-----------------------------------------------------------------------------
(* The copying loops                                                       *)

\* A copy of n bytes is a cell that begins as its source does.
LEMMA CopyIsCell ==
    ASSUME NEW to \in [Offsets -> Byte], NEW from \in [Offsets -> Byte],
           NEW n \in 0..PageSize
    PROVE  /\ Copy(to, from, n) \in [Offsets -> Byte]
           /\ Prefix(Copy(to, from, n), n) = Prefix(from, n)
  BY ConstAssumption DEF ConstAssumption, Copy, Prefix, Offsets

\* An image of a text begins with the part of it that fits.
LEMMA ImagePrefix ==
    ASSUME NEW text \in Texts, NEW image \in Images(text)
    PROVE  /\ image \in [Offsets -> Byte]
           /\ UsedSize(text) \in 1..PageSize
           /\ Prefix(image, UsedSize(text)) = Store!Cut(text)
<1>1. text \in Seq(Byte) /\ text # <<>> /\ Len(text) \in Nat /\ Len(text) # 0
  BY ConstAssumption DEF ConstAssumption
<1>2. UsedSize(text) \in 1..PageSize /\ UsedSize(text) <= Len(text)
  BY <1>1, ConstAssumption DEF ConstAssumption, UsedSize
<1>3. UsedSize(text) = Store!CutLen(text)
  BY DEF UsedSize, Store!CutLen
<1>4. \A k \in 1..UsedSize(text) : image[k] = text[k]
  BY <1>1, <1>2, ConstAssumption DEF ConstAssumption, Images, Offsets
<1> QED
  BY <1>2, <1>3, <1>4 DEF Images, Prefix, Store!Cut

\* The swap space after a write-back holds cells.
LEMMA WrittenBackIsCells ==
    ASSUME TypeOK, NEW f \in Frames
    PROVE  WrittenBack(f) \in [Pages -> [Offsets -> Byte]]
<1>1. ASSUME NEW p \in Pages PROVE WrittenBack(f)[p] \in [Offsets -> Byte]
  <2>1. Copy(swapSpace[p], physicalMemory[f], pageTable[p].size)
          \in [Offsets -> Byte]
    BY CopyIsCell DEF TypeOK, Page
  <2> QED
    BY <2>1 DEF WrittenBack, TypeOK
<1> QED
  BY <1>1 DEF WrittenBack

\* A frame that was cleared is a cell.
LEMMA ClearedIsCell ==
    ASSUME TypeOK, NEW f \in Frames
    PROVE  Cleared(f) \in [Offsets -> Byte]
<1>1. CASE \E p \in Pages : Leaving(f, p) /\ pageTable[p].isDirty
  <2>1. pageTable[frameTable[f]].size \in 0..PageSize
    BY <1>1 DEF Leaving, TypeOK, Page
  <2>2. [k \in Offsets |-> NUL] \in [Offsets -> Byte]
    BY ConstAssumption DEF ConstAssumption
  <2> QED
    BY <1>1, <2>1, <2>2, CopyIsCell DEF Cleared, TypeOK
<1>2. CASE ~ \E p \in Pages : Leaving(f, p) /\ pageTable[p].isDirty
  BY <1>2 DEF Cleared, TypeOK
<1> QED
  BY <1>1, <1>2

\* A frame that a page was loaded into is a cell.
LEMMA LoadedIsCell ==
    ASSUME TypeOK, NEW f \in Frames, NEW p \in Pages
    PROVE  LoadedBytes(f, p) \in [Offsets -> Byte]
  BY CopyIsCell, ClearedIsCell, WrittenBackIsCells
     DEF LoadedBytes, TypeOK, Page

-----------------------------------------------------------------------------
(* What every miss does                                                    *)

\* A missing page p gets frame f, with anything in it.
Miss(f, p) ==
    /\ ~pageTable[p].isLoaded
    /\ frameTable' = [frameTable EXCEPT ![f] = p]
    /\ swapSpace' = WrittenBack(f)
    /\ \E bytes \in [Offsets -> Byte] :
          physicalMemory' = [physicalMemory EXCEPT ![f] = bytes]
    /\ pageTable' \in [Pages -> Page]
    /\ \A q \in Pages \ {p} : pageTable'[q] = TableAfterFault(f, p)[q]
    /\ pageTable'[p].frameNo = f /\ pageTable'[p].isLoaded

\* The page table after a fault has the types of a page table.
LEMMA FaultIsTable ==
    ASSUME TypeOK, NEW f \in Frames, NEW p \in Pages
    PROVE  TableAfterFault(f, p) \in [Pages -> Page]
<1>1. Now \in Nat
  BY DEF TypeOK, Now
<1>2. ASSUME NEW q \in Pages PROVE TableAfterFault(f, p)[q] \in Page
  <2>1. pageTable[q] \in Page
    BY DEF TypeOK
  <2>2. [pageTable[q] EXCEPT !.frameNo = f, !.isLoaded = TRUE, !.isDirty = FALSE,
                             !.firstEntry = Now, !.lastAccessed = Now] \in Page
    BY <1>1, <2>1 DEF Page
  <2>3. [pageTable[q] EXCEPT !.frameNo = NoFrame, !.isLoaded = FALSE, !.isDirty = FALSE] \in Page
    BY <2>1 DEF Page
  <2> QED BY <2>1, <2>2, <2>3 DEF TableAfterFault
<1> QED
  BY <1>2 DEF TableAfterFault

\* A read of a page that is not loaded is a miss.
LEMMA ReadMissIsMiss ==
    ASSUME TypeOK, NEW f \in Frames, NEW p \in Pages, ReadMiss(p, f)
    PROVE  Miss(f, p)
<1>1. LoadedBytes(f, p) \in [Offsets -> Byte]
  BY LoadedIsCell
<1>2. pageTable'[p].frameNo = f /\ pageTable'[p].isLoaded
  BY DEF ReadMiss, TableAfterFault, TypeOK, Page
<1> QED
  BY <1>1, <1>2, FaultIsTable DEF ReadMiss, Fault, Miss

\* So is a write.
LEMMA WriteMissIsMiss ==
    ASSUME TypeOK, NEW f \in Frames, NEW p \in Pages,
           NEW text \in Texts, NEW image \in Images(text),
           WriteMiss(p, f, text, image)
    PROVE  Miss(f, p)
<1> DEFINE T == TableAfterFault(f, p)
<1>1. T \in [Pages -> Page]
  BY FaultIsTable
<1>2. T[p].frameNo = f /\ T[p].isLoaded
  BY DEF TableAfterFault, TypeOK, Page
<1> HIDE DEF T
<1>3. pageTable' = [T EXCEPT ![p].size = UsedSize(text), ![p].isDirty = TRUE]
  BY DEF WriteMiss, T
<1>4. UsedSize(text) \in 0..PageSize
  BY ImagePrefix, ConstAssumption DEF ConstAssumption
<1>5. pageTable' \in [Pages -> Page]
  <2>1. [T[p] EXCEPT !.size = UsedSize(text), !.isDirty = TRUE] \in Page
    BY <1>1, <1>4 DEF Page
  <2>2. pageTable' = [T EXCEPT ![p] = [T[p] EXCEPT !.size = UsedSize(text), !.isDirty = TRUE]]
    BY <1>1, <1>3
  <2> QED BY <1>1, <2>1, <2>2
<1>6. \A q \in Pages \ {p} : pageTable'[q] = T[q]
  BY <1>1, <1>3
<1>7. pageTable'[p].frameNo = f /\ pageTable'[p].isLoaded
  BY <1>1, <1>2, <1>3 DEF Page
<1> QED
  BY <1>5, <1>6, <1>7, ImagePrefix DEF WriteMiss, Fault, Miss, T

\* The entry of the page that left, after a miss for another one.
LEMMA LeftEntry ==
    ASSUME TypeOK, NEW f \in Frames, NEW p \in Pages, Miss(f, p),
           NEW q \in Pages, q # p, Leaving(f, q)
    PROVE  /\ pageTable'[q].frameNo = NoFrame /\ ~pageTable'[q].isLoaded
           /\ pageTable'[q].size = pageTable[q].size
<1>1. pageTable'[q] = [pageTable[q] EXCEPT !.frameNo = NoFrame,
                                           !.isLoaded = FALSE, !.isDirty = FALSE]
  BY DEF Miss, TableAfterFault
<1>2. pageTable[q] \in Page
  BY DEF TypeOK
<1> QED
  BY <1>1, <1>2 DEF Page

\* A miss keeps the two tables each other's inverse.
LEMMA MissKeepsTables ==
    ASSUME TypeOK, TablesAgree, NEW f \in Frames, NEW p \in Pages, Miss(f, p)
    PROVE  TablesAgree'
<1>1. \A q \in Pages, g \in Frames : q # -1 /\ g # -1
  BY ConstAssumption DEF ConstAssumption, Pages, Frames
<1>2. \A g \in Frames : frameTable'[g] = IF g = f THEN p ELSE frameTable[g]
  BY DEF Miss, TypeOK
<1>3. pageTable[p].frameNo = NoFrame /\ \A g \in Frames : frameTable[g] # p
  BY <1>1 DEF Miss, TablesAgree, NoFrame
<1>4. ASSUME NEW q \in Pages, q # p
      PROVE  /\ pageTable'[q].isLoaded <=> pageTable'[q].frameNo # NoFrame
             /\ \A g \in Frames : pageTable'[q].frameNo = g <=> frameTable'[g] = q
  <2>1. CASE Leaving(f, q)
    <3>1. ~pageTable'[q].isLoaded /\ pageTable'[q].frameNo = NoFrame
      BY <1>4, <2>1, LeftEntry
    <3>2. \A g \in Frames : frameTable'[g] # q
      BY <1>2, <1>4, <2>1 DEF Leaving, TablesAgree
    <3> QED
      BY <1>1, <3>1, <3>2 DEF NoFrame
  <2>2. CASE ~Leaving(f, q)
    <3>1. pageTable'[q] = pageTable[q]
      BY <1>4, <2>2 DEF Miss, TableAfterFault
    <3>2. \A g \in Frames : frameTable'[g] = q <=> frameTable[g] = q
      BY <1>2, <1>4, <2>2 DEF Leaving
    <3> QED
      BY <3>1, <3>2 DEF TablesAgree
  <2> QED
    BY <2>1, <2>2
<1>5. /\ pageTable'[p].isLoaded <=> pageTable'[p].frameNo # NoFrame
      /\ \A g \in Frames : pageTable'[p].frameNo = g <=> frameTable'[g] = p
  BY <1>1, <1>2, <1>3 DEF Miss, NoFrame
<1> QED
  BY <1>4, <1>5 DEF TablesAgree

\* A miss for p changes no other page: neither what is in it, nor that it may
\* be dropped when it is clean.
LEMMA MissKeepsOthers ==
    ASSUME TypeOK, TablesAgree, CleanIsSwapped,
           NEW f \in Frames, NEW p \in Pages, Miss(f, p),
           NEW q \in Pages, q # p
    PROVE  /\ Contents(q)' = Contents(q)
           /\ pageTable'[q].size = pageTable[q].size
           /\ pageTable'[q].isLoaded /\ ~pageTable'[q].isDirty
                => Prefix(physicalMemory'[pageTable'[q].frameNo], pageTable'[q].size)
                     = Prefix(swapSpace'[q], pageTable'[q].size)
<1>1. q # -1 /\ \A g \in Frames : g # -1
  BY ConstAssumption DEF ConstAssumption, Pages, Frames
<1>2. pageTable[q].size \in 0..PageSize
  BY DEF TypeOK, Page
<1>3. CASE Leaving(f, q)
  <2>1. pageTable[q].isLoaded /\ pageTable[q].frameNo = f
    BY <1>1, <1>3 DEF Leaving, TablesAgree, NoFrame
  <2>2. ~pageTable'[q].isLoaded /\ pageTable'[q].size = pageTable[q].size
    BY <1>3, LeftEntry
  <2>3. Prefix(swapSpace'[q], pageTable[q].size)
          = Prefix(physicalMemory[f], pageTable[q].size)
    <3>1. CASE pageTable[q].isDirty
      <4>1. swapSpace'[q] = Copy(swapSpace[q], physicalMemory[f], pageTable[q].size)
        BY <1>3, <3>1 DEF Miss, WrittenBack
      <4>2. swapSpace[q] \in [Offsets -> Byte] /\ physicalMemory[f] \in [Offsets -> Byte]
        BY DEF TypeOK
      <4> QED
        BY <4>1, <4>2, <1>2, CopyIsCell
    <3>2. CASE ~pageTable[q].isDirty
      <4>1. swapSpace'[q] = swapSpace[q]
        BY <3>2 DEF Miss, WrittenBack
      <4> QED
        BY <4>1, <3>2, <2>1 DEF CleanIsSwapped
    <3> QED
      BY <3>1, <3>2
  <2> QED
    BY <2>1, <2>2, <2>3 DEF Contents
<1>4. CASE ~Leaving(f, q)
  <2>1. pageTable'[q] = pageTable[q]
    BY <1>4 DEF Miss, TableAfterFault
  <2>2. swapSpace'[q] = swapSpace[q]
    BY <1>4 DEF Miss, WrittenBack
  <2>3. ASSUME pageTable[q].isLoaded
        PROVE  physicalMemory'[pageTable[q].frameNo]
                 = physicalMemory[pageTable[q].frameNo]
    <3>1. pageTable[q].frameNo \in Frames /\ pageTable[q].frameNo # f
      BY <1>4, <2>3 DEF Leaving, TablesAgree, TypeOK, Page
    <3> QED
      BY <3>1 DEF Miss, TypeOK
  <2> QED
    BY <2>1, <2>2, <2>3 DEF Contents, CleanIsSwapped
<1> QED
  BY <1>3, <1>4

\* A read brings in what p had, and shows it.
LEMMA ReadMissContents ==
    ASSUME TypeOK, TablesAgree, NEW f \in Frames, NEW p \in Pages,
           ReadMiss(p, f)
    PROVE  /\ shown' = Contents(p) /\ Contents(p)' = Contents(p)
           /\ pageTable'[p].size = pageTable[p].size
           /\ Prefix(physicalMemory'[f], pageTable[p].size)
                = Prefix(swapSpace'[p], pageTable[p].size)
<1>1. pageTable[p].size \in 0..PageSize /\ ~pageTable[p].isLoaded
  BY DEF TypeOK, Page, ReadMiss, Fault
<1>2. swapSpace'[p] = swapSpace[p] /\ WrittenBack(f)[p] = swapSpace[p]
  <2>1. ~Leaving(f, p)
    BY <1>1, ConstAssumption
       DEF ConstAssumption, TablesAgree, Leaving, NoFrame, Frames
  <2> QED
    BY <2>1 DEF ReadMiss, Fault, WrittenBack
<1>3. Prefix(LoadedBytes(f, p), pageTable[p].size)
        = Prefix(swapSpace[p], pageTable[p].size)
  <2>1. Cleared(f) \in [Offsets -> Byte] /\ swapSpace[p] \in [Offsets -> Byte]
    BY ClearedIsCell DEF TypeOK
  <2> QED
    BY <1>1, <1>2, <2>1, CopyIsCell DEF LoadedBytes
<1>4. physicalMemory'[f] = LoadedBytes(f, p)
  BY DEF ReadMiss, TypeOK
<1>5. /\ pageTable'[p].frameNo = f /\ pageTable'[p].isLoaded
      /\ pageTable'[p].size = pageTable[p].size
  <2>1. pageTable'[p] = [pageTable[p] EXCEPT !.frameNo = f, !.isLoaded = TRUE,
                           !.isDirty = FALSE, !.firstEntry = Now,
                           !.lastAccessed = Now]
    BY DEF ReadMiss, TableAfterFault
  <2>2. pageTable[p] \in Page
    BY DEF TypeOK
  <2> QED
    BY <2>1, <2>2 DEF Page
<1> QED
  BY <1>1, <1>2, <1>3, <1>4, <1>5 DEF ReadMiss, Contents

\* After a miss for a write p holds the text, and is dirty.
LEMMA WriteMissContents ==
    ASSUME TypeOK, NEW f \in Frames, NEW p \in Pages,
           NEW text \in Texts, NEW image \in Images(text),
           WriteMiss(p, f, text, image)
    PROVE  /\ shown' = Store!Cut(text) /\ Contents(p)' = Store!Cut(text)
           /\ pageTable'[p].isDirty
           /\ pageTable'[p].size \in 1..PageSize
<1> DEFINE T == TableAfterFault(f, p)
<1>1. T \in [Pages -> Page]
  BY FaultIsTable
<1>2. pageTable' = [T EXCEPT ![p].size = UsedSize(text), ![p].isDirty = TRUE]
  BY DEF WriteMiss
<1> HIDE DEF T
<1>3. pageTable'[p].size = UsedSize(text) /\ pageTable'[p].isDirty
  BY <1>1, <1>2 DEF Page
<1>4. pageTable'[p].isLoaded /\ pageTable'[p].frameNo = f
  BY WriteMissIsMiss DEF Miss
<1>5. physicalMemory'[f] = image
  BY DEF WriteMiss, TypeOK
<1> QED
  BY <1>3, <1>4, <1>5, ImagePrefix DEF WriteMiss, Contents

\* A hit leaves the other pages alone; p itself is read or written in place.
LEMMA ReadHitContents ==
    ASSUME TypeOK, TablesAgree, NEW p \in Pages, ReadHit(p)
    PROVE  /\ shown' = Contents(p)
           /\ pageTable' \in [Pages -> Page]
           /\ \A q \in Pages :
                /\ pageTable'[q].frameNo = pageTable[q].frameNo
                /\ pageTable'[q].isLoaded = pageTable[q].isLoaded
                /\ pageTable'[q].isDirty = pageTable[q].isDirty
                /\ pageTable'[q].size = pageTable[q].size
                /\ Contents(q)' = Contents(q)
<1>1. pageTable' = [pageTable EXCEPT ![p].lastAccessed = Now] /\ Now \in Nat
  BY DEF ReadHit, TypeOK, Now
<1>2. pageTable' \in [Pages -> Page]
  BY SMTT(60), <1>1 DEF TypeOK, Page
<1>3. ASSUME NEW q \in Pages
      PROVE  /\ pageTable'[q].frameNo = pageTable[q].frameNo
             /\ pageTable'[q].isLoaded = pageTable[q].isLoaded
             /\ pageTable'[q].isDirty = pageTable[q].isDirty
             /\ pageTable'[q].size = pageTable[q].size
  BY <1>1 DEF TypeOK, Page
<1>4. physicalMemory' = physicalMemory /\ swapSpace' = swapSpace
  BY DEF ReadHit
<1> QED
  BY <1>2, <1>3, <1>4 DEF ReadHit, Contents

\* After a write the page holds the part of the text that fits.
LEMMA WriteHitContents ==
    ASSUME TypeOK, TablesAgree, NEW p \in Pages,
           NEW text \in Texts, NEW image \in Images(text),
           WriteHit(p, text, image)
    PROVE  /\ shown' = Store!Cut(text) /\ Contents(p)' = Store!Cut(text)
           /\ pageTable' \in [Pages -> Page]
           /\ physicalMemory' \in [Frames -> [Offsets -> Byte]]
           /\ pageTable'[p].isDirty
           /\ pageTable'[p].size \in 1..PageSize
           /\ pageTable'[p].frameNo = pageTable[p].frameNo
           /\ pageTable'[p].isLoaded = pageTable[p].isLoaded
           /\ \A q \in Pages \ {p} :
                /\ pageTable'[q] = pageTable[q]
                /\ pageTable[q].isLoaded
                     => physicalMemory'[pageTable[q].frameNo]
                          = physicalMemory[pageTable[q].frameNo]
                /\ Contents(q)' = Contents(q)
<1>1. /\ pageTable' = [pageTable EXCEPT ![p].size = UsedSize(text),
                                        ![p].isDirty = TRUE,
                                        ![p].lastAccessed = Now]
      /\ Now \in Nat /\ UsedSize(text) \in 1..PageSize
  BY ImagePrefix DEF WriteHit, TypeOK, Now
<1>2. pageTable' \in [Pages -> Page]
  <2>1. pageTable' = [pageTable EXCEPT
                        ![p] = [pageTable[p] EXCEPT !.size = UsedSize(text),
                                  !.isDirty = TRUE, !.lastAccessed = Now]]
    BY <1>1 DEF TypeOK
  <2>2. [pageTable[p] EXCEPT !.size = UsedSize(text), !.isDirty = TRUE,
           !.lastAccessed = Now] \in Page
    <3>1. pageTable[p] \in Page /\ UsedSize(text) \in 0..PageSize
      BY <1>1, ConstAssumption DEF ConstAssumption, TypeOK
    <3> QED
      BY <1>1, <3>1 DEF Page
  <2> QED
    BY <2>1, <2>2 DEF TypeOK
<1>3. /\ pageTable'[p].isDirty /\ pageTable'[p].size = UsedSize(text)
      /\ pageTable'[p].frameNo = pageTable[p].frameNo
      /\ pageTable'[p].isLoaded = pageTable[p].isLoaded
  BY <1>1 DEF TypeOK, Page
<1>4. pageTable[p].isLoaded /\ pageTable[p].frameNo \in Frames
  BY DEF WriteHit, TablesAgree, TypeOK, Page
<1>5. physicalMemory' = [physicalMemory EXCEPT ![pageTable[p].frameNo] = image]
  BY DEF WriteHit
<1>6. physicalMemory' \in [Frames -> [Offsets -> Byte]]
  BY <1>4, <1>5, ImagePrefix DEF TypeOK
<1>7. ASSUME NEW q \in Pages \ {p}
      PROVE  /\ pageTable'[q] = pageTable[q]
             /\ pageTable[q].isLoaded
                  => physicalMemory'[pageTable[q].frameNo]
                       = physicalMemory[pageTable[q].frameNo]
             /\ Contents(q)' = Contents(q)
  <2>1. pageTable'[q] = pageTable[q]
    BY <1>1 DEF TypeOK
  <2>2. ASSUME pageTable[q].isLoaded
        PROVE  physicalMemory'[pageTable[q].frameNo]
                 = physicalMemory[pageTable[q].frameNo]
    <3>1. pageTable[q].frameNo \in Frames
      BY <2>2 DEF TablesAgree, TypeOK, Page
    <3>2. pageTable[q].frameNo # pageTable[p].frameNo
      BY <1>4, <3>1 DEF TablesAgree
    <3> QED
      BY <1>5, <3>1, <3>2 DEF TypeOK
  <2>3. swapSpace' = swapSpace
    BY DEF WriteHit
  <2> QED
    BY <2>1, <2>2, <2>3 DEF Contents
<1>8. physicalMemory'[pageTable[p].frameNo] = image
  BY <1>4, <1>5 DEF TypeOK
<1>9. shown' = Store!Cut(text) /\ Contents(p)' = Store!Cut(text)
  BY <1>3, <1>4, <1>8, ImagePrefix DEF WriteHit, Contents
<1> QED
  BY <1>1, <1>2, <1>3, <1>6, <1>7, <1>9

-----------------------------------------------------------------------------
(* The inductive invariant                                                 *)

\* The invariant holds at the start.
LEMMA InitHasIInv == Init => IInv
<1> SUFFICES ASSUME Init PROVE IInv
  OBVIOUS
<1>1. NoFrame \in Frames \cup {NoFrame} /\ 0 \in 0..PageSize
  BY ConstAssumption DEF ConstAssumption
<1>2. TypeOK
  BY <1>1, ConstAssumption DEF ConstAssumption, Init, TypeOK, Page
<1>3. \A f \in Frames, p \in Pages : f # -1 /\ p # -1
  BY ConstAssumption DEF ConstAssumption, Pages, Frames
<1>4. TablesAgree
  BY <1>3 DEF Init, TablesAgree, NoFrame, NoPage
<1> QED
  BY <1>2, <1>4 DEF Init, IInv, CleanIsSwapped, WrittenHasBytes

\* The types a miss keeps, apart from the generator's array.
LEMMA MissKeepsTypes ==
    ASSUME TypeOK, NEW f \in Frames, NEW p \in Pages, Miss(f, p)
    PROVE  /\ frameTable' \in [Frames -> Pages \cup {NoPage}]
           /\ physicalMemory' \in [Frames -> [Offsets -> Byte]]
           /\ swapSpace' \in [Pages -> [Offsets -> Byte]]
<1>1. swapSpace' \in [Pages -> [Offsets -> Byte]]
  BY WrittenBackIsCells DEF Miss
<1>2. physicalMemory' \in [Frames -> [Offsets -> Byte]]
  BY DEF Miss, TypeOK
<1> QED
  BY <1>1, <1>2 DEF Miss, TypeOK

\* A read of a loaded page keeps the invariant.
LEMMA ReadHitKeepsIInv ==
    ASSUME IInv, NEW p \in Pages, ReadHit(p)
    PROVE  IInv'
<1> USE DEF IInv
<1>1. UNCHANGED <<frameTable, physicalMemory, swapSpace, pageWrittenStatus,
                  numPageFaults>> /\ numPageAccess' = numPageAccess + 1
  BY DEF ReadHit, Request
<1>2. TypeOK'
  BY <1>1, ReadHitContents DEF TypeOK
<1>3. TablesAgree'
  BY <1>1, ReadHitContents DEF TablesAgree
<1>4. CleanIsSwapped'
  BY <1>1, ReadHitContents DEF CleanIsSwapped
<1>5. WrittenHasBytes'
  BY <1>1, ReadHitContents DEF WrittenHasBytes
<1> QED
  BY <1>2, <1>3, <1>4, <1>5

\* So does a write to a loaded page,
LEMMA WriteHitKeepsIInv ==
    ASSUME IInv, NEW p \in Pages, NEW text \in Texts, NEW image \in Images(text),
           WriteHit(p, text, image)
    PROVE  IInv'
<1> USE DEF IInv
<1>1. /\ UNCHANGED <<frameTable, swapSpace, numPageFaults>>
      /\ numPageAccess' = numPageAccess + 1
      /\ pageWrittenStatus' = [pageWrittenStatus EXCEPT ![p] = TRUE]
  BY DEF WriteHit, Request
<1>2. TypeOK'
  BY <1>1, WriteHitContents DEF TypeOK
<1>3. TablesAgree'
  <2>1. \A q \in Pages : /\ pageTable'[q].frameNo = pageTable[q].frameNo
                         /\ pageTable'[q].isLoaded = pageTable[q].isLoaded
    BY WriteHitContents
  <2> QED
    BY <1>1, <2>1 DEF TablesAgree
<1>4. CleanIsSwapped'
  BY <1>1, WriteHitContents DEF CleanIsSwapped
<1>5. WrittenHasBytes'
  <2>1. \A q \in Pages \ {p} : pageWrittenStatus'[q] = pageWrittenStatus[q]
    BY <1>1 DEF TypeOK
  <2>2. pageTable'[p].size # 0
    BY WriteHitContents, ConstAssumption DEF ConstAssumption
  <2> QED
    BY <2>1, <2>2, WriteHitContents DEF WrittenHasBytes
<1> QED
  BY <1>2, <1>3, <1>4, <1>5

\* a read of a page that is not loaded,
LEMMA ReadMissKeepsIInv ==
    ASSUME IInv, NEW p \in Pages, NEW f \in Frames, ReadMiss(p, f)
    PROVE  IInv'
<1> USE DEF IInv
<1>1. Miss(f, p)
  BY ReadMissIsMiss
<1>2. /\ numPageFaults' = numPageFaults + 1
      /\ numPageAccess' = numPageAccess + 1
      /\ pageWrittenStatus' = pageWrittenStatus
  BY DEF ReadMiss, Fault, Request
<1>3. TypeOK'
  <2>1. pageTable' \in [Pages -> Page]
    BY <1>1 DEF Miss
  <2> QED
    BY <1>1, <1>2, <2>1, MissKeepsTypes DEF TypeOK
<1>4. TablesAgree'
  BY <1>1, MissKeepsTables
<1>5. CleanIsSwapped'
  <2>1. Prefix(physicalMemory'[pageTable'[p].frameNo], pageTable'[p].size)
          = Prefix(swapSpace'[p], pageTable'[p].size)
    <3>1. pageTable'[p].frameNo = f
      BY <1>1 DEF Miss
    <3> QED
      BY <3>1, ReadMissContents
  <2> QED
    BY <1>1, <2>1, MissKeepsOthers DEF CleanIsSwapped
<1>6. WrittenHasBytes'
  BY <1>1, <1>2, MissKeepsOthers, ReadMissContents DEF WrittenHasBytes
<1> QED
  BY <1>3, <1>4, <1>5, <1>6

\* a write to one,
LEMMA WriteMissKeepsIInv ==
    ASSUME IInv, NEW p \in Pages, NEW f \in Frames,
           NEW text \in Texts, NEW image \in Images(text),
           WriteMiss(p, f, text, image)
    PROVE  IInv'
<1> USE DEF IInv
<1>1. Miss(f, p)
  BY WriteMissIsMiss
<1>2. /\ numPageFaults' = numPageFaults + 1
      /\ numPageAccess' = numPageAccess + 1
      /\ pageWrittenStatus' = [pageWrittenStatus EXCEPT ![p] = TRUE]
  BY DEF WriteMiss, Fault, Request
<1>3. TypeOK'
  <2>1. pageTable' \in [Pages -> Page]
    BY <1>1 DEF Miss
  <2>2. pageWrittenStatus' \in [Pages -> BOOLEAN]
    BY <1>2 DEF TypeOK
  <2>3. numPageFaults' \in Nat /\ numPageAccess' \in Nat
    BY <1>2 DEF TypeOK
  <2> QED
    BY <1>1, <2>1, <2>2, <2>3, MissKeepsTypes DEF TypeOK
<1>4. TablesAgree'
  BY <1>1, MissKeepsTables
<1>5. CleanIsSwapped'
  BY <1>1, MissKeepsOthers, WriteMissContents DEF CleanIsSwapped
<1>6. WrittenHasBytes'
  <2>1. \A q \in Pages \ {p} : pageWrittenStatus'[q] = pageWrittenStatus[q]
    BY <1>2 DEF TypeOK
  <2>2. pageTable'[p].size # 0
    BY WriteMissContents, ConstAssumption DEF ConstAssumption
  <2> QED
    BY <1>1, <2>1, <2>2, MissKeepsOthers DEF WrittenHasBytes
<1> QED
  BY <1>3, <1>4, <1>5, <1>6

\* and so every step.
LEMMA NextKeepsIInv == IInv /\ [Next]_vars => IInv'
<1> SUFFICES ASSUME IInv, [Next]_vars PROVE IInv'
  OBVIOUS
<1>1. ASSUME NEW p \in Pages, Read(p) PROVE IInv'
  BY <1>1, ReadHitKeepsIInv, ReadMissKeepsIInv DEF Read
<1>2. ASSUME NEW p \in Pages, NEW text \in Texts, Write(p, text) PROVE IInv'
  BY <1>2, WriteHitKeepsIInv, WriteMissKeepsIInv DEF Write
<1>3. CASE UNCHANGED vars
  BY <1>3 DEF vars, IInv, TypeOK, TablesAgree, CleanIsSwapped, WrittenHasBytes
<1> QED
  BY <1>1, <1>2, <1>3 DEF Next

\* Every state of the paging system satisfies the inductive invariant.
THEOREM Invariance == Spec => []IInv
  BY InitHasIInv, NextKeepsIInv, PTL DEF Spec

\* The page table and the frame table are inverses of each other, whatever
\* the algorithm.
THEOREM TablesInverse == Spec => []TablesAgree
  BY Invariance, PTL DEF IInv

\* A clean page in memory is in the swap space as well: to drop it is safe.
THEOREM CleanPagesSafe == Spec => []CleanIsSwapped
  BY Invariance, PTL DEF IInv

-----------------------------------------------------------------------------
(* The refinement                                                          *)

\* Every request is a read or a write of the page store: what is read is what
\* was last written, through every eviction.
THEOREM StoreRefinement == Spec => ImplementsStore
<1>1. Init => Store!Init
  <2> SUFFICES ASSUME Init PROVE Store!Init
    OBVIOUS
  <2>1. ASSUME NEW p \in Pages PROVE Contents(p) = <<>>
    BY DEF Init, Contents, Prefix
  <2>2. [p \in Pages |-> Contents(p)] = [p \in Pages |-> <<>>]
    BY <2>1
  <2> QED
    BY <2>2 DEF Init, Store!Init
<1>2. ASSUME IInv, [Next]_vars PROVE [Store!Next]_(Store!vars)
  <2> USE <1>2 DEF IInv
  <2>1. ASSUME NEW p \in Pages, pageWrittenStatus[p] PROVE Contents(p) # <<>>
    <3>1. pageTable[p].size \in Nat \ {0}
      BY <2>1, ConstAssumption DEF ConstAssumption, WrittenHasBytes, TypeOK, Page
    <3> QED
      BY <3>1 DEF Contents, Prefix
  <2>2. ASSUME NEW p \in Pages, Read(p) PROVE Store!Read(p)
    <3>1. pageWrittenStatus[p]
      BY <2>2 DEF Read, ReadHit, ReadMiss, MayRead
    <3>2. shown' = Contents(p) /\ \A q \in Pages : Contents(q)' = Contents(q)
      <4>1. CASE ReadHit(p)
        BY <4>1, ReadHitContents
      <4>2. ASSUME NEW f \in Frames, ReadMiss(p, f)
            PROVE  shown' = Contents(p) /\ \A q \in Pages : Contents(q)' = Contents(q)
        <5>1. Miss(f, p)
          BY <4>2, ReadMissIsMiss
        <5> QED
          BY <4>2, <5>1, MissKeepsOthers, ReadMissContents
      <4> QED
        BY <2>2, <4>1, <4>2 DEF Read
    <3> QED
      BY <2>1, <3>1, <3>2 DEF Store!Read
  <2>3. ASSUME NEW p \in Pages, NEW text \in Texts, Write(p, text)
        PROVE  Store!Write(p, text)
    <3>1. /\ shown' = Store!Cut(text) /\ Contents(p)' = Store!Cut(text)
          /\ \A q \in Pages \ {p} : Contents(q)' = Contents(q)
      <4>1. ASSUME NEW image \in Images(text), WriteHit(p, text, image)
            PROVE  /\ shown' = Store!Cut(text) /\ Contents(p)' = Store!Cut(text)
                   /\ \A q \in Pages \ {p} : Contents(q)' = Contents(q)
        BY <4>1, WriteHitContents
      <4>2. ASSUME NEW image \in Images(text), NEW f \in Frames,
                   WriteMiss(p, f, text, image)
            PROVE  /\ shown' = Store!Cut(text) /\ Contents(p)' = Store!Cut(text)
                   /\ \A q \in Pages \ {p} : Contents(q)' = Contents(q)
        <5>1. Miss(f, p)
          BY <4>2, WriteMissIsMiss
        <5> QED
          BY <4>2, <5>1, MissKeepsOthers, WriteMissContents
      <4> QED
        BY <2>3, <4>1, <4>2 DEF Write
    <3> QED
      BY <3>1 DEF Store!Write
  <2>4. CASE UNCHANGED vars
    BY <2>4 DEF vars, Store!vars, Contents
  <2> QED
    BY <2>2, <2>3, <2>4 DEF Next, Store!Next
<1> QED
  BY <1>1, <1>2, Invariance, PTL DEF Spec, ImplementsStore, Store!Spec
-----------------------------------------------------------------------------
(* The time stamps                                                         *)

\* The stamps are in the past, and no two pages in memory share one: a request
\* takes time, and stamps one page.
StampsDiffer ==
    /\ \A p \in Loaded : /\ pageTable[p].firstEntry <= numPageAccess
                         /\ pageTable[p].lastAccessed <= numPageAccess
    /\ \A p, q \in Loaded :
         \/ p = q
         \/ /\ pageTable[p].firstEntry # pageTable[q].firstEntry
            /\ pageTable[p].lastAccessed # pageTable[q].lastAccessed

\* What a request for a page in memory does to the stamps,
Touched(p) ==
    /\ p \in Loaded /\ Loaded' = Loaded
    /\ \A q \in Loaded :
         /\ pageTable'[q].firstEntry = pageTable[q].firstEntry
         /\ pageTable'[q].lastAccessed = IF q = p THEN Now
                                                  ELSE pageTable[q].lastAccessed
    /\ numPageAccess' = Now
    /\ UNCHANGED <<algorithm, numPageFaults>>

\* and one for a page that has to come into frame f.
Entered(p, f) ==
    /\ p \in Pages \ Loaded /\ Target(f)
    /\ Loaded' = {q \in Loaded : ~Leaving(f, q)} \cup {p}
    /\ \A q \in Loaded' :
         /\ pageTable'[q].firstEntry = IF q = p THEN Now
                                                ELSE pageTable[q].firstEntry
         /\ pageTable'[q].lastAccessed = IF q = p THEN Now
                                                  ELSE pageTable[q].lastAccessed
    /\ numPageAccess' = Now
    /\ numPageFaults' = numPageFaults + 1
    /\ UNCHANGED algorithm

\* A hit touches its page.
LEMMA HitTouches ==
    ASSUME TypeOK, NEW p \in Pages, ReadHit(p) \/
           \E text \in Texts : \E image \in Images(text) : WriteHit(p, text, image)
    PROVE  Touched(p)
<1>1. /\ pageTable[p].isLoaded
      /\ numPageAccess' = Now
      /\ UNCHANGED <<algorithm, numPageFaults>>
  BY DEF ReadHit, WriteHit, Request, Now
<1>2. ASSUME NEW q \in Pages
      PROVE  /\ pageTable'[q].isLoaded = pageTable[q].isLoaded
             /\ pageTable'[q].firstEntry = pageTable[q].firstEntry
             /\ pageTable'[q].lastAccessed = IF q = p THEN Now
                                                      ELSE pageTable[q].lastAccessed
  <2>1. CASE q # p
    BY <2>1 DEF ReadHit, WriteHit, TypeOK
  <2>2. CASE q = p /\ ReadHit(p)
    BY <2>2 DEF ReadHit, TypeOK, Page
  <2>3. ASSUME q = p, NEW text \in Texts, NEW image \in Images(text),
               WriteHit(p, text, image)
        PROVE  pageTable'[q] = [pageTable[q] EXCEPT !.size = UsedSize(text),
                                  !.isDirty = TRUE, !.lastAccessed = Now]
    BY <2>3 DEF WriteHit, TypeOK
  <2>4. pageTable[q] \in Page
    BY DEF TypeOK
  <2> QED
    BY <2>1, <2>2, <2>3, <2>4 DEF Page
<1> QED
  BY <1>1, <1>2 DEF Touched, Loaded

\* A miss brings its page in.
LEMMA MissEnters ==
    ASSUME TypeOK, NEW p \in Pages, NEW f \in Frames, ReadMiss(p, f) \/
           \E text \in Texts : \E image \in Images(text) : WriteMiss(p, f, text, image)
    PROVE  Entered(p, f)
<1> DEFINE T == TableAfterFault(f, p)
<1>1. /\ ~pageTable[p].isLoaded /\ Target(f)
      /\ numPageAccess' = Now /\ numPageFaults' = numPageFaults + 1
      /\ UNCHANGED algorithm
  BY DEF ReadMiss, WriteMiss, Fault, Request, Now
<1>2. T \in [Pages -> Page]
  BY FaultIsTable
<1>3. /\ T[p].isLoaded /\ T[p].firstEntry = Now /\ T[p].lastAccessed = Now
      /\ \A q \in Pages \ {p} :
           /\ T[q].isLoaded <=> pageTable[q].isLoaded /\ ~Leaving(f, q)
           /\ T[q].firstEntry = pageTable[q].firstEntry
           /\ T[q].lastAccessed = pageTable[q].lastAccessed
  <2>1. pageTable \in [Pages -> Page]
    BY DEF TypeOK
  <2>2. T[p].isLoaded /\ T[p].firstEntry = Now /\ T[p].lastAccessed = Now
    BY <2>1 DEF TableAfterFault, Page
  <2>3. ASSUME NEW q \in Pages \ {p}
        PROVE  T[q] = IF Leaving(f, q)
                      THEN [pageTable[q] EXCEPT !.frameNo = NoFrame,
                              !.isLoaded = FALSE, !.isDirty = FALSE]
                      ELSE pageTable[q]
    BY DEF TableAfterFault
  <2> HIDE DEF T
  <2>4. ASSUME NEW q \in Pages \ {p}
        PROVE  /\ T[q].isLoaded <=> pageTable[q].isLoaded /\ ~Leaving(f, q)
               /\ T[q].firstEntry = pageTable[q].firstEntry
               /\ T[q].lastAccessed = pageTable[q].lastAccessed
    <3>1. pageTable[q] \in Page
      BY <2>1
    <3>2. CASE Leaving(f, q)
      BY <2>3, <3>1, <3>2 DEF Page
    <3>3. CASE ~Leaving(f, q)
      BY <2>3, <3>3
    <3> QED
      BY <3>2, <3>3
  <2> QED
    BY <2>2, <2>4
<1> HIDE DEF T
<1>4. ASSUME NEW q \in Pages
      PROVE  /\ pageTable'[q].isLoaded = T[q].isLoaded
             /\ pageTable'[q].firstEntry = T[q].firstEntry
             /\ pageTable'[q].lastAccessed = T[q].lastAccessed
  <2>1. CASE ReadMiss(p, f)
    BY <2>1 DEF ReadMiss, T
  <2>2. ASSUME NEW text \in Texts, NEW image \in Images(text),
               WriteMiss(p, f, text, image)
        PROVE  pageTable' = [T EXCEPT ![p].size = UsedSize(text), ![p].isDirty = TRUE]
    BY <2>2 DEF WriteMiss, T
  <2>3. ASSUME NEW text \in Texts,
               pageTable' = [T EXCEPT ![p].size = UsedSize(text), ![p].isDirty = TRUE]
        PROVE  /\ pageTable'[q].isLoaded = T[q].isLoaded
               /\ pageTable'[q].firstEntry = T[q].firstEntry
               /\ pageTable'[q].lastAccessed = T[q].lastAccessed
    BY <1>2, <2>3 DEF Page
  <2> QED
    BY <2>1, <2>2, <2>3
<1>5. Loaded' = {q \in Loaded : ~Leaving(f, q)} \cup {p}
  BY <1>1, <1>3, <1>4 DEF Loaded
<1>6. \A q \in Loaded' :
        /\ pageTable'[q].firstEntry = IF q = p THEN Now
                                               ELSE pageTable[q].firstEntry
        /\ pageTable'[q].lastAccessed = IF q = p THEN Now
                                                 ELSE pageTable[q].lastAccessed
  BY <1>3, <1>4 DEF Loaded
<1> QED
  BY <1>1, <1>5, <1>6 DEF Entered, Loaded

\* Every request does one or the other.
LEMMA RequestStamps ==
    ASSUME TypeOK, Next
    PROVE  \E p \in Pages : Touched(p) \/ \E f \in Frames : Entered(p, f)
<1>1. ASSUME NEW p \in Pages, Read(p)
      PROVE  Touched(p) \/ \E f \in Frames : Entered(p, f)
  BY <1>1, HitTouches, MissEnters DEF Read
<1>2. ASSUME NEW p \in Pages, NEW text \in Texts, Write(p, text)
      PROVE  Touched(p) \/ \E f \in Frames : Entered(p, f)
  BY <1>2, HitTouches, MissEnters DEF Write
<1> QED
  BY <1>1, <1>2 DEF Next

\* So the stamps stay apart.
LEMMA NextKeepsStamps == TypeOK /\ StampsDiffer /\ [Next]_vars => StampsDiffer'
<1> SUFFICES ASSUME TypeOK, StampsDiffer, [Next]_vars PROVE StampsDiffer'
  OBVIOUS
<1>1. Now = numPageAccess + 1 /\ numPageAccess \in Nat
  BY DEF Now, TypeOK
<1>2. \A q \in Loaded : q \in Pages /\ pageTable[q].firstEntry \in Nat
                                    /\ pageTable[q].lastAccessed \in Nat
  BY DEF Loaded, TypeOK, Page
<1>3. ASSUME NEW p \in Pages, Touched(p) PROVE StampsDiffer'
  BY <1>1, <1>2, <1>3 DEF Touched, StampsDiffer
<1>4. ASSUME NEW p \in Pages, NEW f \in Frames, Entered(p, f) PROVE StampsDiffer'
  <2>1. \A q \in Loaded' : q = p \/ q \in Loaded
    BY <1>4 DEF Entered
  <2> QED
    BY <1>1, <1>2, <1>4, <2>1 DEF Entered, StampsDiffer
<1>5. CASE UNCHANGED vars
  BY <1>5 DEF vars, StampsDiffer, Loaded
<1> QED
  BY <1>3, <1>4, <1>5, RequestStamps

\* No two pages in memory ever have the same time stamp.
THEOREM StampsAreDistinct == Spec => []StampsDiffer
<1>1. Init => StampsDiffer
  BY DEF Init, StampsDiffer, Loaded
<1>2. IInv => TypeOK
  BY DEF IInv
<1> QED
  BY <1>1, <1>2, Invariance, NextKeepsStamps, PTL DEF Spec

-----------------------------------------------------------------------------
(* Pages in the order of their time stamps                                 *)

\* The values of f on the finite set S are numbers, and no two are equal.
Distinct(S, f) == /\ IsFiniteSet(S)
                  /\ \A p \in S : f[p] \in Nat
                  /\ \A p, q \in S : f[p] = f[q] => p = q

\* Two stampings agree on S, and x has a larger stamp than all of S.
Agree(S, f, g) == \A q \in S : g[q] = f[q]
Newest(S, g, x) == g[x] \in Nat /\ \A q \in S : g[q] < g[x]

\* A name for Append, which the provers would unfold in every fact they see.
Enqueue(s, x) == Append(s, x)

\* A rank is a position, and a larger value has a larger rank.
LEMMA RankGrows ==
    ASSUME NEW S, NEW f, Distinct(S, f), NEW p \in S
    PROVE  /\ Rank(S, f, p) \in 1..Cardinality(S)
           /\ \A q \in S : f[q] < f[p] => Rank(S, f, q) < Rank(S, f, p)
<1> DEFINE Upto(q) == {r \in S : f[r] <= f[q]}
<1>1. ASSUME NEW q \in S
      PROVE  /\ IsFiniteSet(Upto(q)) /\ Cardinality(Upto(q)) \in Nat
             /\ Cardinality(Upto(q)) <= Cardinality(S)
  <2>1. IsFiniteSet(S) /\ Upto(q) \in SUBSET S
    BY DEF Distinct
  <2>2. IsFiniteSet(Upto(q)) /\ Cardinality(Upto(q)) <= Cardinality(S)
    BY <2>1, FS_Subset
  <2> QED
    BY <2>2, FS_CardinalityType
<1>2. Cardinality(Upto(p)) # 0
  <2>1. p \in Upto(p)
    BY DEF Distinct
  <2> QED
    BY <1>1, <2>1, FS_EmptySet
<1>3. ASSUME NEW q \in S, f[q] < f[p]
      PROVE  Cardinality(Upto(q)) < Cardinality(Upto(p))
  <2>1. Upto(q) \in SUBSET Upto(p) /\ p \in Upto(p) /\ p \notin Upto(q)
    BY <1>3 DEF Distinct
  <2>2. /\ Cardinality(Upto(q)) <= Cardinality(Upto(p))
        /\ Cardinality(Upto(p)) # Cardinality(Upto(q))
    BY <1>1, <2>1, FS_Subset
  <2> QED
    BY <1>1, <2>2
<1>4. Cardinality(S) \in Nat
  BY FS_CardinalityType DEF Distinct
<1>5. \A q \in S : Rank(S, f, q) = Cardinality(Upto(q))
  BY DEF Rank
<1> HIDE DEF Upto
<1> QED
  BY <1>1, <1>2, <1>3, <1>4, <1>5

\* The order lists the elements, each at its rank.
LEMMA OrderHasRanks ==
    ASSUME NEW S, NEW f, Distinct(S, f)
    PROVE  /\ Cardinality(S) \in Nat
           /\ Order(S, f) \in Seq(S) /\ Len(Order(S, f)) = Cardinality(S)
           /\ \A k \in 1..Cardinality(S) :
                Order(S, f)[k] \in S /\ Rank(S, f, Order(S, f)[k]) = k
           /\ \A p \in S : Order(S, f)[Rank(S, f, p)] = p
<1> DEFINE n == Cardinality(S)
           g == [p \in S |-> Rank(S, f, p)]
<1>1. IsFiniteSet(S) /\ n \in Nat
  BY FS_CardinalityType DEF Distinct
<1>2. \A p \in S : g[p] \in 1..n
  BY RankGrows
<1>3. \A p, q \in S : g[p] = g[q] => p = q
  <2> SUFFICES ASSUME NEW p \in S, NEW q \in S, p # q PROVE g[p] # g[q]
    OBVIOUS
  <2>1. f[p] \in Nat /\ f[q] \in Nat /\ f[p] # f[q]
    BY DEF Distinct
  <2>2. Rank(S, f, p) \in 1..n /\ Rank(S, f, q) \in 1..n
    BY RankGrows
  <2>3. CASE f[p] < f[q]
    BY <2>2, <2>3, RankGrows
  <2>4. CASE f[q] < f[p]
    BY <2>2, <2>4, RankGrows
  <2> QED
    BY <2>1, <2>3, <2>4
<1>4. \A k \in 1..n : \E p \in S : g[p] = k
  <2>1. g \in Injection(S, 1..n)
    BY <1>2, <1>3, Fun_IsInj
  <2>2. IsFiniteSet(1..n) /\ Cardinality(1..n) = n
    BY <1>1, FS_Interval
  <2>3. g \in Surjection(S, 1..n)
    BY <2>1, <2>2, FS_Injection
  <2> QED
    BY <2>3 DEF Surjection
<1>5. ASSUME NEW k \in 1..n
      PROVE  Order(S, f)[k] \in S /\ Rank(S, f, Order(S, f)[k]) = k
  <2>1. Order(S, f)[k] = CHOOSE p \in S : Rank(S, f, p) = k
    BY <1>5 DEF Order
  <2>2. \E p \in S : Rank(S, f, p) = k
    BY <1>4
  <2> HIDE DEF n
  <2> QED
    BY <2>1, <2>2
<1>6. Order(S, f) \in Seq(S) /\ Len(Order(S, f)) = n
  <2>1. Order(S, f) \in [1..n -> S]
    BY <1>5 DEF Order
  <2> QED
    BY <1>1, <2>1
<1>7. \A p \in S : Order(S, f)[Rank(S, f, p)] = p
  BY <1>2, <1>3, <1>5
<1> QED
  BY <1>1, <1>5, <1>6, <1>7

\* It is the only list that does.
LEMMA OrderIsOnly ==
    ASSUME NEW S, NEW f, Distinct(S, f), NEW s \in Seq(S),
           Len(s) = Cardinality(S),
           \A k \in 1..Cardinality(S) : Rank(S, f, s[k]) = k
    PROVE  s = Order(S, f)
<1>1. \A k \in 1..Cardinality(S) : s[k] \in S
  BY OrderHasRanks
<1>2. \A k \in 1..Cardinality(S) : s[k] = Order(S, f)[k]
  BY <1>1, OrderHasRanks
<1> QED
  BY <1>2, OrderHasRanks

\* Who takes an element out takes one out of the list,
LEMMA OrderShrinks ==
    ASSUME NEW S, NEW f, Distinct(S, f), NEW x \in S,
           NEW g, Agree(S \ {x}, f, g)
    PROVE  /\ Distinct(S \ {x}, g)
           /\ Order(S \ {x}, g) = RemoveAt(Order(S, f), Rank(S, f, x))
<1> DEFINE T == S \ {x}
           n == Cardinality(S)
           s == Order(S, f)
           r == Rank(S, f, x)
           t == [k \in 1..(n - 1) |-> s[IF k < r THEN k ELSE k + 1]]
<1>1. /\ IsFiniteSet(S) /\ n \in Nat /\ r \in 1..n
      /\ \A q \in S : f[q] \in Nat
      /\ \A p, q \in S : f[p] = f[q] => p = q
  BY OrderHasRanks, RankGrows DEF Distinct
<1>2. IsFiniteSet(T) /\ Cardinality(T) = n - 1
  BY <1>1, FS_RemoveElement
<1>3. Distinct(T, g)
  BY <1>1, <1>2 DEF Distinct, Agree, Newest
<1>4. ASSUME NEW p \in T
      PROVE  Rank(T, g, p) = IF f[p] < f[x] THEN Rank(S, f, p)
                                            ELSE Rank(S, f, p) - 1
  <2>1. {q \in T : g[q] <= g[p]} = {q \in S : f[q] <= f[p]} \ {x}
    BY DEF Agree
  <2>2. IsFiniteSet({q \in S : f[q] <= f[p]})
    <3>1. {q \in S : f[q] <= f[p]} \in SUBSET S
      OBVIOUS
    <3> QED BY <1>1, <3>1, FS_Subset
  <2>3. x \in {q \in S : f[q] <= f[p]} <=> ~(f[p] < f[x])
    BY <1>1
  <2> QED
    BY <2>1, <2>2, <2>3, FS_RemoveElement DEF Rank
<1>5. /\ s \in Seq(S) /\ Len(s) = n
      /\ \A k \in 1..n : s[k] \in S /\ Rank(S, f, s[k]) = k
      /\ s[r] = x
  BY OrderHasRanks
<1> HIDE DEF T, n, s, r
<1>6. ASSUME NEW k \in 1..(n - 1)
      PROVE  t[k] \in T /\ Rank(T, g, t[k]) = k
  <2> DEFINE j == IF k < r THEN k ELSE k + 1
  <2>1. j \in 1..n /\ j # r /\ t[k] = s[j]
    BY <1>1
  <2>2. s[j] \in S /\ Rank(S, f, s[j]) = j /\ s[j] # x
    BY <1>5, <2>1 DEF r
  <2>3. f[s[j]] < f[x] <=> j < r
    <3>1. f[s[j]] \in Nat /\ f[x] \in Nat /\ f[s[j]] # f[x]
      BY <1>1, <2>2
    <3>2. f[s[j]] < f[x] => j < r
      BY <2>2, RankGrows DEF r
    <3>3. f[x] < f[s[j]] => r < j
      BY <2>2, RankGrows DEF r
    <3> QED
      BY <1>1, <2>1, <3>1, <3>2, <3>3
  <2>4. s[j] \in T
    BY <2>2 DEF T
  <2>5. Rank(T, g, s[j]) = IF j < r THEN j ELSE j - 1
    BY <1>4, <2>2, <2>3, <2>4
  <2> QED
    BY <1>1, <2>1, <2>4, <2>5
<1>7. t \in Seq(T) /\ Len(t) = n - 1
  <2>1. n - 1 \in Nat
    BY <1>1
  <2>2. t \in [1..(n - 1) -> T]
    BY <1>6
  <2> HIDE DEF t
  <2> QED
    BY <2>1, <2>2
<1>8. t = Order(T, g)
  <2> HIDE DEF t
  <2> QED BY <1>2, <1>3, <1>6, <1>7, OrderIsOnly
<1>9. t = RemoveAt(s, r)
  <2> DEFINE before == SubSeq(s, 1, r - 1)
             after == SubSeq(s, r + 1, n)
  <2>1. /\ before \in Seq(S) /\ Len(before) = r - 1
        /\ \A k \in 1..(r - 1) : before[k] = s[k]
    BY <1>1, <1>5
  <2>2. /\ after \in Seq(S) /\ Len(after) = n - r
        /\ \A k \in 1..(n - r) : after[k] = s[k + r]
    BY <1>1, <1>5
  <2> HIDE DEF before, after
  <2>3. /\ before \o after \in Seq(S) /\ Len(before \o after) = n - 1
        /\ \A k \in 1..(n - 1) :
             (before \o after)[k] = IF k < r THEN before[k] ELSE after[k - r + 1]
    <3>1. before \o after \in Seq(S) /\ Len(before \o after) = n - 1
      <4>1. /\ before \o after \in Seq(S)
            /\ Len(before \o after) = Len(before) + Len(after)
        BY <2>1, <2>2, ConcatProperties
      <4> QED
        BY <1>1, <2>1, <2>2, <4>1
    <3>2. ASSUME NEW k \in 1..(n - 1), k < r PROVE (before \o after)[k] = before[k]
      BY <1>1, <2>1, <2>2, <3>2
    <3>3. ASSUME NEW k \in 1..(n - 1), ~(k < r)
          PROVE  (before \o after)[k] = after[k - r + 1]
      BY <1>1, <2>1, <2>2, <3>3
    <3> HIDE DEF before, after
    <3> QED
      BY <3>1, <3>2, <3>3
  <2>4. \A k \in 1..(n - 1) : t[k] = (before \o after)[k]
    BY <1>1, <2>1, <2>2, <2>3
  <2>5. t \in Seq(S) /\ Len(t) = n - 1
    <3>1. \A k \in 1..(n - 1) : t[k] \in S
      BY <1>6 DEF T
    <3>2. n - 1 \in Nat
      BY <1>1
    <3> QED
      BY <3>1, <3>2
  <2> HIDE DEF t
  <2>6. t = before \o after
    BY <2>3, <2>4, <2>5, SeqEqual
  <2> QED
    BY <1>5, <2>6 DEF RemoveAt, before, after
<1> QED
  BY <1>3, <1>8, <1>9 DEF T, s, r

\* and who adds one that is larger than the others adds it at the end.
LEMMA OrderAppends ==
    ASSUME NEW S, NEW f, Distinct(S, f), NEW x, x \notin S,
           NEW g, Agree(S, f, g), Newest(S, g, x)
    PROVE  /\ Distinct(S \cup {x}, g)
           /\ Order(S \cup {x}, g) = Enqueue(Order(S, f), x)
<1> DEFINE T == S \cup {x}
           n == Cardinality(S)
           s == Order(S, f)
           t == Append(s, x)
<1>1. /\ IsFiniteSet(S) /\ n \in Nat
      /\ \A q \in S : f[q] \in Nat
      /\ \A p, q \in S : f[p] = f[q] => p = q
  BY OrderHasRanks DEF Distinct
<1>2. IsFiniteSet(T) /\ Cardinality(T) = n + 1
  BY <1>1, FS_AddElement
<1>3. Distinct(T, g)
  BY <1>1, <1>2 DEF Distinct, Agree, Newest
<1>4. ASSUME NEW p \in S PROVE Rank(T, g, p) = Rank(S, f, p)
  <2>1. {q \in T : g[q] <= g[p]} = {q \in S : f[q] <= f[p]}
    BY <1>1 DEF Agree, Newest
  <2> QED
    BY <2>1 DEF Rank
<1>5. Rank(T, g, x) = n + 1
  <2>1. {q \in T : g[q] <= g[x]} = T
    BY <1>1 DEF Agree, Newest
  <2> QED
    BY <1>2, <2>1 DEF Rank
<1>6. /\ s \in Seq(S) /\ Len(s) = n
      /\ \A k \in 1..n : s[k] \in S /\ Rank(S, f, s[k]) = k
  BY OrderHasRanks
<1> HIDE DEF T, n, s
<1>7. t \in Seq(T) /\ Len(t) = n + 1
  <2>1. s \in Seq(T) /\ x \in T
    <3>1. S \subseteq T /\ x \in T
      BY DEF T
    <3>2. s \in [1..n -> T]
      BY <1>6, <3>1
    <3> QED
      BY <1>1, <3>1, <3>2
  <2> QED
    BY <1>6, <2>1
<1>8. \A k \in 1..(n + 1) : Rank(T, g, t[k]) = k
  <2> TAKE k \in 1..(n + 1)
  <2>1. CASE k = n + 1
    BY <1>1, <1>5, <1>6, <2>1
  <2>2. CASE k # n + 1
    <3>1. k \in 1..n /\ t[k] = s[k]
      BY <1>1, <1>6, <2>2
    <3> QED
      BY <1>4, <1>6, <3>1
  <2> QED
    BY <2>1, <2>2
<1>9. t = Order(T, g)
  <2> HIDE DEF t
  <2> QED BY <1>2, <1>3, <1>7, <1>8, OrderIsOnly
<1> QED
  BY <1>3, <1>9 DEF T, s, Enqueue

\* The stamps the algorithm compares tell the pages in memory apart.
LEMMA StampsOrder ==
    ASSUME TypeOK, StampsDiffer
    PROVE  /\ Distinct(Loaded, Stamps)
           /\ \A q \in Loaded : Stamps[q] = Stamp(q) /\ Stamp(q) <= numPageAccess
<1>1. IsFiniteSet(Loaded)
  <2>1. IsFiniteSet(Pages)
    BY ConstAssumption, FS_Interval DEF ConstAssumption, Pages
  <2> QED
    BY <2>1, FS_Subset DEF Loaded
<1>2. \A q \in Loaded : Stamp(q) \in Nat
  BY DEF Loaded, Stamp, TypeOK, Page
<1> QED
  BY <1>1, <1>2 DEF Distinct, Stamps, Stamp, StampsDiffer

\* The pages in memory fill the frames that are not free.
LEMMA LoadedFillFrames ==
    ASSUME TypeOK, TablesAgree
    PROVE  /\ IsFiniteSet(Loaded)
           /\ SomeFree => Cardinality(Loaded) < NumFrames
           /\ ~SomeFree => Cardinality(Loaded) = NumFrames
<1> DEFINE frame == [p \in Loaded |-> pageTable[p].frameNo]
<1>1. IsFiniteSet(Frames) /\ Cardinality(Frames) = NumFrames
  BY ConstAssumption, FS_Interval DEF ConstAssumption, Frames
<1>2. \A p \in Loaded : /\ frame[p] \in Frames
                        /\ frameTable[frame[p]] = p
  BY DEF Loaded, TablesAgree, TypeOK, Page
<1>3. frame \in Injection(Loaded, Frames)
  BY <1>2, Fun_IsInj
<1>4. IsFiniteSet(Loaded)
  BY <1>1, <1>3, FS_Injection
<1>5. ASSUME NEW f \in Frames, Free(f) PROVE Cardinality(Loaded) < NumFrames
  <2>1. \A p \in Loaded : frame[p] # f
    <3>1. \A p \in Loaded : p # NoPage
      BY ConstAssumption DEF ConstAssumption, Pages, Loaded, NoPage
    <3> HIDE DEF frame
    <3> QED
      BY <1>2, <1>5, <3>1 DEF Free
  <2>2. frame \in Injection(Loaded, Frames \ {f})
    BY <1>2, <2>1, Fun_IsInj
  <2>3. IsFiniteSet(Frames \ {f}) /\ Cardinality(Frames \ {f}) = NumFrames - 1
    BY <1>1, FS_RemoveElement
  <2>4. Cardinality(Loaded) <= NumFrames - 1
    BY <2>2, <2>3, FS_Injection
  <2> QED
    BY <1>4, <2>4, FS_CardinalityType, ConstAssumption DEF ConstAssumption
<1>6. ASSUME ~SomeFree PROVE Cardinality(Loaded) = NumFrames
  <2>1. ASSUME NEW g \in Frames PROVE \E p \in Loaded : frame[p] = g
    <3>1. frameTable[g] \in Pages
      BY <1>6 DEF SomeFree, Free, TypeOK
    <3>2. pageTable[frameTable[g]].frameNo = g
      BY <3>1 DEF TablesAgree
    <3>3. g # NoFrame
      BY ConstAssumption DEF ConstAssumption, Frames, NoFrame
    <3> QED
      BY <3>1, <3>2, <3>3 DEF TablesAgree, Loaded
  <2>2. frame \in Surjection(Loaded, Frames)
    BY <1>2, <2>1, Fun_IsSurj
  <2> QED
    BY <1>1, <1>3, <2>2, FS_Injection
<1> QED
  BY <1>4, <1>5, <1>6 DEF SomeFree

\* A page with a new stamp goes to the end, whichever place it leaves.
LEMMA MovesToEnd ==
    ASSUME NEW S, NEW f, Distinct(S, f), NEW x \in S, NEW p, p \notin S \ {x},
           NEW g, Agree(S \ {x}, f, g), Newest(S \ {x}, g, p)
    PROVE  Order((S \ {x}) \cup {p}, g) = Enqueue(RemoveAt(Order(S, f), Rank(S, f, x)), p)
<1>1. /\ Distinct(S \ {x}, g)
      /\ Order(S \ {x}, g) = RemoveAt(Order(S, f), Rank(S, f, x))
  BY OrderShrinks
<1>2. Agree(S \ {x}, g, g)
  BY DEF Agree
<1> QED
  BY <1>1, <1>2, OrderAppends

\* The policy removes from its queue as RemoveAt does.
LEMMA PolicyRemoves == \A s, k : Policy!RemoveAt(s, k) = RemoveAt(s, k)
  BY DEF Policy!RemoveAt, RemoveAt

\* A page that is touched is a hit of the policy.
LEMMA TouchIsHit ==
    ASSUME TypeOK, StampsDiffer, NEW p \in Pages, Touched(p)
    PROVE  Policy!Hit(p)
<1> DEFINE s == Order(Loaded, Stamps)
           r == Rank(Loaded, Stamps, p)
<1>1. /\ Distinct(Loaded, Stamps) /\ p \in Loaded
      /\ \A q \in Loaded : Stamps[q] = Stamp(q) /\ Stamp(q) <= numPageAccess
      /\ \A q \in Loaded : Stamp(q) \in Nat
  BY StampsOrder DEF Touched, Loaded, Stamp, TypeOK, Page
<1>2. r \in DOMAIN s /\ s[r] = p
  BY <1>1, RankGrows, OrderHasRanks
<1>3. Order(Loaded, Stamps)' = IF algorithm = "LRU" THEN Enqueue(RemoveAt(s, r), p)
                                                    ELSE s
  <2>1. /\ Loaded' = Loaded
        /\ \A q \in Loaded : Stamps'[q] = IF algorithm = "LRU" /\ q = p THEN Now
                                                                   ELSE Stamps[q]
    BY <1>1 DEF Touched, Stamps, Stamp
  <2>2. CASE algorithm = "LRU"
    <3>1. /\ \A q \in Loaded \ {p} : Stamps'[q] = Stamps[q]
          /\ Stamps'[p] = Now /\ Now \in Nat
          /\ \A q \in Loaded : Stamps[q] < Now
      BY <1>1, <2>1, <2>2 DEF Now, TypeOK
    <3>2. Order((Loaded \ {p}) \cup {p}, Stamps') = Enqueue(RemoveAt(s, r), p)
      <4> DEFINE g == Stamps'
      <4>1. /\ p \notin Loaded \ {p}
            /\ Agree(Loaded \ {p}, Stamps, g) /\ Newest(Loaded \ {p}, g, p)
        BY <3>1 DEF Agree, Newest
      <4> HIDE DEF g
      <4>2. Order((Loaded \ {p}) \cup {p}, g) = Enqueue(RemoveAt(s, r), p)
        BY <1>1, <4>1, MovesToEnd
      <4> QED
        BY <4>2 DEF g
    <3>3. (Loaded \ {p}) \cup {p} = Loaded'
      BY <1>1, <2>1
    <3>4. Order(Loaded', Stamps') = Enqueue(RemoveAt(s, r), p)
      BY <3>2, <3>3
    <3> QED
      BY <2>2, <3>4 DEF Order, Rank
  <2>3. CASE algorithm # "LRU"
    <3>1. Stamps' = Stamps
      BY <2>1, <2>3 DEF Stamps
    <3> QED
      BY <2>1, <2>3, <3>1 DEF Order, Rank
  <2> QED
    BY <2>2, <2>3
<1> HIDE DEF s, r
<1>4. UNCHANGED <<algorithm, numPageFaults>>
  BY DEF Touched
<1> QED
  BY <1>2, <1>3, <1>4, PolicyRemoves, Zenon DEF Policy!Hit, Enqueue, s

\* The page the loop ends with is at the head of the queue.
LEMMA OldestIsHead ==
    ASSUME TypeOK, TablesAgree, StampsDiffer, NEW f \in Frames, Oldest(f),
           frameTable[f] \in Loaded
    PROVE  Rank(Loaded, Stamps, frameTable[f]) = 1
<1>1. ASSUME NEW q \in Loaded PROVE Stamp(frameTable[f]) <= Stamp(q)
  <2>1. \E g \in Frames : frameTable[g] = q
    BY DEF Loaded, TablesAgree, TypeOK, Page
  <2> QED
    BY <2>1 DEF Oldest
<1>2. {q \in Loaded : Stamps[q] <= Stamps[frameTable[f]]} = {frameTable[f]}
  BY <1>1, StampsOrder DEF Distinct
<1> QED
  BY <1>2, FS_Singleton DEF Rank

\* A page that enters is brought in, or replaces another one.
LEMMA EnterIsPolicy ==
    ASSUME TypeOK, TablesAgree, StampsDiffer, NEW p \in Pages, NEW f \in Frames,
           Entered(p, f)
    PROVE  Policy!BringIn(p) \/ Policy!Replace(p)
<1> DEFINE s == Order(Loaded, Stamps)
<1>1. /\ Distinct(Loaded, Stamps) /\ p \notin Loaded
      /\ \A q \in Loaded : Stamps[q] = Stamp(q) /\ Stamp(q) <= numPageAccess
      /\ \A q \in Loaded : Stamp(q) \in Nat
  BY StampsOrder DEF Entered, Loaded, Stamp, TypeOK, Page
<1>2. /\ s \in Seq(Loaded) /\ Len(s) = Cardinality(Loaded)
      /\ Cardinality(Loaded) \in Nat
  BY <1>1, OrderHasRanks
<1>3. /\ \A q \in Loaded' \ {p} : q \in Loaded /\ Stamps'[q] = Stamps[q]
      /\ Stamps'[p] = Now /\ Now \in Nat
      /\ \A q \in Loaded : Stamps[q] < Now
  <2>1. p \in Loaded' /\ \A q \in Loaded' \ {p} : q \in Loaded
    BY DEF Entered
  <2>2. \A q \in Loaded' : Stamps'[q] = IF q = p THEN Now ELSE Stamps[q]
    BY <2>1, <1>1 DEF Entered, Stamps, Stamp
  <2> QED
    BY <1>1, <2>1, <2>2 DEF Now, TypeOK
<1>4. UNCHANGED algorithm /\ numPageFaults' = numPageFaults + 1
  BY DEF Entered
<1>5. ~Policy!IsResident(p)
  <2>1. \A k \in DOMAIN s : s[k] # p
    BY <1>1, <1>2
  <2> QED
    BY <2>1 DEF Policy!IsResident
<1>6. Order(Loaded, Stamps)' = Order(Loaded', Stamps')
  BY DEF Order, Rank
<1>7. CASE FirstFree(f)
  <2>1. Loaded' = Loaded \cup {p}
    <3>1. \A q \in Pages : ~Leaving(f, q)
      BY <1>7, ConstAssumption
         DEF FirstFree, Free, NoPage, Leaving, Pages, ConstAssumption
    <3> QED
      BY <3>1 DEF Entered, Loaded
  <2>2. Order(Loaded \cup {p}, Stamps') = Enqueue(s, p)
    <3> DEFINE g == Stamps'
    <3>1. Agree(Loaded, Stamps, g) /\ Newest(Loaded, g, p)
      BY <1>1, <1>3, <2>1 DEF Agree, Newest
    <3> HIDE DEF g
    <3>2. Order(Loaded \cup {p}, g) = Enqueue(s, p)
      BY <1>1, <3>1, OrderAppends
    <3> QED
      BY <3>2 DEF g
  <2>3. Len(s) < NumFrames
    BY <1>2, <1>7, LoadedFillFrames DEF FirstFree, SomeFree
  <2>4. Order(Loaded, Stamps)' = Enqueue(s, p)
    BY <1>6, <2>1, <2>2
  <2> HIDE DEF s
  <2> QED
    BY <1>4, <1>5, <2>3, <2>4 DEF Policy!BringIn, Enqueue, s
<1>8. CASE Victim(f)
  <2> DEFINE v == frameTable[f]
             r == Rank(Loaded, Stamps, v)
  <2>1. v \in Loaded
    <3>1. v \in Pages
      BY <1>8 DEF Victim, SomeFree, Free, TypeOK
    <3>2. pageTable[v].frameNo = f /\ f # NoFrame
      BY <3>1, ConstAssumption DEF TablesAgree, ConstAssumption, Frames, NoFrame
    <3> QED
      BY <3>1, <3>2 DEF TablesAgree, Loaded
  <2>2. Loaded' = (Loaded \ {v}) \cup {p}
    BY <1>1 DEF Entered, Leaving
  <2>3. r \in DOMAIN s
    BY <1>1, <1>2, <2>1, RankGrows
  <2>4. algorithm # "RANDOM" => r = 1
    BY <1>8, <2>1, OldestIsHead DEF Victim
  <2>5. Order((Loaded \ {v}) \cup {p}, Stamps') = Enqueue(RemoveAt(s, r), p)
    <3> DEFINE g == Stamps'
    <3>1. /\ p \notin Loaded \ {v}
          /\ Agree(Loaded \ {v}, Stamps, g) /\ Newest(Loaded \ {v}, g, p)
      BY <1>1, <1>3, <2>2 DEF Agree, Newest
    <3> HIDE DEF g, v
    <3>2. Order((Loaded \ {v}) \cup {p}, g) = Enqueue(RemoveAt(s, r), p)
      BY <1>1, <2>1, <3>1, MovesToEnd
    <3> QED
      BY <3>2 DEF g, v
  <2>6. Order(Loaded, Stamps)' = Enqueue(RemoveAt(s, r), p)
    BY <1>6, <2>2, <2>5
  <2>7. Len(s) = NumFrames
    BY <1>2, <1>8, LoadedFillFrames DEF Victim
  <2> HIDE DEF s, r
  <2> QED
    BY <1>4, <1>5, <2>3, <2>4, <2>6, <2>7, PolicyRemoves, Zenon
       DEF Policy!Replace, Enqueue, s
<1> QED
  BY <1>7, <1>8 DEF Entered, Target

\* Every request is a step of the policy: with LRU and FIFO the page at the
\* head of the queue is the one that goes, and only when every frame is taken.
THEOREM PolicyRefinement == Spec => ImplementsPolicy
<1>1. Init => Policy!Init
  <2> SUFFICES ASSUME Init PROVE Policy!Init
    OBVIOUS
  <2>1. Loaded = {}
    BY DEF Init, Loaded
  <2>2. Cardinality(Loaded) = 0
    BY <2>1, FS_EmptySet
  <2>3. Order(Loaded, Stamps) = <<>>
    BY <2>2 DEF Order
  <2> QED
    BY <2>3 DEF Init, Policy!Init
<1>2. ASSUME IInv, StampsDiffer, [Next]_vars PROVE [Policy!Next]_(Policy!vars)
  <2> USE <1>2 DEF IInv
  <2>1. CASE Next
    <3>1. PICK p \in Pages : Touched(p) \/ \E f \in Frames : Entered(p, f)
      BY <2>1, RequestStamps
    <3>2. Policy!Hit(p) \/ Policy!BringIn(p) \/ Policy!Replace(p)
      BY <3>1, TouchIsHit, EnterIsPolicy
    <3> QED
      BY <3>2 DEF Policy!Next
  <2>2. CASE UNCHANGED vars
    <3>1. Order(Loaded, Stamps)' = Order(Loaded, Stamps)
      BY <2>2 DEF vars, Order, Rank, Loaded, Stamps, Stamp
    <3> QED
      BY <2>2, <3>1 DEF vars, Policy!vars
  <2> QED
    BY <2>1, <2>2
<1> QED
  BY <1>1, <1>2, Invariance, StampsAreDistinct, PTL
     DEF Spec, ImplementsPolicy, Policy!Spec

-----------------------------------------------------------------------------
(* Memory without paging                                                   *)

\* No byte of the run of n bytes from b on is used.
FreeRun(b, n) == \A c \in b..(b + n - 1) : ~free_bytes[c]

\* The bytes have types, as in every state.
BytesTyped == free_bytes \in [NonPaging!Bytes -> BOOLEAN]

-----------------------------------------------------------------------------
(* First fit                                                               *)

\* The states of the search.
Searches == [hole : SUBSET Int, found : BOOLEAN]

\* One round of the search, at byte j - 1.
Round(size, j, before) ==
    LET fits == Cardinality(before.hole) >= size
    IN  CASE fits -> [before EXCEPT !.found = TRUE]
          [] ~fits /\ free_bytes[j - 1] -> [hole |-> {}, found |-> FALSE]
          [] ~fits /\ ~free_bytes[j - 1] -> [before EXCEPT !.hole = @ \cup {j - 1}]

\* at is the search after each byte.
IsScan(size, at) ==
    at = [j \in 0..MemSize |->
            IF j = 0 THEN [hole |-> {}, found |-> FALSE]
            ELSE LET before == at[j - 1]
                     fits == Cardinality(before.hole) >= size
                 IN  CASE fits -> [before EXCEPT !.found = TRUE]
                       [] ~fits /\ free_bytes[j - 1] -> [hole |-> {}, found |-> FALSE]
                       [] ~fits /\ ~free_bytes[j - 1] -> [before EXCEPT !.hole = @ \cup {j - 1}]]

\* The scan is the last state of such a search.
LEMMA ScanIsEntry ==
    ASSUME NEW size
    PROVE  NonPaging!Scan(size) = (CHOOSE at : IsScan(size, at))[MemSize]
  BY DEF NonPaging!Scan, IsScan, NonPaging!Cardinality, Cardinality,
         NonPaging!IsFiniteSet, IsFiniteSet

\* A round leads from a search to a search.
LEMMA RoundIsSearch ==
    ASSUME BytesTyped, NEW size \in Nat, NEW j \in 1..MemSize, MemSize \in Nat, NEW d \in Searches
    PROVE  Round(size, j, d) \in Searches
<1>1. j - 1 \in NonPaging!Bytes /\ j - 1 \in Int /\ free_bytes[j - 1] \in BOOLEAN
  BY DEF BytesTyped, NonPaging!Bytes
<1>2. CASE Cardinality(d.hole) >= size
  <2>1. Round(size, j, d) = [d EXCEPT !.found = TRUE]
    BY <1>2 DEF Round
  <2> QED BY <2>1 DEF Searches
<1>3. CASE ~(Cardinality(d.hole) >= size) /\ free_bytes[j - 1]
  <2>1. Round(size, j, d) = [hole |-> {}, found |-> FALSE]
    BY <1>3 DEF Round
  <2> QED BY <2>1 DEF Searches
<1>4. CASE ~(Cardinality(d.hole) >= size) /\ ~free_bytes[j - 1]
  <2>1. Round(size, j, d) = [d EXCEPT !.hole = @ \cup {j - 1}]
    BY <1>4 DEF Round
  <2> QED BY <1>1, <2>1 DEF Searches
<1> QED BY <1>2, <1>3, <1>4 DEF Searches

\* The search exists: the recursive function of Scan is well defined.
LEMMA ScanExists ==
    ASSUME BytesTyped, NEW size \in Nat, MemSize \in Nat
    PROVE  LET at == CHOOSE at : IsScan(size, at)
           IN  /\ at[0] = [hole |-> {}, found |-> FALSE]
               /\ \A j \in 1..MemSize : at[j] = Round(size, j, at[j - 1])
<1> DEFINE base == [hole |-> {}, found |-> FALSE]
           step == [j \in 1..MemSize |-> [d \in Searches |-> Round(size, j, d)]]
<1>1. base \in Searches
  BY DEF Searches
<1>2. step \in [1..MemSize -> [Searches -> Searches]]
  BY RoundIsSearch
<1>3. PICK h : Iteration(Searches, base, MemSize, step, h)
  <2> HIDE DEF base, step
  <2> QED BY <1>1, <1>2, IterationExists
<1>4. \A j \in 1..MemSize : h[j] = Round(size, j, h[j - 1])
  <2>1. SUFFICES ASSUME NEW j \in 1..MemSize PROVE h[j] = Round(size, j, h[j - 1])
    OBVIOUS
  <2>2. j - 1 \in 0..MemSize
    OBVIOUS
  <2>3. h[j - 1] \in Searches /\ h[j] = step[j][h[j - 1]]
    BY <1>3, <2>2 DEF Iteration
  <2> HIDE DEF base
  <2> QED BY <2>3
<1>5. IsScan(size, h)
  <2>1. h = [j \in 0..MemSize |-> IF j = 0 THEN base ELSE Round(size, j, h[j - 1])]
    <3>1. h = [j \in 0..MemSize |-> h[j]] /\ h[0] = base
      BY <1>3 DEF Iteration
    <3>2. \A j \in 0..MemSize : h[j] = IF j = 0 THEN base ELSE Round(size, j, h[j - 1])
      <4>1. ASSUME NEW j \in 0..MemSize, j # 0 PROVE j \in 1..MemSize
        BY <4>1
      <4> HIDE DEF base
      <4> QED BY <1>4, <3>1, <4>1
    <3> HIDE DEF base
    <3> QED BY <3>1, <3>2
  <2> QED BY <2>1 DEF IsScan, Round
<1> DEFINE at == CHOOSE at : IsScan(size, at)
<1>6. IsScan(size, at)
  BY <1>5
<1>7. at = [j \in 0..MemSize |-> IF j = 0 THEN base ELSE Round(size, j, at[j - 1])]
  <2> HIDE DEF at
  <2> QED BY <1>6 DEF IsScan, Round
<1> HIDE DEF at
<1>8. at[0] = base /\ \A j \in 1..MemSize : at[j] = Round(size, j, at[j - 1])
  <2> HIDE DEF base
  <2>1. \A j \in 0..MemSize : at[j] = IF j = 0 THEN base ELSE Round(size, j, at[j - 1])
    BY <1>7
  <2> QED BY <2>1
<1> QED BY <1>8 DEF at

\* What the search knows at byte j.  The hole begins at the memory's first
\* byte or behind a used one, so a free run that ends before j is inside of
\* it or was found.
Searching(size, j, d) ==
    /\ ~d.found
    /\ \E s \in 0..j : /\ d.hole = s..(j - 1) /\ j - s <= size
                       /\ \A b \in s..(j - 1) : ~free_bytes[b]
                       /\ s = 0 \/ free_bytes[s - 1]
    /\ \A t \in 0..(j - 1 - size) : ~FreeRun(t, size)

\* What it knows when it has ended: the lowest free run, with a byte behind it.
HoleFound(size, d) ==
    /\ d.found
    /\ \E s \in 0..(MemSize - 1 - size) :
         /\ d.hole = s..(s + size - 1) /\ FreeRun(s, size)
         /\ \A t \in 0..(s - 1) : ~FreeRun(t, size)

\* A round of the search keeps what it knows.
LEMMA RoundKnows ==
    ASSUME BytesTyped, NEW size \in Nat \ {0}, MemSize \in Nat,
           NEW j \in 1..MemSize, NEW d \in Searches,
           Searching(size, j - 1, d) \/ HoleFound(size, d)
    PROVE  Searching(size, j, Round(size, j, d)) \/ HoleFound(size, Round(size, j, d))
<1> DEFINE e == Round(size, j, d)
<1>1. j - 1 \in NonPaging!Bytes /\ j - 1 \in Nat /\ free_bytes[j - 1] \in BOOLEAN
  BY DEF BytesTyped, NonPaging!Bytes
<1>2. CASE HoleFound(size, d)
  <2>1. e = [d EXCEPT !.found = TRUE]
    <3>1. PICK s \in 0..(MemSize - 1 - size) : d.hole = s..(s + size - 1)
      BY <1>2 DEF HoleFound
    <3>2. Cardinality(s..(s + size - 1)) = size
      <4> DEFINE last == s + size - 1
      <4>1. s \in Int /\ last \in Int /\ s <= last /\ last - s + 1 = size
        OBVIOUS
      <4> HIDE DEF last
      <4>2. Cardinality(s..last) = IF s > last THEN 0 ELSE last - s + 1
        BY <4>1, FS_Interval
      <4>3. Cardinality(s..last) = size
        BY <4>1, <4>2
      <4> QED BY <4>3 DEF last
    <3> QED BY <3>1, <3>2 DEF Round
  <2>2. e.found /\ e.hole = d.hole
    BY <2>1 DEF Searches
  <2> HIDE DEF e
  <2>3. HoleFound(size, e)
    BY <1>2, <2>2 DEF HoleFound
  <2> QED BY <2>3 DEF e
<1>3. CASE Searching(size, j - 1, d)
  <2>1. PICK s \in 0..(j - 1) :
          /\ d.hole = s..(j - 2) /\ j - 1 - s <= size
          /\ \A b \in s..(j - 2) : ~free_bytes[b]
          /\ s = 0 \/ free_bytes[s - 1]
    BY <1>3 DEF Searching
  <2>2. \A t \in 0..(j - 2 - size) : ~FreeRun(t, size)
    BY <1>3 DEF Searching
  <2>3. ~d.found /\ Cardinality(d.hole) = j - 1 - s
    <3>1. s \in Int /\ j - 2 \in Int /\ (s > j - 2 => j - 1 - s = 0)
          /\ (j - 2) - s + 1 = j - 1 - s
      OBVIOUS
    <3> DEFINE last == j - 2
    <3>2. Cardinality(s..last) = IF s > last THEN 0 ELSE last - s + 1
      <4> HIDE DEF last
      <4>1. last \in Int
        BY <3>1 DEF last
      <4> QED BY <3>1, <4>1, FS_Interval
    <3>3. Cardinality(s..(j - 2)) = j - 1 - s
      BY <3>1, <3>2
    <3> QED BY <1>3, <2>1, <3>3 DEF Searching
  \* A free run that ends just before the byte would be the hole.
  <2>4. j - 1 - s < size => \A t \in 0..(j - 1 - size) : ~FreeRun(t, size)
    <3>1. ASSUME j - 1 - s < size, NEW t \in 0..(j - 1 - size), FreeRun(t, size)
          PROVE  FALSE
      <4>1. t = j - 1 - size
        BY <2>2, <3>1
      <4>2. s # 0 /\ s - 1 \in t..(t + size - 1)
        BY <3>1, <4>1
      <4> QED BY <2>1, <3>1, <4>2 DEF FreeRun
    <3> QED BY <3>1
  <2>5. CASE j - 1 - s >= size
    <3>1. e = [d EXCEPT !.found = TRUE]
      BY <2>3, <2>5 DEF Round
    <3>2. e.found /\ e.hole = d.hole
      BY <3>1 DEF Searches
    <3>3. j - 1 - s = size
      BY <2>1, <2>5
    <3>4. s \in 0..(MemSize - 1 - size) /\ d.hole = s..(s + size - 1)
      BY <2>1, <3>3
    <3>5. FreeRun(s, size)
      BY <2>1, <3>3 DEF FreeRun
    <3>6. \A t \in 0..(s - 1) : ~FreeRun(t, size)
      BY <2>2, <3>3
    <3> HIDE DEF e
    <3>7. HoleFound(size, e)
      BY <3>2, <3>4, <3>5, <3>6 DEF HoleFound
    <3> QED BY <3>7 DEF e
  <2>6. CASE j - 1 - s < size /\ free_bytes[j - 1]
    <3>1. e = [hole |-> {}, found |-> FALSE]
      BY <2>3, <2>6 DEF Round
    <3>2. ~e.found /\ e.hole = {}
      BY <3>1
    <3> HIDE DEF e
    <3>3. j \in 0..j /\ e.hole = j..(j - 1) /\ j - j <= size
      BY <3>2
    <3>4. Searching(size, j, e)
      BY <2>4, <2>6, <3>2, <3>3 DEF Searching
    <3> QED BY <3>4 DEF e
  <2>7. CASE j - 1 - s < size /\ ~free_bytes[j - 1]
    <3>1. e = [d EXCEPT !.hole = @ \cup {j - 1}]
      BY <2>3, <2>7 DEF Round
    <3>2. ~e.found /\ e.hole = d.hole \cup {j - 1}
      BY <2>3, <3>1 DEF Searches
    <3> HIDE DEF e
    <3>3. e.hole = s..(j - 1) /\ j - s <= size
      BY <2>1, <2>7, <3>2
    <3>4. \A b \in s..(j - 1) : ~free_bytes[b]
      BY <2>1, <2>7
    <3>5. s \in 0..j /\ (s = 0 \/ free_bytes[s - 1])
      BY <2>1
    <3>6. \A t \in 0..(j - 1 - size) : ~FreeRun(t, size)
      BY <2>4, <2>7
    <3>7. ~e.found
      BY <1>3, <3>2 DEF Searching
    <3>8. Searching(size, j, e)
      BY <3>3, <3>4, <3>5, <3>6, <3>7 DEF Searching
    <3> QED BY <3>8 DEF e
  <2> QED BY <1>1, <2>5, <2>6, <2>7
<1> QED BY <1>2, <1>3

\* The first free run that is followed by a byte is found, if there is one:
\* the search (lines 24-44) is first fit but for a hole at the memory's end.
LEMMA ScanFinds ==
    ASSUME BytesTyped, NEW size \in Nat \ {0}, MemSize \in Nat
    PROVE  Searching(size, MemSize, NonPaging!Scan(size)) \/ HoleFound(size, NonPaging!Scan(size))
<1> DEFINE at == CHOOSE at : IsScan(size, at)
<1>1. /\ at[0] = [hole |-> {}, found |-> FALSE]
      /\ \A j \in 1..MemSize : at[j] = Round(size, j, at[j - 1])
  BY ScanExists
<1> HIDE DEF at
<1> DEFINE Knows(j) == Searching(size, j, at[j]) \/ HoleFound(size, at[j])
           T == {j \in 0..MemSize : ~(at[j] \in Searches /\ Knows(j))}
<1>2. at[0] \in Searches /\ Knows(0)
  <2>1. at[0] \in Searches
    BY <1>1 DEF Searches
  <2>2. Searching(size, 0, at[0])
    BY <1>1 DEF Searching
  <2> QED BY <2>1, <2>2
<1>3. T = {}
  <2>1. SUFFICES ASSUME T # {} PROVE FALSE
    OBVIOUS
  <2>2. PICK m \in T : \A k \in T : m <= k
    <3>1. T \subseteq Nat
      OBVIOUS
    <3> HIDE DEF T
    <3> QED BY <2>1, <3>1, LeastNat
  <2>3. m \in 1..MemSize /\ m - 1 \in 0..MemSize /\ m - 1 \notin T
    BY <1>2, <2>2
  <2>4. at[m - 1] \in Searches /\ Knows(m - 1)
    BY <2>3
  <2>5. at[m] = Round(size, m, at[m - 1])
    BY <1>1, <2>3
  <2>6. at[m] \in Searches
    BY <2>3, <2>4, <2>5, RoundIsSearch
  <2>7. Knows(m)
    BY <2>3, <2>4, <2>5, RoundKnows
  <2> QED BY <2>2, <2>6, <2>7
<1>4. Knows(MemSize)
  BY <1>3
<1>5. NonPaging!Scan(size) = at[MemSize]
  BY ScanIsEntry DEF at
<1> QED BY <1>4, <1>5

\* The hole that is found, from its first byte to its last.
LEMMA FoundHole ==
    ASSUME BytesTyped, NEW size \in Nat \ {0}, MemSize \in Nat, NonPaging!Scan(size).found
    PROVE  \E s \in 0..(MemSize - 1 - size) :
             /\ NonPaging!Scan(size).hole = s..(s + size - 1) /\ FreeRun(s, size)
             /\ \A t \in 0..(s - 1) : ~FreeRun(t, size)
             /\ NonPaging!Min(NonPaging!Scan(size).hole) = s
             /\ NonPaging!Max(NonPaging!Scan(size).hole) = s + size - 1
<1> DEFINE hole == NonPaging!Scan(size).hole
<1>1. HoleFound(size, NonPaging!Scan(size))
  BY ScanFinds DEF Searching
<1> HIDE DEF hole
<1>2. PICK s \in 0..(MemSize - 1 - size) :
        /\ hole = s..(s + size - 1) /\ FreeRun(s, size)
        /\ \A t \in 0..(s - 1) : ~FreeRun(t, size)
  BY <1>1 DEF HoleFound, hole
<1>3. NonPaging!Min(hole) = s
  <2>1. s \in hole /\ \A y \in hole : s <= y
    BY <1>2
  <2>2. \A x \in hole : (\A y \in hole : x <= y) => x = s
    BY <1>2
  <2> QED BY <2>1, <2>2 DEF NonPaging!Min
<1>4. NonPaging!Max(hole) = s + size - 1
  <2>1. s + size - 1 \in hole /\ \A y \in hole : s + size - 1 >= y
    BY <1>2
  <2>2. \A x \in hole : (\A y \in hole : x >= y) => x = s + size - 1
    BY <1>2
  <2> QED BY <2>1, <2>2 DEF NonPaging!Max
<1> QED BY <1>2, <1>3, <1>4 DEF hole

\* When nothing is found there is nothing to be found.
LEMMA NothingFound ==
    ASSUME BytesTyped, NEW size \in Nat \ {0}, MemSize \in Nat, ~NonPaging!Scan(size).found
    PROVE  \A t \in 0..(MemSize - 1 - size) : ~FreeRun(t, size)
  BY ScanFinds DEF HoleFound, Searching

-----------------------------------------------------------------------------
(* Processes tile the used bytes                                           *)

Extents == [first : NonPaging!Bytes, second : NonPaging!Bytes]

\* The used bytes are those of the processes, each of which has its own.
Tiles(used, procs) ==
    /\ \A c \in DOMAIN procs : procs[c].first <= procs[c].second
    /\ \A b \in NonPaging!Bytes : used[b] <=> \E c \in DOMAIN procs :
         b \in NonPaging!BytesOf(procs[c])
    /\ \A c, d \in DOMAIN procs :
         c # d => NonPaging!BytesOf(procs[c]) \cap NonPaging!BytesOf(procs[d]) = {}

\* The bytes of a process are bytes.
LEMMA BytesAreBytes ==
    ASSUME MemSize \in Nat, NEW p \in Extents
    PROVE  NonPaging!BytesOf(p) \subseteq NonPaging!Bytes
  BY DEF Extents, NonPaging!BytesOf, NonPaging!Bytes

\* The checked invariant in these words.
LEMMA TilesIsExtentsTile ==
    ASSUME MemSize \in Nat, NonPaging!TypeOK
    PROVE  Tiles(free_bytes, request_states) =>
             /\ {b \in NonPaging!Bytes : free_bytes[b]} =
                  UNION {NonPaging!BytesOf(p) : p \in NonPaging!Live}
             /\ \A c, d \in DOMAIN request_states :
                  c # d => NonPaging!BytesOf(request_states[c])
                    \cap NonPaging!BytesOf(request_states[d]) = {}
<1> SUFFICES ASSUME Tiles(free_bytes, request_states)
             PROVE  {b \in NonPaging!Bytes : free_bytes[b]} =
                      UNION {NonPaging!BytesOf(p) : p \in NonPaging!Live}
  BY DEF Tiles
<1>1. \A c \in DOMAIN request_states : request_states[c] \in Extents
  <2>1. request_states \in Seq(Extents)
    BY DEF NonPaging!TypeOK, Extents
  <2> QED BY <2>1
<1>2. \A c \in DOMAIN request_states : NonPaging!BytesOf(request_states[c])
        \subseteq NonPaging!Bytes
  BY <1>1, BytesAreBytes
<1>3. NonPaging!Live = {request_states[c] : c \in DOMAIN request_states}
  BY DEF NonPaging!Live, NonPaging!Range
<1>4. \A b : b \in UNION {NonPaging!BytesOf(p) : p \in NonPaging!Live}
             <=> \E c \in DOMAIN request_states : b \in NonPaging!BytesOf(request_states[c])
  BY <1>3
<1> QED BY <1>2, <1>4 DEF Tiles

\* A process that gets bytes nobody has.
LEMMA AddTile ==
    ASSUME MemSize \in Nat, NEW used \in [NonPaging!Bytes -> BOOLEAN], NEW procs \in Seq(Extents),
           Tiles(used, procs), NEW p \in Extents, p.first <= p.second,
           \A b \in NonPaging!BytesOf(p) : ~used[b]
    PROVE  /\ Append(procs, p) \in Seq(Extents)
           /\ Tiles([b \in NonPaging!Bytes |-> used[b]
                \/ b \in NonPaging!BytesOf(p)], Append(procs, p))
<1> DEFINE now == [b \in NonPaging!Bytes |-> used[b] \/ b \in NonPaging!BytesOf(p)]
           n == Len(procs)
           q == Append(procs, p)
<1>1. /\ q \in Seq(Extents) /\ n \in Nat /\ DOMAIN procs = 1..n
      /\ DOMAIN q = 1..(n + 1) /\ q[n + 1] = p
      /\ \A c \in 1..n : q[c] = procs[c]
  OBVIOUS
<1>2. \A c \in 1..n : procs[c] \in Extents /\ NonPaging!BytesOf(procs[c]) \subseteq NonPaging!Bytes
  BY ElementOfSeq, BytesAreBytes
<1>3. NonPaging!BytesOf(p) \subseteq NonPaging!Bytes
  BY BytesAreBytes
<1>4. \A b \in NonPaging!Bytes : now[b] <=> used[b] \/ b \in NonPaging!BytesOf(p)
  OBVIOUS
<1> HIDE DEF now, n, q
<1>5. \A c \in 1..n : NonPaging!BytesOf(procs[c]) \cap NonPaging!BytesOf(p) = {}
  BY <1>1, <1>2 DEF Tiles
<1>6. \A c \in DOMAIN q : c \in 1..n \/ c = n + 1
  BY <1>1
<1>7. \A c \in DOMAIN q : q[c].first <= q[c].second
  BY <1>1, <1>6 DEF Tiles
<1>8. \A b \in NonPaging!Bytes : now[b] <=> \E c \in DOMAIN q : b \in NonPaging!BytesOf(q[c])
  <2>1. SUFFICES ASSUME NEW b \in NonPaging!Bytes
                 PROVE  (used[b] \/ b \in NonPaging!BytesOf(p)) <=>
                          \E c \in DOMAIN q : b \in NonPaging!BytesOf(q[c])
    BY <1>4
  <2>2. used[b] <=> \E c \in 1..n : b \in NonPaging!BytesOf(procs[c])
    BY <1>1 DEF Tiles
  <2>3. \A c \in 1..n : c \in DOMAIN q
    BY <1>1
  <2>4. n + 1 \in DOMAIN q
    BY <1>1
  <2> QED BY <1>1, <1>6, <2>2, <2>3, <2>4
<1>9. \A c, d \in DOMAIN q : c # d => NonPaging!BytesOf(q[c]) \cap NonPaging!BytesOf(q[d]) = {}
  <2>1. \A c, d \in 1..n : c # d =>
        NonPaging!BytesOf(procs[c]) \cap NonPaging!BytesOf(procs[d]) = {}
    BY <1>1 DEF Tiles
  <2> QED BY <1>1, <1>5, <1>6, <2>1
<1>10. Tiles(now, q)
  BY <1>7, <1>8, <1>9 DEF Tiles
<1> QED BY <1>1, <1>10 DEF now, q

\* What is left of a sequence without one of its elements.
LEMMA Removed ==
    ASSUME NEW S, NEW s \in Seq(S), NEW pos \in DOMAIN s
    PROVE  /\ NonPaging!RemoveAt(s, pos) \in Seq(S)
           /\ Len(NonPaging!RemoveAt(s, pos)) = Len(s) - 1
           /\ \A k \in 1..(Len(s) - 1) :
                NonPaging!RemoveAt(s, pos)[k] = s[IF k < pos THEN k ELSE k + 1]
<1> DEFINE n == Len(s)
           before == SubSeq(s, 1, pos - 1)
           after == SubSeq(s, pos + 1, n)
<1>1. n \in Nat /\ pos \in 1..n /\ \A k \in 1..n : s[k] \in S
  BY ElementOfSeq
<1>2. /\ before \in Seq(S) /\ Len(before) = pos - 1
      /\ \A k \in 1..(pos - 1) : before[k] = s[k]
  <2>1. \A k \in 1..(pos - 1) : s[k] \in S
    BY <1>1
  <2>2. 1 \in Int /\ pos - 1 \in Int
    BY <1>1
  <2>3. /\ before \in Seq(S)
        /\ Len(before) = IF 1 <= pos - 1 THEN pos - 1 - 1 + 1 ELSE 0
        /\ \A k \in 1..(pos - 1 - 1 + 1) : before[k] = s[1 + k - 1]
    BY <2>1, <2>2, SubSeqProperties
  <2> HIDE DEF before
  <2> QED BY <1>1, <2>3
<1>3. /\ after \in Seq(S) /\ Len(after) = n - pos
      /\ \A k \in 1..(n - pos) : after[k] = s[pos + k]
  <2>1. \A k \in (pos + 1)..n : s[k] \in S
    BY <1>1
  <2>2. n \in Int /\ pos + 1 \in Int
    BY <1>1
  <2>3. /\ after \in Seq(S)
        /\ Len(after) = IF pos + 1 <= n THEN n - (pos + 1) + 1 ELSE 0
        /\ \A k \in 1..(n - (pos + 1) + 1) : after[k] = s[(pos + 1) + k - 1]
    <3> HIDE DEF n
    <3> QED BY <2>1, <2>2, SubSeqProperties
  <2> HIDE DEF after, n
  <2> QED BY <1>1, <2>3
<1>0. NonPaging!RemoveAt(s, pos) = before \o after
  BY DEF NonPaging!RemoveAt
<1> HIDE DEF before, after
<1>4. /\ before \o after \in Seq(S)
      /\ Len(before \o after) = Len(before) + Len(after)
      /\ \A k \in 1..(Len(before) + Len(after)) :
           (before \o after)[k] = IF k <= Len(before) THEN before[k]
                                  ELSE after[k - Len(before)]
  BY <1>2, <1>3, ConcatProperties
<1> HIDE DEF n
<1>5. \A k \in 1..(n - 1) : (before \o after)[k] = s[IF k < pos THEN k ELSE k + 1]
  <2>1. SUFFICES ASSUME NEW k \in 1..(n - 1)
                 PROVE  (before \o after)[k] = s[IF k < pos THEN k ELSE k + 1]
    OBVIOUS
  <2>2. (before \o after)[k] = IF k <= pos - 1 THEN before[k] ELSE after[k - (pos - 1)]
    <3>1. Len(before) + Len(after) = n - 1
      BY <1>1, <1>2, <1>3
    <3>2. k \in 1..(Len(before) + Len(after))
      BY <3>1
    <3>3. (before \o after)[k] = IF k <= Len(before) THEN before[k]
                                 ELSE after[k - Len(before)]
      BY <1>4, <3>2
    <3> QED BY <1>2, <3>3
  <2>3. CASE k < pos
    <3>1. k \in 1..(pos - 1) /\ (before \o after)[k] = before[k]
      BY <1>1, <2>2, <2>3
    <3> QED BY <1>2, <2>3, <3>1
  <2>4. CASE ~(k < pos)
    <3>1. k - (pos - 1) \in 1..(n - pos) /\ (before \o after)[k] = after[k - (pos - 1)]
      BY <1>1, <2>2, <2>4
    <3>2. after[k - (pos - 1)] = s[pos + (k - (pos - 1))]
      BY <1>3, <3>1
    <3>3. pos + (k - (pos - 1)) = k + 1
      BY <1>1
    <3> QED BY <2>4, <3>1, <3>2, <3>3
  <2> QED BY <2>3, <2>4
<1>6. Len(before \o after) = n - 1
  BY <1>1, <1>2, <1>3, <1>4
<1> QED BY <1>0, <1>4, <1>5, <1>6 DEF n

\* A process that goes.
LEMMA RemoveTile ==
    ASSUME MemSize \in Nat, NEW used \in [NonPaging!Bytes -> BOOLEAN], NEW procs \in Seq(Extents),
           Tiles(used, procs), NEW pos \in DOMAIN procs
    PROVE  Tiles([b \in NonPaging!Bytes |-> used[b] /\ b \notin NonPaging!BytesOf(procs[pos])],
                 NonPaging!RemoveAt(procs, pos))
<1> DEFINE now == [b \in NonPaging!Bytes |-> used[b] /\ b \notin NonPaging!BytesOf(procs[pos])]
           n == Len(procs)
           q == NonPaging!RemoveAt(procs, pos)
           old(k) == IF k < pos THEN k ELSE k + 1
<1>1. /\ n \in Nat /\ DOMAIN procs = 1..n /\ pos \in 1..n
      /\ q \in Seq(Extents) /\ Len(q) = n - 1
      /\ \A k \in 1..(n - 1) : q[k] = procs[old(k)]
  <2>1. n \in Nat /\ DOMAIN procs = 1..n /\ pos \in 1..n
    OBVIOUS
  <2>2. /\ q \in Seq(Extents) /\ Len(q) = n - 1
        /\ \A k \in 1..(n - 1) : q[k] = procs[IF k < pos THEN k ELSE k + 1]
    BY Removed
  <2> HIDE DEF n, q
  <2> QED BY <2>1, <2>2
<1>2. DOMAIN q = 1..(n - 1)
  <2> HIDE DEF q, n, old
  <2> QED BY <1>1
<1>3. \A b \in NonPaging!Bytes : now[b] <=> used[b] /\ b \notin NonPaging!BytesOf(procs[pos])
  OBVIOUS
<1>4. \A k \in 1..(n - 1) : old(k) \in 1..n /\ old(k) # pos
  BY <1>1
<1>5. \A c \in 1..n : c # pos => \E k \in 1..(n - 1) : old(k) = c
  <2>1. SUFFICES ASSUME NEW c \in 1..n, c # pos PROVE \E k \in 1..(n - 1) : old(k) = c
    OBVIOUS
  <2>2. CASE c < pos
    <3>1. c \in 1..(n - 1) /\ old(c) = c
      BY <1>1, <2>2
    <3> QED BY <3>1
  <2>3. CASE c > pos
    <3>1. c - 1 \in 1..(n - 1) /\ old(c - 1) = c
      BY <1>1, <2>3
    <3> QED BY <3>1
  <2> QED BY <1>1, <2>1, <2>2, <2>3
<1>6. \A k, l \in 1..(n - 1) : k # l => old(k) # old(l)
  BY <1>1
<1> HIDE DEF now, n, q, old
<1>7. \A c \in DOMAIN q : q[c].first <= q[c].second
  BY <1>1, <1>2, <1>4 DEF Tiles
<1>8. \A b \in NonPaging!Bytes : now[b] <=> \E c \in DOMAIN q : b \in NonPaging!BytesOf(q[c])
  <2>1. SUFFICES ASSUME NEW b \in NonPaging!Bytes
                 PROVE  (used[b] /\ b \notin NonPaging!BytesOf(procs[pos]))
                          <=> \E c \in DOMAIN q : b \in NonPaging!BytesOf(q[c])
    BY <1>3
  <2>2. used[b] <=> \E c \in 1..n : b \in NonPaging!BytesOf(procs[c])
    BY <1>1 DEF Tiles
  <2>3. \A c \in 1..n : c # pos => ~(b \in NonPaging!BytesOf(procs[c])
          /\ b \in NonPaging!BytesOf(procs[pos]))
    BY <1>1 DEF Tiles
  <2>4. (\E c \in DOMAIN q : b \in NonPaging!BytesOf(q[c]))
          <=> \E c \in 1..n : c # pos /\ b \in NonPaging!BytesOf(procs[c])
    BY <1>1, <1>2, <1>4, <1>5
  <2> QED BY <2>2, <2>3, <2>4
<1>9. \A c, d \in DOMAIN q : c # d => NonPaging!BytesOf(q[c]) \cap NonPaging!BytesOf(q[d]) = {}
  <2>1. \A c, d \in 1..n : c # d =>
        NonPaging!BytesOf(procs[c]) \cap NonPaging!BytesOf(procs[d]) = {}
    BY <1>1 DEF Tiles
  <2> QED BY <1>1, <1>2, <1>4, <1>6, <2>1
<1>10. Tiles(now, q)
  BY <1>7, <1>8, <1>9 DEF Tiles
<1> QED BY <1>10 DEF now, q

\* The least and the greatest of a set of integers between two numbers.
LEMMA MinMax ==
    ASSUME NEW T, T \subseteq Int, T # {}, NEW lo \in Int, NEW hi \in Int,
           \A t \in T : lo <= t /\ t <= hi
    PROVE  /\ NonPaging!Min(T) \in T /\ \A t \in T : NonPaging!Min(T) <= t
           /\ NonPaging!Max(T) \in T /\ \A t \in T : t <= NonPaging!Max(T)
<1>1. \E x \in T : \A t \in T : x <= t
  BY LeastInt
<1>2. \E x \in T : \A t \in T : t <= x
  BY GreatestInt
<1>3. \E x \in T : \A t \in T : x >= t
  BY <1>2
<1>4. NonPaging!Min(T) \in T /\ \A t \in T : NonPaging!Min(T) <= t
  BY <1>1 DEF NonPaging!Min
<1>5. NonPaging!Max(T) \in T /\ \A t \in T : NonPaging!Max(T) >= t
  BY <1>3 DEF NonPaging!Max
<1> QED BY <1>4, <1>5

\* A process and the free bytes around it.
LEMMA MergedRoom ==
    ASSUME BytesTyped, MemSize \in Nat, NEW p \in Extents, p.first <= p.second
    PROVE  /\ NonPaging!Merged(p) \in Extents
           /\ NonPaging!Merged(p).first <= p.first /\ p.second <= NonPaging!Merged(p).second
           /\ \A b \in NonPaging!BytesOf(NonPaging!Merged(p)) : b \notin NonPaging!BytesOf(p) =>
                ~free_bytes[b]
<1> DEFINE L == {b \in 0..p.first : \A c \in b..(p.first - 1) : ~free_bytes[c]}
           H == {b \in p.second..(MemSize - 1) : \A c \in (p.second + 1)..b : ~free_bytes[c]}
<1>1. /\ p.first \in Nat /\ p.second \in Nat
      /\ p.first <= MemSize - 1 /\ p.second <= MemSize - 1
  BY DEF Extents, NonPaging!Bytes
<1>2. NonPaging!Min(L) \in L
  <2>1. L \subseteq Int /\ \A t \in L : 0 <= t /\ t <= p.first
    BY <1>1
  <2>2. p.first \in L
    BY <1>1
  <2> DEFINE top == p.first
  <2>3. top \in Int /\ 0 \in Int /\ \A t \in L : 0 <= t /\ t <= top
    BY <1>1, <2>1
  <2> HIDE DEF L, top
  <2> QED BY <2>1, <2>2, <2>3, MinMax
<1>3. NonPaging!Max(H) \in H
  <2>1. H \subseteq Int /\ \A t \in H : 0 <= t /\ t <= MemSize - 1
    BY <1>1
  <2>2. p.second \in H
    BY <1>1
  <2> DEFINE top == MemSize - 1
  <2>3. top \in Int /\ 0 \in Int /\ \A t \in H : 0 <= t /\ t <= top
    BY <1>1, <2>1
  <2> HIDE DEF H, top
  <2> QED BY <2>1, <2>2, <2>3, MinMax
<1>4. NonPaging!Merged(p).first = NonPaging!Min(L) /\ NonPaging!Merged(p).second = NonPaging!Max(H)
      /\ NonPaging!Merged(p) = [first |-> NonPaging!Min(L), second |-> NonPaging!Max(H)]
  BY DEF NonPaging!Merged, NonPaging!Extent
<1> DEFINE lo == NonPaging!Min(L)
           hi == NonPaging!Max(H)
<1>5. lo \in 0..p.first /\ \A c \in lo..(p.first - 1) : ~free_bytes[c]
  BY <1>2
<1>6. hi \in p.second..(MemSize - 1) /\ \A c \in (p.second + 1)..hi : ~free_bytes[c]
  BY <1>3
<1>7. NonPaging!Merged(p) = [first |-> lo, second |-> hi]
  BY <1>4
<1> HIDE DEF lo, hi
<1>8. NonPaging!Merged(p) \in Extents
  BY <1>1, <1>5, <1>6, <1>7 DEF Extents, NonPaging!Bytes
<1>9. \A b \in lo..hi : b \notin p.first..p.second => ~free_bytes[b]
  BY <1>1, <1>5, <1>6
<1> QED BY <1>1, <1>5, <1>6, <1>7, <1>8, <1>9 DEF NonPaging!BytesOf

-----------------------------------------------------------------------------
(* The invariant                                                           *)

MemoryInv == /\ NonPaging!TypeOK
             /\ Tiles(free_bytes, request_states)
             /\ requests > 0 => request_states # <<>>

\* What the invariant says of the bytes and the processes.
LEMMA Typed ==
    ASSUME NonPaging!SizesAssumption, MemoryInv
    PROVE  /\ BytesTyped /\ MemSize \in Nat /\ request_states \in Seq(Extents)
           /\ DOMAIN request_states = 1..Len(request_states) /\ Len(request_states) \in Nat
           /\ \A c \in DOMAIN request_states :
                request_states[c] \in Extents /\ request_states[c].first <= request_states[c].second
<1>1. request_states \in Seq(Extents)
  BY DEF MemoryInv, NonPaging!TypeOK, Extents
<1>2. \A c \in DOMAIN request_states : request_states[c] \in Extents
  BY <1>1, ElementOfSeq
<1>3. DOMAIN request_states = 1..Len(request_states) /\ Len(request_states) \in Nat
  BY <1>1
<1> QED BY <1>1, <1>2, <1>3
           DEF MemoryInv, NonPaging!TypeOK, NonPaging!SizesAssumption, BytesTyped, Tiles

\* The sizes of requests are positive numbers less than that of the memory.
LEMMA SizesPositive ==
    ASSUME NonPaging!SizesAssumption, NEW size \in NonPaging!Sizes
    PROVE  size \in Nat \ {0} /\ size < MemSize
  BY DEF NonPaging!SizesAssumption, NonPaging!Sizes

\* An allocation takes free bytes only.
LEMMA AllocateInv ==
    ASSUME NonPaging!SizesAssumption, MemoryInv, NEW size \in NonPaging!Sizes,
           NonPaging!Allocate(size)
    PROVE  /\ free_bytes' \in [NonPaging!Bytes -> BOOLEAN]
           /\ request_states' \in Seq(Extents) /\ request_states' # <<>>
           /\ Tiles(free_bytes', request_states')
<1>1. size \in Nat \ {0} /\ MemSize \in Nat /\ BytesTyped /\ size < MemSize
  BY Typed, SizesPositive
<1>2. PICK s \in 0..(MemSize - 1 - size) :
        /\ NonPaging!Scan(size).hole = s..(s + size - 1) /\ FreeRun(s, size)
        /\ NonPaging!Min(NonPaging!Scan(size).hole) = s
        /\ NonPaging!Max(NonPaging!Scan(size).hole) = s + size - 1
  BY <1>1, FoundHole DEF NonPaging!Allocate
<1> DEFINE p == NonPaging!Extent(s, s + size - 1)
<1>3. /\ p \in Extents /\ p.first <= p.second /\ NonPaging!BytesOf(p) = s..(s + size - 1)
  BY <1>1 DEF NonPaging!Extent, Extents, NonPaging!BytesOf, NonPaging!Bytes
<1>4. \A b \in NonPaging!BytesOf(p) : ~free_bytes[b]
  BY <1>2, <1>3 DEF FreeRun
<1>5. /\ free_bytes' = [b \in NonPaging!Bytes |-> free_bytes[b] \/ b \in NonPaging!BytesOf(p)]
      /\ request_states' = Append(request_states, p)
  BY <1>2, <1>3 DEF NonPaging!Allocate
<1>6. free_bytes \in [NonPaging!Bytes -> BOOLEAN] /\ request_states \in Seq(Extents)
  BY Typed DEF BytesTyped
<1> HIDE DEF p
<1>7. /\ Append(request_states, p) \in Seq(Extents)
      /\ Tiles([b \in NonPaging!Bytes |-> free_bytes[b]
           \/ b \in NonPaging!BytesOf(p)], Append(request_states, p))
  BY <1>1, <1>3, <1>4, <1>6, AddTile DEF MemoryInv
<1>8. Append(request_states, p) # <<>>
  BY <1>6
<1>9. [b \in NonPaging!Bytes |-> free_bytes[b] \/ b \in NonPaging!BytesOf(p)]
        \in [NonPaging!Bytes -> BOOLEAN]
  BY <1>6
<1> QED BY <1>5, <1>7, <1>8, <1>9

\* The newcomer gets bytes of the process that goes and the free ones around.
LEMMA EvictInv ==
    ASSUME NonPaging!SizesAssumption, MemoryInv, NEW size \in NonPaging!Sizes, NonPaging!Evict(size)
    PROVE  /\ free_bytes' \in [NonPaging!Bytes -> BOOLEAN]
           /\ request_states' \in Seq(Extents) /\ request_states' # <<>>
           /\ Tiles(free_bytes', request_states')
           /\ Len(request_states') = Len(request_states)
           /\ NonPaging!Size(NonPaging!Last(request_states')) = size
<1>1. size \in Nat \ {0} /\ MemSize \in Nat /\ BytesTyped /\ size < MemSize
  BY Typed, SizesPositive
<1>2. PICK pos \in DOMAIN request_states :
         LET room == NonPaging!Merged(request_states[pos])
             new == NonPaging!Extent(room.first, room.first + size - 1)
         IN  /\ NonPaging!Size(room) >= size
             /\ request_states' = Append(NonPaging!RemoveAt(request_states, pos), new)
             /\ free_bytes' = [b \in NonPaging!Bytes |-> IF b \in NonPaging!BytesOf(room)
                  THEN b \in NonPaging!BytesOf(new)
                                                         ELSE free_bytes[b]]
  BY DEF NonPaging!Evict
<1> DEFINE p == request_states[pos]
           room == NonPaging!Merged(p)
           new == NonPaging!Extent(room.first, room.first + size - 1)
           rest == NonPaging!RemoveAt(request_states, pos)
           without == [b \in NonPaging!Bytes |-> free_bytes[b] /\ b \notin NonPaging!BytesOf(p)]
<1>3. p \in Extents /\ p.first <= p.second
  BY Typed
<1>4. /\ room \in Extents /\ room.first <= p.first /\ p.second <= room.second
      /\ \A b \in NonPaging!BytesOf(room) : b \notin NonPaging!BytesOf(p) => ~free_bytes[b]
  <2> HIDE DEF p
  <2> QED BY <1>1, <1>3, MergedRoom
<1>5. /\ NonPaging!Size(room) >= size /\ request_states' = Append(rest, new)
      /\ free_bytes' = [b \in NonPaging!Bytes |-> IF b \in NonPaging!BytesOf(room)
           THEN b \in NonPaging!BytesOf(new)
                                                  ELSE free_bytes[b]]
  BY <1>2
<1>6. free_bytes \in [NonPaging!Bytes -> BOOLEAN] /\ request_states \in Seq(Extents)
  BY Typed DEF BytesTyped
<1>7. /\ rest \in Seq(Extents) /\ Len(rest) = Len(request_states) - 1
      /\ Tiles(without, rest)
  BY <1>1, <1>6, Removed, RemoveTile DEF MemoryInv
<1>8. without \in [NonPaging!Bytes -> BOOLEAN]
  BY <1>6
<1>9. \A b \in NonPaging!Bytes : without[b] <=> free_bytes[b] /\ b \notin NonPaging!BytesOf(p)
  OBVIOUS
<1> HIDE DEF p, room, rest, without
<1>10. /\ new \in Extents /\ new.first <= new.second
       /\ new.first = room.first /\ new.second = room.first + size - 1
       /\ new.second <= room.second
  BY <1>1, <1>4, <1>5 DEF NonPaging!Extent, Extents, NonPaging!Bytes, NonPaging!Size
<1> HIDE DEF new
<1>11. NonPaging!BytesOf(new) \subseteq NonPaging!BytesOf(room)
         /\ NonPaging!BytesOf(p) \subseteq NonPaging!BytesOf(room)
       /\ NonPaging!BytesOf(room) \subseteq NonPaging!Bytes
  BY <1>1, <1>3, <1>4, <1>10 DEF NonPaging!BytesOf, Extents, NonPaging!Bytes
<1>12. \A b \in NonPaging!BytesOf(new) : ~without[b]
  BY <1>4, <1>9, <1>11
<1>13. /\ Append(rest, new) \in Seq(Extents)
       /\ Tiles([b \in NonPaging!Bytes |-> without[b]
            \/ b \in NonPaging!BytesOf(new)], Append(rest, new))
  BY <1>1, <1>7, <1>8, <1>10, <1>12, AddTile
<1>14. free_bytes' = [b \in NonPaging!Bytes |-> without[b] \/ b \in NonPaging!BytesOf(new)]
  <2>1. \A b \in NonPaging!Bytes : (IF b \in NonPaging!BytesOf(room)
          THEN b \in NonPaging!BytesOf(new) ELSE free_bytes[b])
                           = (without[b] \/ b \in NonPaging!BytesOf(new))
    <3>1. SUFFICES ASSUME NEW b \in NonPaging!Bytes
                   PROVE  (IF b \in NonPaging!BytesOf(room) THEN b \in NonPaging!BytesOf(new)
                            ELSE free_bytes[b])
                            = (without[b] \/ b \in NonPaging!BytesOf(new))
      OBVIOUS
    <3>2. free_bytes[b] \in BOOLEAN /\ without[b] \in BOOLEAN
      BY <1>6, <1>8
    <3>3. CASE b \in NonPaging!BytesOf(room)
      <4>1. ~without[b]
        BY <1>4, <1>9, <3>3
      <4> QED BY <3>3, <4>1
    <3>4. CASE b \notin NonPaging!BytesOf(room)
      <4>1. without[b] = free_bytes[b] /\ b \notin NonPaging!BytesOf(new)
        BY <1>9, <1>11, <3>2, <3>4
      <4> QED BY <3>2, <3>4, <4>1
    <3> QED BY <3>3, <3>4
  <2> QED BY <1>5, <2>1
<1>15. [b \in NonPaging!Bytes |-> without[b] \/ b \in NonPaging!BytesOf(new)]
         \in [NonPaging!Bytes -> BOOLEAN]
  BY <1>8
<1>16. /\ Append(rest, new) # <<>> /\ Len(Append(rest, new)) = Len(request_states)
       /\ NonPaging!Last(Append(rest, new)) = new
  <2>1. Len(rest) \in Nat /\ Len(request_states) \in Nat
    BY <1>6, <1>7
  <2> QED BY <1>7, <2>1 DEF NonPaging!Last
<1>17. NonPaging!Size(new) = size
  BY <1>1, <1>4, <1>10 DEF NonPaging!Size, Extents, NonPaging!Bytes
<1> QED BY <1>5, <1>13, <1>14, <1>15, <1>16, <1>17

\* Every step keeps the invariant.
LEMMA MemoryStep ==
    ASSUME NonPaging!SizesAssumption, MemoryInv, [NonPaging!Next]_(NonPaging!vars)
    PROVE  MemoryInv'
<1>1. CASE UNCHANGED NonPaging!vars
  BY <1>1 DEF NonPaging!vars, MemoryInv, NonPaging!TypeOK, Tiles
<1>2. CASE NonPaging!Next
  <2>1. PICK size \in NonPaging!Sizes : NonPaging!generateRequest(size)
    BY <1>2 DEF NonPaging!Next
  <2>2. /\ requests \in 0..NumRequests /\ numFaults \in 0..requests /\ NumRequests \in Nat
        /\ requests < NumRequests /\ requests' = requests + 1
    BY <2>1 DEF MemoryInv, NonPaging!TypeOK, NonPaging!SizesAssumption, NonPaging!generateRequest
  <2>3. CASE NonPaging!Refuse(size)
    <3>1. numFaults' = numFaults + 1 /\ UNCHANGED <<free_bytes, request_states>>
          /\ request_states # <<>>
      BY <2>3, Typed DEF NonPaging!Refuse
    <3>2. numFaults' \in 0..requests' /\ requests' \in 0..NumRequests
      BY <2>2, <3>1
    <3> QED BY <3>1, <3>2 DEF MemoryInv, NonPaging!TypeOK, Tiles
  <2>4. CASE NonPaging!Allocate(size) \/ NonPaging!Evict(size)
    <3>1. /\ free_bytes' \in [NonPaging!Bytes -> BOOLEAN]
          /\ request_states' \in Seq(Extents) /\ request_states' # <<>>
          /\ Tiles(free_bytes', request_states')
      BY <2>4, AllocateInv, EvictInv
    <3>2. numFaults' = numFaults
      BY <2>4 DEF NonPaging!Allocate, NonPaging!Evict
    <3>3. numFaults' \in 0..requests' /\ requests' \in 0..NumRequests
      BY <2>2, <3>2
    <3> QED BY <3>1, <3>3 DEF MemoryInv, NonPaging!TypeOK, Tiles, Extents
  <2> QED BY <2>1, <2>3, <2>4 DEF NonPaging!generateRequest
<1> QED BY <1>1, <1>2

\* The invariant of the memory without paging, for every size of the memory and
\* of the processes.
THEOREM MemoryInvariance == NonPaging!Spec => []MemoryInv
<1>1. NonPaging!Init => MemoryInv
  <2> SUFFICES ASSUME NonPaging!Init PROVE MemoryInv
    OBVIOUS
  <2>1. NonPaging!TypeOK
    BY NonPagingAssumption DEF NonPaging!Init, NonPaging!TypeOK, NonPaging!SizesAssumption
  <2>2. Tiles(free_bytes, request_states)
    BY DEF NonPaging!Init, Tiles
  <2> QED BY <2>1, <2>2 DEF NonPaging!Init, MemoryInv
<1>2. MemoryInv /\ [NonPaging!Next]_(NonPaging!vars) => MemoryInv'
  BY MemoryStep, NonPagingAssumption
<1> QED BY <1>1, <1>2, PTL DEF NonPaging!Spec

\* The processes tile the used bytes: no two overlap, none reaches out of the
\* memory, and no byte stays used when its process has gone (lines 70-97).
THEOREM ExtentsAlwaysTile == NonPaging!Spec => []ExtentsTile
<1>1. MemoryInv => ExtentsTile
  BY TilesIsExtentsTile, NonPagingAssumption
     DEF MemoryInv, ExtentsTile, NonPaging!ExtentsTile, NonPaging!SizesAssumption
<1> QED BY <1>1, MemoryInvariance, PTL

\* Where the code looks for space, and finds the first.
LEMMA FirstFitHolds ==
    ASSUME NonPaging!SizesAssumption, MemoryInv, NEW size \in NonPaging!Sizes,
           NonPaging!generateRequest(size)
    PROVE  NonPaging!FirstFit(size)
<1>1. size \in Nat \ {0} /\ MemSize \in Nat /\ BytesTyped /\ size < MemSize
  BY Typed, SizesPositive
<1> DEFINE seen == NonPaging!Starts(size) \ {MemSize - size}
<1>2. \A t : t \in seen <=> t \in 0..(MemSize - 1 - size) /\ FreeRun(t, size)
  BY <1>1 DEF NonPaging!Starts, FreeRun
<1>3. NonPaging!FirstFit(size) <=>
        IF seen # {}
        THEN request_states' =
               Append(request_states,
                      NonPaging!Extent(NonPaging!Min(seen), NonPaging!Min(seen) + size - 1))
        ELSE \/ numFaults' = numFaults + 1
             \/ NonPaging!Size(NonPaging!Last(request_states')) = size
                  /\ Len(request_states') = Len(request_states)
  BY DEF NonPaging!FirstFit
<1> HIDE DEF seen
<1>4. CASE NonPaging!Allocate(size)
  <2>1. PICK s \in 0..(MemSize - 1 - size) :
          /\ FreeRun(s, size) /\ \A t \in 0..(s - 1) : ~FreeRun(t, size)
          /\ NonPaging!Min(NonPaging!Scan(size).hole) = s
          /\ NonPaging!Max(NonPaging!Scan(size).hole) = s + size - 1
    BY <1>1, <1>4, FoundHole DEF NonPaging!Allocate
  <2>2. s \in seen /\ \A t \in seen : s <= t
    BY <1>1, <1>2, <2>1
  <2>3. NonPaging!Min(seen) = s
    <3>1. \A x \in seen : x \in Int
      BY <1>1, <1>2
    <3>2. \A x \in seen : (\A t \in seen : x <= t) => x = s
      BY <2>2, <3>1
    <3> QED BY <2>2, <3>2 DEF NonPaging!Min
  <2>4. request_states' = Append(request_states, NonPaging!Extent(s, s + size - 1))
    BY <1>4, <2>1 DEF NonPaging!Allocate
  <2> QED BY <1>3, <2>2, <2>3, <2>4
<1>5. CASE NonPaging!Evict(size) \/ NonPaging!Refuse(size)
  <2>1. seen = {}
    <3>1. ~NonPaging!Scan(size).found
      BY <1>5 DEF NonPaging!Evict, NonPaging!Refuse
    <3> QED BY <1>1, <1>2, <3>1, NothingFound
  <2>2. \/ numFaults' = numFaults + 1
        \/ NonPaging!Size(NonPaging!Last(request_states')) = size
             /\ Len(request_states') = Len(request_states)
    BY <1>5, EvictInv DEF NonPaging!Refuse
  <2> QED BY <1>3, <2>1, <2>2
<1> QED BY <1>4, <1>5 DEF NonPaging!generateRequest

\* A process gets the lowest hole that is large enough (lines 24-44), except that
\* a hole at the end of the memory is never found.
THEOREM MemoryFirstFit == NonPaging!Spec => FirstFitButTheTail
<1>1. MemoryInv /\ [NonPaging!Next]_(NonPaging!vars) =>
        [\A size \in NonPaging!Sizes :
           NonPaging!generateRequest(size) => NonPaging!FirstFit(size)]_(NonPaging!vars)
  BY FirstFitHolds, NonPagingAssumption
<1> QED BY <1>1, MemoryInvariance, PTL
        DEF NonPaging!Spec, FirstFitButTheTail, NonPaging!FirstFitButTheTail

\* When a request fails every byte but the last is in a process or in a hole
\* that begins with the memory or behind a process.
LEMMA CrowdedMemory ==
    ASSUME NonPaging!SizesAssumption, MemoryInv, NEW size \in NonPaging!Sizes,
           NonPaging!Refuse(size)
    PROVE  MemSize <= (2 * Len(request_states) + 1) * (size - 1) + 1
<1> DEFINE k == Len(request_states)
           A == 0..(2 * k)
           B == 0..(MemSize - 2)
           g == [a \in A |-> IF a = 0 THEN 0
                             ELSE IF a <= k THEN request_states[a].first
                             ELSE request_states[a - k].second + 1]
<1>1. size \in Nat \ {0} /\ MemSize \in Nat /\ BytesTyped /\ size < MemSize
  BY Typed, SizesPositive
<1>2. /\ k \in Nat /\ DOMAIN request_states = 1..k
      /\ \A c \in 1..k : /\ request_states[c] \in Extents
                         /\ request_states[c].first <= request_states[c].second
  BY Typed
<1>3. \A t \in 0..(MemSize - 1 - size) : ~FreeRun(t, size)
  BY <1>1, NothingFound DEF NonPaging!Refuse
<1>4. PICK pos \in DOMAIN request_states :
        NonPaging!Largest(pos) /\ NonPaging!Size(NonPaging!Merged(request_states[pos])) < size
  BY DEF NonPaging!Refuse
<1> HIDE DEF k
<1>5. \A c \in 1..k : NonPaging!Size(request_states[c]) < size
  <2> DEFINE p == request_states[pos]
  <2>1. p \in Extents /\ p.first <= p.second
    BY <1>2, <1>4
  <2>2. /\ NonPaging!Merged(p) \in Extents
        /\ NonPaging!Merged(p).first <= p.first /\ p.second <= NonPaging!Merged(p).second
    <3> HIDE DEF p
    <3> QED BY <1>1, <2>1, MergedRoom
  <2>3. NonPaging!Size(p) < size
    <3>1. NonPaging!Size(NonPaging!Merged(p)) < size
      BY <1>4
    <3> HIDE DEF p
    <3> QED BY <1>1, <2>1, <2>2, <3>1 DEF NonPaging!Size, Extents, NonPaging!Bytes
  <2>4. \A c \in 1..k : NonPaging!Size(request_states[c]) <= NonPaging!Size(p)
    BY <1>2, <1>4 DEF NonPaging!Largest
  <2>5. \A c \in 1..k : NonPaging!Size(request_states[c]) \in Int
    BY <1>1, <1>2 DEF NonPaging!Size, Extents, NonPaging!Bytes
  <2>6. NonPaging!Size(p) \in Int
    BY <1>2, <1>4, <2>5
  <2> HIDE DEF p
  <2> QED BY <1>1, <2>3, <2>4, <2>5, <2>6
<1>6. \A c \in 1..k : /\ request_states[c].first \in Nat /\ request_states[c].second \in Nat
                      /\ request_states[c].second < request_states[c].first + size - 1
  BY <1>1, <1>2, <1>5 DEF NonPaging!Size, Extents, NonPaging!Bytes
<1>7. g \in [A -> Int]
  <2>1. SUFFICES ASSUME NEW a \in A
                 PROVE  (IF a = 0 THEN 0
                         ELSE IF a <= k THEN request_states[a].first
                         ELSE request_states[a - k].second + 1) \in Int
    OBVIOUS
  <2>2. CASE a = 0
    BY <2>2
  <2>3. CASE a # 0 /\ a <= k
    <3>1. a \in 1..k
      BY <1>2, <2>3
    <3> QED BY <1>6, <2>3, <3>1
  <2>4. CASE a # 0 /\ ~(a <= k)
    <3>1. a - k \in 1..k
      BY <1>2, <2>4
    <3> QED BY <1>6, <2>4, <3>1
  <2> QED BY <2>2, <2>3, <2>4
<1>8. /\ 0 \in A /\ g[0] = 0
      /\ \A c \in 1..k : c \in A /\ g[c] = request_states[c].first
      /\ \A c \in 1..k : k + c \in A /\ g[k + c] = request_states[c].second + 1
  BY <1>2
<1> HIDE DEF g, A
<1>9. \A b \in B : \E a \in A : b - g[a] \in 0..((size - 1) - 1)
  <2>1. SUFFICES ASSUME NEW b \in B PROVE \E a \in A : b - g[a] \in 0..(size - 2)
    BY <1>1
  <2> DEFINE U == {x \in 0..b : free_bytes[x]}
  <2>2. b \in Nat /\ b <= MemSize - 2 /\ b \in NonPaging!Bytes
    BY <1>1 DEF NonPaging!Bytes
  <2>3. CASE U = {}
    <3>1. b < size - 1
      <4>1. SUFFICES ASSUME b >= size - 1 PROVE FALSE
        BY <1>1, <2>2
      <4>2. 0 \in 0..(MemSize - 1 - size)
        BY <1>1, <2>2, <4>1
      <4>3. FreeRun(0, size)
        BY <1>1, <2>2, <2>3, <4>1 DEF FreeRun
      <4> QED BY <1>3, <4>2, <4>3
    <3> QED BY <1>1, <1>8, <2>2, <3>1
  <2>4. CASE U # {}
    <3>1. PICK u \in U : \A x \in U : x <= u
      <4>1. U \subseteq Int /\ b \in Int /\ \A x \in U : x <= b
        BY <2>2
      <4> HIDE DEF U, B
      <4> QED BY <2>4, <4>1, GreatestInt
    <3>2. u \in Nat /\ u <= b /\ free_bytes[u] /\ u \in NonPaging!Bytes
      <4>1. u \in 0..b /\ free_bytes[u]
        OBVIOUS
      <4> HIDE DEF U
      <4> QED BY <1>1, <2>2, <4>1 DEF NonPaging!Bytes
    <3>3. \A x \in (u + 1)..b : ~free_bytes[x]
      BY <2>2, <3>1, <3>2
    <3>4. PICK c \in 1..k : u \in NonPaging!BytesOf(request_states[c])
      BY <1>2, <3>2 DEF MemoryInv, Tiles
    <3>5. u \in request_states[c].first..request_states[c].second
      BY <3>4 DEF NonPaging!BytesOf
    <3>6. CASE u = b
      <4>1. b - g[c] \in 0..(size - 2)
        BY <1>1, <1>6, <1>8, <3>2, <3>5, <3>6
      <4> QED BY <1>8, <4>1
    <3>7. CASE u < b
      \* The byte behind u is free, so u is the last one of its process.
      <4>1. u = request_states[c].second
        <5>1. SUFFICES ASSUME u # request_states[c].second PROVE FALSE
          OBVIOUS
        <5>2. u + 1 \in NonPaging!BytesOf(request_states[c]) /\ u + 1 \in NonPaging!Bytes
          BY <1>1, <1>6, <2>2, <3>2, <3>5, <3>7, <5>1 DEF NonPaging!BytesOf, NonPaging!Bytes
        <5>3. free_bytes[u + 1]
          BY <1>2, <5>2 DEF MemoryInv, Tiles
        <5> QED BY <2>2, <3>2, <3>3, <3>7, <5>3
      <4>2. b - (u + 1) < size - 1
        <5>1. SUFFICES ASSUME b - (u + 1) >= size - 1 PROVE FALSE
          BY <1>1, <2>2, <3>2
        <5>2. u + 1 \in 0..(MemSize - 1 - size)
          BY <1>1, <2>2, <3>2, <5>1
        <5>3. FreeRun(u + 1, size)
          BY <1>1, <2>2, <3>2, <3>3, <5>1 DEF FreeRun
        <5> QED BY <1>3, <5>2, <5>3
      <4>3. b - g[k + c] \in 0..(size - 2)
        BY <1>1, <1>6, <1>8, <2>2, <3>2, <3>7, <4>1, <4>2
      <4> QED BY <1>8, <4>3
    <3> QED BY <2>2, <3>2, <3>6, <3>7
  <2> QED BY <2>3, <2>4
<1>10. IsFiniteSet(A) /\ Cardinality(A) = 2 * k + 1
  <2> DEFINE top == 2 * k
  <2>1. top \in Int /\ 0 \in Int /\ ~(0 > top)
    BY <1>2
  <2> HIDE DEF top
  <2>2. IsFiniteSet(0..top) /\ Cardinality(0..top) = IF 0 > top THEN 0 ELSE top - 0 + 1
    BY <2>1, FS_Interval
  <2> QED BY <2>1, <2>2 DEF A, top
<1>11. Cardinality(B) = MemSize - 1
  <2> DEFINE top == MemSize - 2
  <2>1. top \in Int /\ 0 \in Int /\ (0 > top => MemSize - 1 = 0)
    BY <1>1
  <2> HIDE DEF top
  <2>2. Cardinality(0..top) = IF 0 > top THEN 0 ELSE top - 0 + 1
    BY <2>1, FS_Interval
  <2> QED BY <1>1, <2>1, <2>2 DEF top
<1>12. Cardinality(B) <= Cardinality(A) * (size - 1)
  <2> DEFINE m == size - 1
  <2>1. m \in Nat /\ \A b \in B : \E a \in A : b - g[a] \in 0..(m - 1)
    BY <1>1, <1>9
  <2>2. B \subseteq Int
    OBVIOUS
  <2> HIDE DEF m, B
  <2> QED BY <1>7, <1>10, <2>1, <2>2, CountByAnchor DEF m
<1>13. MemSize - 1 <= (2 * k + 1) * (size - 1)
  BY <1>10, <1>11, <1>12
<1> DEFINE product == (2 * k + 1) * (size - 1)
<1>14. product \in Int /\ MemSize - 1 <= product
  BY <1>1, <1>2, <1>13
<1>15. MemSize <= product + 1
  <2> HIDE DEF product
  <2> QED BY <1>1, <1>14
<1> QED BY <1>15 DEF k

\* A request fails only when the processes and the holes between them, each too
\* small for it, fill the memory.
THEOREM MemoryFailures == NonPaging!Spec => FailsOnlyWhenCrowded
<1>1. MemoryInv /\ [NonPaging!Next]_(NonPaging!vars) =>
        [numFaults' > numFaults =>
           \A size \in NonPaging!Sizes :
             NonPaging!Refuse(size) =>
               MemSize <= (2 * Len(request_states) + 1) * (size - 1) + 1]_(NonPaging!vars)
  BY CrowdedMemory, NonPagingAssumption
<1> QED BY <1>1, MemoryInvariance, PTL
        DEF NonPaging!Spec, FailsOnlyWhenCrowded, NonPaging!FailsOnlyWhenCrowded

-----------------------------------------------------------------------------
(* The simulations of main.cpp                                             *)

\* A run of main.cpp is a run of each simulation that stays as it is while the
\* other one is made.
LEMMA SimulationsEach == SimSpec => Spec /\ NonPaging!Spec
<1>1. SimInit => Init /\ NonPaging!Init
  BY DEF SimInit
<1>2. [SimNext]_<<simulation, vars, np_vars>> => [Next]_vars
  BY DEF SimNext
<1>3. [SimNext]_<<simulation, vars, np_vars>> => [NonPaging!Next]_(NonPaging!vars)
  BY DEF SimNext, np_vars, NonPaging!vars
<1> QED BY <1>1, <1>2, <1>3, PTL DEF SimSpec, Spec, NonPaging!Spec

\* So every simulation of main.cpp has the tables, the clean pages and the
\* processes in order, whatever the sizes,
THEOREM SimulationsAreSound == SimSpec => [](TablesAgree /\ CleanIsSwapped /\ ExtentsTile)
  BY SimulationsEach, TablesInverse, CleanPagesSafe, ExtentsAlwaysTile, PTL

\* and is a run of the page store, of the policy and of first fit.
THEOREM SimulationsAreSimulated ==
    SimSpec => /\ ImplementsStore /\ ImplementsPolicy
               /\ FirstFitButTheTail /\ FailsOnlyWhenCrowded
  BY SimulationsEach, StoreRefinement, PolicyRefinement, MemoryFirstFit, MemoryFailures, PTL
=============================================================================
