------------------------- MODULE ModifiedContiguous -------------------------
(***************************************************************************)
(* Assignment6/Q1/modified_contiguous.cpp: a file has ConSize consecutive  *)
(* blocks, found by first fit, and the rest of it in a chain of blocks     *)
(* anywhere; flist has its first block and its length.                     *)
(*                                                                         *)
(* Some updates write a wrong text (garbled), some leave the disk in       *)
(* disorder (torn).  The model ends with the first of the latter: from     *)
(* there on files overwrite each other.                                    *)
(***************************************************************************)
EXTENDS Disk

CONSTANT ConSize

\* con_size of the code is one of the block numbers.
ConAssumption == ConSize \in 1..NumBlocks

VARIABLES allocated, file_val, next,    \* the fields of the blocks
          flist,                        \* file -> first block and length
          leaked,       \* history: was a file forgotten, not freed?
          torn,         \* history: did a file free or give away wrong blocks?
          garbled       \* history: was a text written that was not given?

vars == <<allocated, file_val, next, flist, leaked, torn, garbled>>
history == <<leaked, torn, garbled>>

End == -1

\* A vector that is resized has zeros for elements.
Init == /\ allocated = [b \in Blocks |-> FALSE]
        /\ file_val = [b \in Blocks |-> NUL]
        /\ next = [b \in Blocks |-> 0]
        /\ flist = <<>>
        /\ leaked = FALSE /\ torn = FALSE /\ garbled = FALSE

Exists(f) == f \in DOMAIN flist
Con(f) == flist[f].first..(flist[f].first + ConSize - 1)
LastCon(f) == flist[f].first + ConSize - 1

\* The chain that hangs on the last consecutive block of f: where it is
\* after n hops, whether it ends, and its blocks when it does.
Hop(f) ==
    LET hop[n \in 0..NumBlocks] ==
          IF n = 0 THEN next[LastCon(f)]
          ELSE IF hop[n - 1] = End THEN End ELSE next[hop[n - 1]]
    IN  hop
Ends(f) == Hop(f)[NumBlocks] = End
Chain(f) ==
    LET hop == Hop(f)
    IN  [k \in 1..Cardinality({n \in 0..NumBlocks : hop[n] # End}) |-> hop[k - 1]]

Free == {b \in Blocks : ~allocated[b]}

\* Where ConSize blocks in a row are free.
Holes == {b \in Blocks : /\ b + ConSize <= NumBlocks
                         /\ \A k \in b..(b + ConSize - 1) : ~allocated[k]}

-----------------------------------------------------------------------------
(* Pieces of the commands                                                  *)

\* The fields after the text was laid out from block first on, with the
\* blocks of rest as its chain.  The chain is written last.
LinkFrom(first, rest) ==
    [b \in Blocks |->
       IF \E k \in DOMAIN rest : rest[k] = b
       THEN LET k == CHOOSE n \in DOMAIN rest : rest[n] = b
            IN  IF k = Len(rest) THEN End ELSE rest[k + 1]
       ELSE IF b = first + ConSize - 1
            THEN IF rest = <<>> THEN End ELSE rest[1]
            ELSE next[b]]

FillFrom(first, rest, text) ==
    [b \in Blocks |->
       IF \E k \in DOMAIN rest : rest[k] = b
       THEN text[ConSize + (CHOOSE n \in DOMAIN rest : rest[n] = b)]
       ELSE IF b \in first..(first + ConSize - 1) THEN text[b - first + 1]
            ELSE file_val[b]]

\* data[n], from 0: the character after the last is a NUL, what follows it
\* may be anything.
CharsAt(text, n) ==
    IF n < Len(text) THEN {text[n + 1]} ELSE IF n = Len(text) THEN {NUL} ELSE Char

-----------------------------------------------------------------------------
(* The commands                                                            *)

CreateRefused(f, text) ==
    /\ \/ Exists(f)
       \/ Len(text) > NumBlocks
       \/ ConSize > Len(text)
       \/ Len(text) > Cardinality(Free)
       \/ Holes = {}
    /\ UNCHANGED vars

Create_File(f, text) ==
    /\ ~Exists(f) /\ Len(text) \in ConSize..Cardinality(Free) /\ Holes # {}
    /\ LET first == CHOOSE b \in Holes : \A c \in Holes : b <= c
           con == first..(first + ConSize - 1)
           rest == LowestFree([b \in Blocks |-> b \in Free \ con], Len(text) - ConSize)
       IN  /\ allocated' = [b \in Blocks |-> allocated[b] \/ b \in con \cup BlocksOf(rest)]
           /\ file_val' = FillFrom(first, rest, text)
           /\ next' = LinkFrom(first, rest)
           /\ flist' = With(flist, f, [first |-> first, second |-> Len(text)])
    /\ UNCHANGED history

\* A short file has no chain.
Long(f) == flist[f].second > ConSize

Freed(f) == [b \in Blocks |-> allocated[b] /\ b \notin Con(f) \cup BlocksOf(Chain(f))]

Delete_File(f) ==
    \/ /\ Exists(f)
       /\ allocated' = IF Long(f) THEN Freed(f)
                       ELSE [b \in Blocks |-> allocated[b] /\ b \notin Con(f)]
       /\ flist' = Without(flist, f)
       /\ UNCHANGED <<file_val, next, history>>
    \/ ~Exists(f) /\ UNCHANGED vars

diff(f, text) == Len(text) - flist[f].second

\* Much longer than before, or shorter than the consecutive part: the file
\* is forgotten, its blocks stay allocated.
UpdateForget(f, text) ==
    /\ diff(f, text) > NumBlocks \/ Len(text) < ConSize
    /\ flist' = Without(flist, f)
    /\ leaked' = TRUE
    /\ UNCHANGED <<allocated, file_val, next, torn, garbled>>

\* Shorter, the consecutive part is enough: the chain is freed, but its
\* first block is still the next one of the last consecutive block.
UpdateToCon(f, text) ==
    /\ diff(f, text) < 0 /\ Len(text) = ConSize
    /\ allocated' = [b \in Blocks |-> b \in Con(f) \/ (allocated[b] /\ b \notin BlocksOf(Chain(f)))]
    /\ file_val' = [b \in Blocks |->
                      IF b \in Con(f) THEN text[b - flist[f].first + 1] ELSE file_val[b]]
    /\ flist' = [flist EXCEPT ![f].second = ConSize]
    /\ UNCHANGED <<next, history>>

\* Shorter: everything is freed, and not allocated again (line 259 marks
\* what lies in front of the blocks); the text stops at the absolute number
\* of its length, and the chain is cut behind the next block.
UpdateShrink(f, text) ==
    /\ diff(f, text) < 0 /\ Len(text) > ConSize
    /\ LET written == IF Len(text) > flist[f].first + ConSize
                      THEN Len(text) - flist[f].first - ConSize ELSE 0
           chain == Chain(f)
       IN  /\ file_val' = FillFrom(flist[f].first, SubSeq(chain, 1, written), text)
           /\ next' = [next EXCEPT ![chain[written + 1]] = End]
    /\ allocated' = Freed(f)
    /\ flist' = [flist EXCEPT ![f].second = Len(text)]
    /\ torn' = TRUE
    /\ UNCHANGED <<leaked, garbled>>

\* As long as before: the chain gets the characters that follow the absolute
\* number of the last consecutive block.
UpdateSame(f, text) ==
    /\ diff(f, text) = 0 /\ Len(text) >= ConSize
    /\ LET chain == Chain(f)
       IN  /\ \E rest \in [DOMAIN chain -> Char] :
                /\ \A k \in DOMAIN chain : rest[k] \in CharsAt(text, LastCon(f) + k)
                /\ file_val' = FillFrom(flist[f].first, chain, SubSeq(text, 1, ConSize) \o rest)
           /\ garbled' = (garbled \/ (chain # <<>> /\ flist[f].first > 0))
           /\ torn' = (torn \/ (chain # <<>> /\ ~Long(f)))
    /\ UNCHANGED <<allocated, next, flist, leaked>>

\* Longer, but the free blocks do not suffice: the blocks are freed and the
\* entry stays.
UpdateNoSpace(f, text) ==
    /\ diff(f, text) \in 1..NumBlocks /\ Len(text) >= ConSize
    /\ Cardinality(Free) < Len(text) - ConSize
    /\ allocated' = Freed(f)
    /\ torn' = TRUE
    /\ UNCHANGED <<file_val, next, flist, leaked, garbled>>

\* Mutant: the old chain is not freed.
UpdateGrowKeepingChain(f, text) ==
    /\ diff(f, text) \in 1..NumBlocks /\ Len(text) >= ConSize
    /\ Cardinality(Free) >= Len(text) - ConSize
    /\ LET rest == LowestFree([b \in Blocks |-> b \in Free], Len(text) - ConSize)
       IN  /\ allocated' = [b \in Blocks |-> allocated[b] \/ b \in BlocksOf(rest)]
           /\ file_val' = FillFrom(flist[f].first, rest, text)
           /\ next' = LinkFrom(flist[f].first, rest)
    /\ flist' = [flist EXCEPT ![f].second = Len(text)]
    /\ torn' = (torn \/ (~Long(f) /\ Chain(f) # <<>>))
    /\ UNCHANGED <<leaked, garbled>>

\* Longer: a new chain of blocks that were free before the old one was freed.
UpdateGrow(f, text) ==
    /\ diff(f, text) \in 1..NumBlocks /\ Len(text) >= ConSize
    /\ Cardinality(Free) >= Len(text) - ConSize
    /\ LET rest == LowestFree([b \in Blocks |-> b \in Free], Len(text) - ConSize)
       IN  /\ allocated' = [b \in Blocks |-> \/ b \in BlocksOf(rest)
                                             \/ allocated[b] /\ b \notin BlocksOf(Chain(f))]
           /\ file_val' = FillFrom(flist[f].first, rest, text)
           /\ next' = LinkFrom(flist[f].first, rest)
    /\ flist' = [flist EXCEPT ![f].second = Len(text)]
    /\ torn' = (torn \/ (~Long(f) /\ Chain(f) # <<>>))
    /\ UNCHANGED <<leaked, garbled>>

Update_File(f, text) ==
    \/ /\ Exists(f)
       /\ \/ UpdateForget(f, text) \/ UpdateToCon(f, text) \/ UpdateShrink(f, text)
          \/ UpdateSame(f, text) \/ UpdateNoSpace(f, text) \/ UpdateGrow(f, text)
    \/ ~Exists(f) /\ UNCHANGED vars

Next == /\ ~torn
        /\ \E f \in Files :
             \/ Delete_File(f)
             \/ \E text \in Texts : \/ Create_File(f, text) \/ CreateRefused(f, text)
                                    \/ Update_File(f, text)

Spec == Init /\ [][Next]_vars

-----------------------------------------------------------------------------
(* Properties                                                              *)

\* Every variable has a value of its type; the consecutive parts are inside
\* of the disk.
TypeOK == /\ allocated \in [Blocks -> BOOLEAN]
          /\ file_val \in [Blocks -> Char]
          /\ next \in [Blocks -> Blocks \cup {End}]
          /\ DOMAIN flist \subseteq Files
          /\ \A f \in DOMAIN flist : /\ flist[f] \in [first : Blocks, second : Nat]
                                     /\ Con(f) \subseteq Blocks
          /\ {leaked, torn, garbled} \subseteq BOOLEAN

\* The blocks of f, in the order of its text.
BlocksInOrder(f) ==
    [k \in 1..ConSize |-> flist[f].first + k - 1] \o (IF Long(f) THEN Chain(f) ELSE <<>>)

\* Until an update tears a file (lines 230-272 for a text longer than the
\* consecutive part, 305-321, and any that follows a chain kept by 245-256),
\* every file has as many blocks as characters, all of them allocated and no
\* other file's, its chain ends, and no other block is allocated unless a
\* file was forgotten (216-229).
ChainsSound ==
    LET blocks == [f \in DOMAIN flist |-> BlocksInOrder(f)]
        own == [f \in DOMAIN flist |-> BlocksOf(blocks[f])]
    IN  ~torn =>
          /\ \A f \in DOMAIN flist :
               /\ Ends(f)
               /\ Len(blocks[f]) = flist[f].second /\ Cardinality(own[f]) = flist[f].second
               /\ \A b \in own[f] : allocated[b]
          /\ \A f, g \in DOMAIN flist : f # g => own[f] \cap own[g] = {}
          /\ ~leaked => \A b \in Blocks : allocated[b] => \E f \in DOMAIN flist : b \in own[f]

\* What Read_File prints.
Contents(f) == LET blocks == BlocksInOrder(f) IN [k \in DOMAIN blocks |-> file_val[blocks[k]]]
contents == IF torn THEN <<>> ELSE [f \in DOMAIN flist |-> Contents(f)]

Store == INSTANCE FileStore WITH
           EmptyOnFailure <- FALSE, Fragments <- TRUE, files <- contents

\* Until an update tears or garbles a file, every file holds what was last
\* written to it, whatever is done to the others.
StoreUntilTorn ==
    Store!Init /\ [][torn' \/ garbled' \/ Store!Next \/ UNCHANGED contents]_vars
=============================================================================
