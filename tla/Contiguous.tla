----------------------------- MODULE Contiguous -----------------------------
(***************************************************************************)
(* Assignment6/Q1/contiguous.cpp: a file is a run of consecutive blocks,   *)
(* found by first fit; flist has its first block and its length.  A file   *)
(* that keeps its size or shrinks stays where it is.                       *)
(*                                                                         *)
(* One size is checked against the wrong number (line 136), and the search *)
(* then leaves the disk: what the program does from there on is unknown,   *)
(* and the model stops (lost).                                             *)
(***************************************************************************)
EXTENDS Disk

VARIABLES allocated, file_val,  \* the two fields of the blocks
          flist,                \* file -> first block and length
          reply,                \* the message printed last, the length it is about
          leaked,               \* history: was a file forgotten, not freed?
          lost                  \* has the search left the disk?

vars == <<allocated, file_val, flist, reply, leaked, lost>>

Init == /\ allocated = [b \in Blocks |-> FALSE]
        /\ file_val = [b \in Blocks |-> NUL]
        /\ flist = <<>>
        /\ reply = [msg |-> "none", size |-> 0]
        /\ leaked = FALSE /\ lost = FALSE

Exists(f) == f \in DOMAIN flist
Run(first, size) == first..(first + size - 1)
Extent(f) == Run(flist[f].first, flist[f].second)
Says(msg, size) == reply' = [msg |-> msg, size |-> size]

-----------------------------------------------------------------------------
(* The search                                                              *)

isempty(b, size, taken) == \A k \in Run(b, size) : ~taken[k]

\* Mutant: the bound of the loop is one less.
HolesButLast(taken, size) ==
    {b \in Blocks : b + size < NumBlocks /\ isempty(b, size, taken)}

\* Where size blocks in a row are free; nowhere for NumBlocks + 1, when the
\* bound of the loop is zero.
Holes(taken, size) ==
    {b \in Blocks : b + size <= NumBlocks /\ isempty(b, size, taken)}

FirstFit(taken, size) ==
    CHOOSE b \in Holes(taken, size) : \A c \in Holes(taken, size) : b <= c

\* The text goes to the blocks from b on.
Fill(b, text) ==
    file_val' = [k \in Blocks |-> IF k \in Run(b, Len(text))
                                  THEN text[k - b + 1] ELSE file_val[k]]

Place(f, text, taken) ==
    LET b == FirstFit(taken, Len(text))
    IN  /\ allocated' = [k \in Blocks |-> taken[k] \/ k \in Run(b, Len(text))]
        /\ Fill(b, text)
        /\ flist' = With(flist, f, [first |-> b, second |-> Len(text)])

Freed(f) == [b \in Blocks |-> allocated[b] /\ b \notin Extent(f)]

-----------------------------------------------------------------------------
(* The commands                                                            *)

Refuse(msg, size) == /\ Says(msg, size)
                     /\ UNCHANGED <<allocated, file_val, flist, leaked, lost>>

CreateRefused(f, text) ==
    \/ Exists(f) /\ Refuse("exists", Len(text))
    \/ /\ ~Exists(f) /\ Len(text) > NumBlocks
       /\ Refuse("too big", Len(text))
    \/ /\ ~Exists(f) /\ Len(text) <= NumBlocks
       /\ Holes(allocated, Len(text)) = {}
       /\ Refuse("no space", Len(text))

Create_File(f, text) ==
    /\ ~Exists(f) /\ Len(text) <= NumBlocks
    /\ Holes(allocated, Len(text)) # {}
    /\ Place(f, text, allocated)
    /\ Says("created", Len(text))
    /\ UNCHANGED <<leaked, lost>>

DeleteRefused(f) == ~Exists(f) /\ Refuse("not found", 0)

Delete_File(f) == /\ Exists(f)
                  /\ allocated' = Freed(f)
                  /\ flist' = Without(flist, f)
                  /\ Says("deleted", 0)
                  /\ UNCHANGED <<file_val, leaked, lost>>

UpdateRefused(f, text) == ~Exists(f) /\ Refuse("not found", Len(text))

diff(f, text) == Len(text) - flist[f].second

\* More than NumBlocks longer than before: the file is forgotten, its blocks
\* stay allocated.
UpdateTooBig(f, text) ==
    /\ Exists(f) /\ diff(f, text) > NumBlocks
    /\ flist' = Without(flist, f)
    /\ Says("too big", Len(text)) /\ leaked' = TRUE
    /\ UNCHANGED <<allocated, file_val, lost>>

\* Mutant: the length kept is the old one.
UpdateInPlaceOldLength(f, text) ==
    /\ Exists(f) /\ diff(f, text) <= 0
    /\ allocated' = [b \in Blocks |-> allocated[b] /\
         b \notin Extent(f) \ Run(flist[f].first, Len(text))]
    /\ Fill(flist[f].first, text)
    /\ Says("updated", Len(text))
    /\ UNCHANGED <<flist, leaked, lost>>

\* Not longer than before: the text is overwritten, what is left over freed.
UpdateInPlace(f, text) ==
    /\ Exists(f) /\ diff(f, text) <= 0
    /\ allocated' = [b \in Blocks |-> allocated[b] /\
         b \notin Extent(f) \ Run(flist[f].first, Len(text))]
    /\ Fill(flist[f].first, text)
    /\ flist' = [flist EXCEPT ![f].second = Len(text)]
    /\ Says("updated", Len(text))
    /\ UNCHANGED <<leaked, lost>>

\* Longer: the file is freed and placed anew, or gone if there is no place.
UpdateGrow(f, text) ==
    /\ Exists(f) /\ diff(f, text) \in 1..NumBlocks
    /\ Len(text) <= NumBlocks + 1
    /\ IF Holes(Freed(f), Len(text)) # {}
         THEN Place(f, text, Freed(f)) /\ Says("updated", Len(text))
         ELSE /\ allocated' = Freed(f)
              /\ flist' = Without(flist, f)
              /\ Says("no space", Len(text))
              /\ UNCHANGED file_val
    /\ UNCHANGED <<leaked, lost>>

\* Longer still: the unsigned bound of the loop wraps around.
UpdateLost(f, text) ==
    /\ Exists(f) /\ diff(f, text) \in 1..NumBlocks
    /\ Len(text) > NumBlocks + 1
    /\ lost' = TRUE
    /\ UNCHANGED <<allocated, file_val, flist, reply, leaked>>

Create(f, text) == Create_File(f, text) \/ CreateRefused(f, text)
Delete(f) == Delete_File(f) \/ DeleteRefused(f)
Update(f, text) == \/ UpdateTooBig(f, text) \/ UpdateInPlace(f, text)
                   \/ UpdateGrow(f, text) \/ UpdateLost(f, text)
                   \/ UpdateRefused(f, text)

Next == /\ ~lost
        /\ \E f \in Files :
             \/ Delete(f)
             \/ \E text \in Texts : Create(f, text) \/ Update(f, text)

Spec == Init /\ [][Next]_vars

-----------------------------------------------------------------------------
(* Properties                                                              *)

\* Every variable has a value of its type; the files are inside of the disk.
TypeOK == /\ allocated \in [Blocks -> BOOLEAN]
          /\ file_val \in [Blocks -> Char]
          /\ DOMAIN flist \subseteq Files
          /\ \A f \in DOMAIN flist :
               /\ flist[f] \in [first : Blocks, second : 1..NumBlocks]
               /\ Extent(f) \subseteq Blocks
          /\ reply.size \in Nat
          /\ leaked \in BOOLEAN /\ lost \in BOOLEAN

\* The files lie in allocated blocks and never overlap; and until an update
\* too large for the disk (lines 136-142) forgets a file, no other block is
\* allocated.
ExtentsSound ==
    /\ \A f \in DOMAIN flist : Extent(f) \subseteq {b \in Blocks : allocated[b]}
    /\ \A f, g \in DOMAIN flist : f # g => Extent(f) \cap Extent(g) = {}
    /\ ~leaked => {b \in Blocks : allocated[b]}
                    = UNION {Extent(f) : f \in DOMAIN flist}

\* "No Contiguous Space" (lines 67, 191) is only said of a text when the free
\* blocks, at most one piece more than there are files, could indeed all be
\* in pieces too short for it.
NoSpaceIsFragmented ==
    reply.msg = "no space" /\ ~leaked =>
      Cardinality({b \in Blocks : ~allocated[b]})
        <= (Cardinality(DOMAIN flist) + 1) * (reply.size - 1)

\* What Read_File prints.
Contents(f) == [k \in 1..flist[f].second |-> file_val[flist[f].first + k - 1]]

Store == INSTANCE FileStore WITH
           EmptyOnFailure <- FALSE, Fragments <- TRUE,
           files <- [f \in DOMAIN flist |-> Contents(f)]

\* Updates in place, moves, failures and first fit never change what another
\* file holds, and a file holds what was last written to it.
ImplementsStore == Store!Spec
=============================================================================
