------------------------- MODULE IndexedAllocation --------------------------
(***************************************************************************)
(* Assignment6/Q1/indexed_allocation.cpp: file_descriptor has, for each    *)
(* file, the list of its blocks (the inode).  The program makes the entry  *)
(* before it looks for space, so a failed write leaves an empty file.      *)
(***************************************************************************)
EXTENDS Disk

VARIABLES data, isAvailable, free_blocks,
          file_descriptor           \* file -> its inode

vars == <<data, isAvailable, free_blocks, file_descriptor>>

Init == /\ data = [b \in Blocks |-> NUL]
        /\ isAvailable = [b \in Blocks |-> TRUE]
        /\ free_blocks = NumBlocks
        /\ file_descriptor = <<>>

Exists(f) == f \in DOMAIN file_descriptor
inode(f) == file_descriptor[f]

-----------------------------------------------------------------------------
Taken(available, s) == [b \in Blocks |-> available[b] /\ b \notin BlocksOf(s)]

\* write_file, for a file with an empty inode.
WriteFile(f, text, available, free, descriptor) ==
    \/ /\ Len(text) > free
       /\ isAvailable' = available
       /\ free_blocks' = free
       /\ file_descriptor' = With(descriptor, f, <<>>)
       /\ UNCHANGED data
    \/ /\ Len(text) <= free
       /\ LET s == LowestFree(available, Len(text)) IN
            /\ data' = [b \in Blocks |->
                          IF b \in BlocksOf(s)
                          THEN text[CHOOSE k \in 1..Len(text) : s[k] = b]
                          ELSE data[b]]
            /\ isAvailable' = Taken(available, s)
            /\ file_descriptor' = With(descriptor, f, s)
       /\ free_blocks' = free - Len(text)

\* What delete_file gives back.
Freed(f) == [b \in Blocks |-> isAvailable[b] \/ b \in BlocksOf(inode(f))]

FreeAfter(f) == free_blocks + Len(inode(f))

Create(f, text) ==
    /\ ~Exists(f)
    /\ WriteFile(f, text, isAvailable, free_blocks, file_descriptor)

Update(f, text) ==
    /\ Exists(f)
    /\ WriteFile(f, text, Freed(f), FreeAfter(f), Without(file_descriptor, f))

Delete(f) == /\ Exists(f)
             /\ isAvailable' = Freed(f)
             /\ free_blocks' = FreeAfter(f)
             /\ file_descriptor' = Without(file_descriptor, f)
             /\ UNCHANGED data

\* A duplicate id, or a file that is not present.
RefuseCreate(f) == Exists(f) /\ UNCHANGED vars
RefuseMissing(f) == ~Exists(f) /\ UNCHANGED vars

-----------------------------------------------------------------------------
(* Properties, for the runs of the composition                             *)

TypeOK == /\ data \in [Blocks -> Char]
          /\ isAvailable \in [Blocks -> BOOLEAN]
          /\ free_blocks \in 0..NumBlocks
          /\ DOMAIN file_descriptor \subseteq Files
          /\ \A f \in DOMAIN file_descriptor : inode(f) \in Seq(Blocks)

\* No block is twice in the inodes, they have the blocks that are not
\* available, and free_blocks counts the others.
Sound ==
    /\ \A f, g \in DOMAIN file_descriptor :
         \A i \in DOMAIN inode(f), j \in DOMAIN inode(g) :
           inode(f)[i] = inode(g)[j] => f = g /\ i = j
    /\ {b \in Blocks : ~isAvailable[b]}
         = UNION {BlocksOf(inode(f)) : f \in DOMAIN file_descriptor}
    /\ free_blocks = Cardinality({b \in Blocks : isAvailable[b]})

\* What read_file prints.
Contents(f) == [k \in DOMAIN inode(f) |-> data[inode(f)[k]]]

Store == INSTANCE FileStore WITH
           EmptyOnFailure <- TRUE, Fragments <- FALSE,
           files <- [f \in DOMAIN file_descriptor |-> Contents(f)]
=============================================================================
