-------------------------- MODULE LinkedAllocation --------------------------
(***************************************************************************)
(* Assignment6/Q1/linked_allocation.cpp: a file is a chain of blocks, each *)
(* with a pointer to the next one; file_descriptor has its first block.    *)
(* A command that is refused changes nothing and is a step of its own, so  *)
(* that the program can be run side by side with another one.              *)
(***************************************************************************)
EXTENDS Disk

VARIABLES data, ptr_to_next_block,  \* the two fields of the blocks
          isAvailable, free_blocks,
          file_descriptor           \* file -> its first block

vars == <<data, ptr_to_next_block, isAvailable, free_blocks, file_descriptor>>

Init == /\ data = [b \in Blocks |-> NUL]
        /\ ptr_to_next_block = [b \in Blocks |-> 0]
        /\ isAvailable = [b \in Blocks |-> TRUE]
        /\ free_blocks = NumBlocks
        /\ file_descriptor = <<>>

NoBlock == -1
Exists(f) == f \in DOMAIN file_descriptor

\* start_block of the loops in read_file and delete_file, after k rounds.
Walk(start) ==
    LET at[k \in 0..NumBlocks] ==
          IF k = 0 THEN start
          ELSE IF at[k - 1] = NoBlock THEN NoBlock
          ELSE ptr_to_next_block[at[k - 1]]
    IN  at

\* The blocks these loops visit (the first NumBlocks of them, should a chain
\* have no end).
Chain(start) ==
    LET at == Walk(start)
    IN  [k \in 1..Cardinality({j \in 0..(NumBlocks - 1) : at[j] # NoBlock})
           |-> at[k - 1]]

ChainOf(f) == Chain(file_descriptor[f])

-----------------------------------------------------------------------------
\* The characters and the pointers that writing text to the blocks s leaves.
Place(f, text, s) ==
    LET n == Len(text)
        pos == [b \in BlocksOf(s) |-> CHOOSE k \in 1..n : s[k] = b]
    IN  /\ data' = [b \in Blocks |-> IF b \in BlocksOf(s) THEN text[pos[b]] ELSE data[b]]
        /\ ptr_to_next_block' =
             [b \in Blocks |-> IF b \notin BlocksOf(s) THEN ptr_to_next_block[b]
                               ELSE IF pos[b] = n THEN NoBlock ELSE s[pos[b] + 1]]

\* write_file, on a disk with these available blocks, counter and files.
WriteFile(f, text, available, free, descriptor) ==
    \/ /\ Len(text) > free
       /\ isAvailable' = available
       /\ free_blocks' = free
       /\ file_descriptor' = descriptor
       /\ UNCHANGED <<data, ptr_to_next_block>>
    \/ /\ Len(text) <= free
       /\ LET s == LowestFree(available, Len(text)) IN
            /\ Place(f, text, s)
            /\ isAvailable' = [b \in Blocks |-> available[b] /\ b \notin BlocksOf(s)]
            /\ file_descriptor' = With(descriptor, f, s[1])
       /\ free_blocks' = free - Len(text)

\* What delete_file gives back.
Freed(f) == [b \in Blocks |-> isAvailable[b] \/ b \in BlocksOf(ChainOf(f))]
FreeAfter(f) == free_blocks + Len(ChainOf(f))

Create(f, text) ==
    /\ ~Exists(f)
    /\ WriteFile(f, text, isAvailable, free_blocks, file_descriptor)

\* Mutant: the old blocks are not given back.
UpdateLeaking(f, text) ==
    /\ Exists(f)
    /\ WriteFile(f, text, isAvailable, free_blocks, Without(file_descriptor, f))

\* The file is deleted first, also when the new text will not fit.
Update(f, text) ==
    /\ Exists(f)
    /\ WriteFile(f, text, Freed(f), FreeAfter(f), Without(file_descriptor, f))

Delete(f) == /\ Exists(f)
             /\ isAvailable' = Freed(f)
             /\ free_blocks' = FreeAfter(f)
             /\ file_descriptor' = Without(file_descriptor, f)
             /\ UNCHANGED <<data, ptr_to_next_block>>

\* A duplicate id, or a file that is not present.
RefuseCreate(f) == Exists(f) /\ UNCHANGED vars
RefuseMissing(f) == ~Exists(f) /\ UNCHANGED vars

-----------------------------------------------------------------------------
(* Properties, for the runs of the composition                             *)

TypeOK == /\ data \in [Blocks -> Char]
          /\ ptr_to_next_block \in [Blocks -> Blocks \cup {NoBlock}]
          /\ isAvailable \in [Blocks -> BOOLEAN]
          /\ free_blocks \in 0..NumBlocks
          /\ DOMAIN file_descriptor \subseteq Files
          /\ \A f \in DOMAIN file_descriptor : file_descriptor[f] \in Blocks

\* The chains end, share no block, and are together the blocks that are not
\* available; free_blocks counts the others.
Sound ==
    /\ \A f \in DOMAIN file_descriptor :
         Walk(file_descriptor[f])[NumBlocks] = NoBlock
    /\ \A f, g \in DOMAIN file_descriptor :
         f # g => BlocksOf(ChainOf(f)) \cap BlocksOf(ChainOf(g)) = {}
    /\ {b \in Blocks : ~isAvailable[b]}
         = UNION {BlocksOf(ChainOf(f)) : f \in DOMAIN file_descriptor}
    /\ free_blocks = Cardinality({b \in Blocks : isAvailable[b]})

\* What read_file prints.
Contents(f) == LET chain == ChainOf(f)
               IN  [k \in DOMAIN chain |-> data[chain[k]]]

Store == INSTANCE FileStore WITH
           EmptyOnFailure <- FALSE, Fragments <- FALSE,
           files <- [f \in DOMAIN file_descriptor |-> Contents(f)]
=============================================================================
