----------------------------- MODULE SameInput ------------------------------
(***************************************************************************)
(* linked_allocation.cpp and indexed_allocation.cpp on the same input, as  *)
(* the readme runs them (./a.out<i1.txt): each command is given to both.   *)
(***************************************************************************)
EXTENDS Disk

VARIABLES l_data, l_next, l_available, l_free, l_files,     \* linked
          i_data, i_available, i_free, i_files,             \* indexed
          failed    \* has a write found no space, in either program?

vars == <<l_data, l_next, l_available, l_free, l_files,
          i_data, i_available, i_free, i_files, failed>>

Linked == INSTANCE LinkedAllocation WITH
            data <- l_data, ptr_to_next_block <- l_next,
            isAvailable <- l_available, free_blocks <- l_free,
            file_descriptor <- l_files

Indexed == INSTANCE IndexedAllocation WITH
             data <- i_data, isAvailable <- i_available,
             free_blocks <- i_free, file_descriptor <- i_files

Init == Linked!Init /\ Indexed!Init /\ failed = FALSE

\* After a write the file is there and not empty, unless it failed.
Written(f) == f \in DOMAIN l_files' /\ f \in DOMAIN i_files' /\ i_files'[f] # <<>>

\* Option 0 of main, and the text.
Create(f, text) == /\ Linked!Create(f, text) \/ Linked!RefuseCreate(f)
                   /\ Indexed!Create(f, text) \/ Indexed!RefuseCreate(f)
                   /\ failed' = (failed \/ ~Written(f))

\* Option 2.
Update(f, text) == /\ Linked!Update(f, text) \/ Linked!RefuseMissing(f)
                   /\ Indexed!Update(f, text) \/ Indexed!RefuseMissing(f)
                   /\ failed' = (failed \/ (f \in DOMAIN i_files /\ ~Written(f)))

\* Option 3.
Delete(f) == /\ Linked!Delete(f) \/ Linked!RefuseMissing(f)
             /\ Indexed!Delete(f) \/ Indexed!RefuseMissing(f)
             /\ UNCHANGED failed

Next == \E f \in Files : \/ Delete(f)
                         \/ \E text \in Texts : Create(f, text) \/ Update(f, text)

Spec == Init /\ [][Next]_vars

-----------------------------------------------------------------------------
(* Properties                                                              *)

\* Every variable of both programs has a value of its type.
TypeOK == Linked!TypeOK /\ Indexed!TypeOK /\ failed \in BOOLEAN

\* On both disks no block belongs to two files, none is lost and none of a
\* file may be given away, every chain ends, and the counter that decides
\* whether there is space (lines 40 and 39) is the number of free blocks.
DisksSound == Linked!Sound /\ Indexed!Sound

\* Until a write fails the two programs hold the same files in the same
\* blocks, whatever was created, updated and deleted before.
AgreeUntilFailure ==
    ~failed =>
      /\ l_available = i_available /\ l_free = i_free
      /\ DOMAIN l_files = DOMAIN i_files
      /\ \A f \in DOMAIN l_files : /\ Linked!ChainOf(f) = Indexed!inode(f)
                                   /\ Linked!Contents(f) = Indexed!Contents(f)

\* What linked_allocation.cpp reads is what was last written, of every file:
\* a write changes no other file, and fails only for want of space.
LinkedImplementsStore == Linked!Store!Spec

\* The same of indexed_allocation.cpp, where a failed write leaves an empty
\* file.
IndexedImplementsStore == Indexed!Store!Spec
=============================================================================
