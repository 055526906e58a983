--------------------------- MODULE FileAllocation ---------------------------
(***************************************************************************)
(* The programs of Assignment6/Q1, as the readme runs them: the linked and *)
(* the indexed one side by side on inputs like i1.txt, contiguous.cpp and  *)
(* modified_contiguous.cpp each on inputs like i2.txt.  A behaviour is a   *)
(* run of one of the three; the variables of the others stay as they are.  *)
(***************************************************************************)
EXTENDS SameInput

CONSTANTS ConSize,                          \* con_size of modified_contiguous.cpp
          ContiguousTexts, ModifiedTexts    \* the words of their inputs

VARIABLES program,
          c_allocated, c_val, c_flist, reply, c_leaked, lost,           \* contiguous
          m_allocated, m_val, next, m_flist, m_leaked, torn, garbled    \* modified

c_vars == <<c_allocated, c_val, c_flist, reply, c_leaked, lost>>
m_vars == <<m_allocated, m_val, next, m_flist, m_leaked, torn, garbled>>

Contiguous == INSTANCE Contiguous WITH
                allocated <- c_allocated, file_val <- c_val, flist <- c_flist,
                leaked <- c_leaked, Texts <- ContiguousTexts

Modified == INSTANCE ModifiedContiguous WITH
              allocated <- m_allocated, file_val <- m_val, flist <- m_flist,
              leaked <- m_leaked, Texts <- ModifiedTexts

ASSUME InputsAssumption ==
    /\ DiskAssumption /\ Contiguous!DiskAssumption
    /\ Modified!DiskAssumption /\ Modified!ConAssumption

RunInit == /\ program \in {"same input", "contiguous", "modified"}
           /\ Init /\ Contiguous!Init /\ Modified!Init

RunNext == /\ UNCHANGED program
           /\ \/ program = "same input" /\ Next /\ UNCHANGED <<c_vars, m_vars>>
              \/ program = "contiguous" /\ Contiguous!Next /\ UNCHANGED <<vars, m_vars>>
              \/ program = "modified" /\ Modified!Next /\ UNCHANGED <<vars, c_vars>>

RunSpec == RunInit /\ [][RunNext]_<<program, vars, c_vars, m_vars>>

-----------------------------------------------------------------------------
(* Properties of all the programs                                          *)

\* No block belongs to two files or is lost, unless contiguous.cpp (line 139)
\* or modified_contiguous.cpp (216-229) has forgotten a file or the latter has
\* torn one; the blocks of a file are as many as its text has characters.
EveryDiskSound == DisksSound /\ Contiguous!ExtentsSound /\ Modified!ChainsSound

\* contiguous.cpp says "No Contiguous Space" only when the space is in pieces.
NoSpaceIsFragmented == Contiguous!NoSpaceIsFragmented

\* What a program reads of a file is what was last written to it, whatever was
\* done to the others, and a write fails only for want of space; the promise of
\* modified_contiguous.cpp ends when an update tears or garbles a file.
EveryProgramIsStore == /\ LinkedImplementsStore /\ IndexedImplementsStore
                       /\ Contiguous!ImplementsStore /\ Modified!StoreUntilTorn
=============================================================================
