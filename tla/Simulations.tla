---------------------------- MODULE Simulations -----------------------------
(***************************************************************************)
(* The simulations that main.cpp of Assignment6/Q2 makes one after the     *)
(* other with the same number of requests: demand paging under one of its  *)
(* algorithms, and memory without paging.  They share nothing (simulate    *)
(* takes the paging system and the generator by value), so a behaviour is  *)
(* one of them; the variables of the other stay as they are.               *)
(***************************************************************************)
EXTENDS PagingPolicy

CONSTANTS MemSize, MaxProcessSize

VARIABLES simulation, free_bytes, request_states, numFaults, requests

np_vars == <<free_bytes, request_states, numFaults, requests>>

NonPaging == INSTANCE NonPaging WITH i <- requests

ASSUME NonPagingAssumption == NonPaging!SizesAssumption

\* One of the algorithms stands for all of them when there is no paging.
SimInit == /\ Init /\ NonPaging!Init
           /\ simulation = "paging" \/ (simulation = "non paging" /\ algorithm = "LRU")

SimNext == /\ UNCHANGED simulation
           /\ \/ simulation = "paging" /\ Next /\ UNCHANGED np_vars
              \/ simulation = "non paging" /\ NonPaging!Next /\ UNCHANGED vars

SimSpec == SimInit /\ [][SimNext]_<<simulation, vars, np_vars>>

-----------------------------------------------------------------------------
(* The properties of the memory without paging                             *)

\* The processes tile the used memory (lines 70-97), and one is there to be
\* evicted.
ExtentsTile == NonPaging!ExtentsTile

\* First fit finds every hole but the one at the end (lines 26-66).
FirstFitButTheTail == NonPaging!FirstFitButTheTail

\* A process goes and a request fails only in a crowded memory (70-110).
FailsOnlyWhenCrowded == NonPaging!FailsOnlyWhenCrowded
=============================================================================
