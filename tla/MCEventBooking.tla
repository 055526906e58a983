--------------------------- MODULE MCEventBooking ---------------------------
(* The booking server on small instances; the workers are interchangeable. *)
EXTENDS EventBooking, TLC

Symmetry == Permutations(Threads)
=============================================================================
