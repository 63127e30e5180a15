------------------------------ MODULE MCRouter ------------------------------
(* Router with one or two tunnels that have a descriptor, and usernat. *)
EXTENDS Router, TLC

\* Threads are alike, and so are the tunnels with a descriptor.
Symmetry == Permutations(Threads) \cup Permutations(FdTuns)
=============================================================================
