-------------------------------- MODULE MCHome --------------------------------
(* An instance of Home for TLC. *)
EXTENDS Home, TLC

\* Runs execute the same code, and no key differs from another.
Symmetry == Permutations(Procs) \cup Permutations(Keys)
=============================================================================
