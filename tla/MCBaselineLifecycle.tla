------------------------ MODULE MCBaselineLifecycle ------------------------
(* TLC instance of BaselineLifecycle. *)
EXTENDS BaselineInvariant, TLC

Symmetry == Permutations(Procs) \cup Permutations(BuildIds)
              \cup Permutations(Sources)
=============================================================================
