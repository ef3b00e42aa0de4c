-------------------------- MODULE MCGenerationQueue --------------------------
(* The generation queue on a small instance. *)
EXTENDS GenerationQueue, TLC

Symmetry == Permutations(Gen) \cup Permutations(Owner)
              \cup Permutations(Caller) \cup Permutations(Sweeper)
=============================================================================
