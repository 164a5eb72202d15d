--------------------------- MODULE MCCoordinator ----------------------------
(* Bounded instances of Coordinator.                                       *)
EXTENDS Coordinator, TLC

Symmetry ==
  Permutations(Handlers) \cup Permutations(Workers) \cup Permutations(Tasks)
=============================================================================
