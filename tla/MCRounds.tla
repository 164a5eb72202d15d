------------------------------ MODULE MCRounds ------------------------------
(* Bounded instances of Rounds.                                            *)
EXTENDS Rounds, TLC

Symmetry == Permutations(Workers) \cup Permutations(Tasks)
=============================================================================
