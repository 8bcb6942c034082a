------------------------------- MODULE MCDrawings -------------------------------
(* Instances of Drawings for TLC. *)
EXTENDS Drawings, TLC

Symmetry == Permutations(Processes) \union Permutations(Valid)
================================================================================
