----------------------------- MODULE MCDesignStore -----------------------------
(***************************************************************************)
(* Instances of DesignStore for TLC.                                       *)
(***************************************************************************)
EXTENDS DesignStore, TLC

ClientSymmetry == Permutations(Clients)

ClientNameSymmetry == Permutations(Clients) \union Permutations(Names)
================================================================================
