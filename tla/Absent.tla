--------------------------------- MODULE Absent ---------------------------------
(* What stands for nothing in the modules that several parts extend together: *)
(* Python's None, SQL's NULL.                                                 *)

CONSTANT None
================================================================================
