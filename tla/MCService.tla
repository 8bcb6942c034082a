-------------------------------- MODULE MCService --------------------------------
(***************************************************************************)
(* The parts of the service for TLC, with the keys of the plot cache,      *)
(* which are compared once.                                                *)
(***************************************************************************)
EXTENDS Service

K == INSTANCE MCCoreKeys

\* What Drawings takes for a key is of one core or of one shape, whichever task
\* made the row, and does not depend on wording that says nothing (plotter.py).
KeysTellCores == part = "keys" => K!KeysTellCores
================================================================================
