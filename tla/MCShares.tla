-------------------------------- MODULE MCShares --------------------------------
(***************************************************************************)
(* Instances of Shares for TLC.  The history variable alone tells whether  *)
(* every request so far ended before the next began.                       *)
(***************************************************************************)
EXTENDS Shares, TLC

VARIABLE alone

HistoryVars == <<vars, alone>>

HistoryInit == Init /\ alone = TRUE

HistoryNext ==
    /\ Next
    /\ alone' = (alone /\ Cardinality({w \in Workers : req'[w].pc # "idle"}) <= 1)

HistorySpec == HistoryInit /\ [][HistoryNext]_HistoryVars

Symmetry == Permutations(Links) \union Permutations(Mounts)
                \union Permutations(Users) \union Permutations(Workers)

\* Requests that come one at a time never mount a link twice, through any
\* sequence of mounting and unmounting.
MountedOnceAlone == alone => MountedOnce
================================================================================
