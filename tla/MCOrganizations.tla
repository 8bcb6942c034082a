---------------------------- MODULE MCOrganizations ----------------------------
(***************************************************************************)
(* Instances of Organizations for TLC.  Users are interchangeable as long  *)
(* as all of them, or none, may delete their account.  The history         *)
(* variable alone tells whether every request so far ended before the next *)
(* began and nobody deleted their account.                                 *)
(***************************************************************************)
EXTENDS Organizations, TLC

VARIABLE alone

HistoryVars == <<vars, alone>>

HistoryInit == Init /\ alone = TRUE

HistoryNext ==
    /\ Next
    /\ alone' = (alone /\ accounts' = accounts
                       /\ Cardinality({w \in Workers : req'[w].pc # "idle"}) <= 1)

HistorySpec == HistoryInit /\ [][HistoryNext]_HistoryVars

Symmetry == Permutations(Users) \union Permutations(Ids) \union Permutations(Workers)

\* "the last owner is protected" (orgs.py), as long as requests come one at a
\* time: any sequence of invitations, role changes and removals leaves an owner.
LastOwnerAlone == alone => LastOwnerProtected

\* Who may do what (orgs.py): a role is changed by an admin, ownership is given
\* by an owner, a member is removed by an admin or leaves, whichever of their
\* checks change_role and remove_member take.
OnlyAllowedAlone ==
    [][alone' => \A w \in Workers, m \in RowIds :
          req'[w] # req[w] /\ m \in RowIds' => Allowed(req[w].user, m)]_HistoryVars
================================================================================
