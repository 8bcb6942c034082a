--------------------------------- MODULE Grants ---------------------------------
(***************************************************************************)
(* What sharing promises, with no requests, tables or visits in sight: a   *)
(* grant per link.  It is for one thing and stays so; once withdrawn it is *)
(* not given again; those who follow it come and go one at a time, and     *)
(* only an inventory can be followed.                                      *)
(*                                                                         *)
(* The followers of a grant that is withdrawn stay on its list, to no      *)
(* avail; somebody who was let in before may still join it.                *)
(***************************************************************************)
CONSTANTS
    Links,      \* what grants are made with
    Users,      \* who may follow one
    Revisions,  \* the revisions a grant may be pinned to
    None        \* a link not made so far; not pinned

VARIABLE grants

Held == [kind : {"design", "inventory"}, pinned : Revisions \union {None},
         live : BOOLEAN, followers : SUBSET Users]

Init == grants = [l \in Links |-> None]

Made == {l \in Links : grants[l] # None}

Becomes(l, grant) == grants' = [grants EXCEPT ![l] = grant]

Grant(l) ==
    \E kind \in {"design", "inventory"}, pinned \in Revisions \union {None} :
        /\ kind = "inventory" => pinned = None
        /\ Becomes(l, [kind |-> kind, pinned |-> pinned, live |-> TRUE, followers |-> {}])

Withdraw(l) == Becomes(l, [grants[l] EXCEPT !.live = FALSE])

Follow(l) ==
    /\ grants[l].kind = "inventory"
    /\ \E u \in Users : Becomes(l, [grants[l] EXCEPT !.followers = @ \union {u}])

Unfollow(l) ==
    \E u \in Users : Becomes(l, [grants[l] EXCEPT !.followers = @ \ {u}])

Next ==
    \/ \E l \in Links \ Made : Grant(l)
    \/ \E l \in Made : Withdraw(l) \/ Follow(l) \/ Unfollow(l)

Spec == Init /\ [][Next]_grants
================================================================================
