--------------------------------- MODULE Roster ---------------------------------
(***************************************************************************)
(* What an organization promises about its members, with no requests or    *)
(* queries in sight: a roster of seats.  The first is its founder's.       *)
(* Others are offered, taken by somebody who has no other, given a role,   *)
(* and closed, one at a time; a closed seat is never used again.           *)
(*                                                                         *)
(* A seat may be taken from who took it first: an invitation belongs to    *)
(* whoever accepts it last.                                                *)
(***************************************************************************)
CONSTANTS
    Users,      \* who may take a seat
    Seats,      \* seats, offered or not
    Ranks,      \* the roles there are
    None,       \* nobody
    Free,       \* a seat not offered so far
    Closed      \* a seat that was given up

VARIABLE seats

Taken == [holder : Users \union {None}, role : Ranks]

Open == {m \in Seats : seats[m] \notin {Free, Closed}}

Init == seats = [m \in Seats |-> Free]

Becomes(m, seat) == seats' = [seats EXCEPT ![m] = seat]

Found(m) ==
    /\ \A n \in Seats : seats[n] = Free
    /\ \E u \in Users : Becomes(m, [holder |-> u, role |-> "owner"])

Offer(m) ==
    /\ seats[m] = Free
    /\ \E n \in Seats : seats[n] # Free
    /\ \E role \in Ranks \ {"owner"} : Becomes(m, [holder |-> None, role |-> role])

Take(m) ==
    \E u \in Users :
        /\ \A n \in Open \ {m} : seats[n].holder # u
        /\ Becomes(m, [seats[m] EXCEPT !.holder = u])

Grant(m) == \E role \in Ranks : Becomes(m, [seats[m] EXCEPT !.role = role])

Close(m) == Becomes(m, Closed)

Next ==
    \/ \E m \in Seats : Found(m) \/ Offer(m)
    \/ \E m \in Open : Take(m) \/ Grant(m) \/ Close(m)

Spec == Init /\ [][Next]_seats
================================================================================
