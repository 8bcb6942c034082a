----------------------------- MODULE Organizations -----------------------------
(***************************************************************************)
(* One organization, its members and its invitations:                      *)
(* app/backend/accounts/routers/organizations.py and orgs.py over the      *)
(* tables organizations and memberships.                                   *)
(*                                                                         *)
(* An invitation is a membership row without a user; accepting it fills    *)
(* the user in, removing a member marks the row revoked and keeps it.  As  *)
(* in DesignStore a request takes one step per query and one for its       *)
(* commit.  A check that fails ends the request with an HTTP error, which  *)
(* changes nothing: Abort ends a request at any point.                     *)
(***************************************************************************)
EXTENDS Naturals, FiniteSets

CONSTANTS
    Users,          \* people with an account, each with one email address
    Leavers,        \* those of them who may delete their account
    Ids,            \* identifiers of membership rows
    Workers,        \* requests that can run at the same time
    Roles,          \* the roles clients ask for
    MaxMembers,     \* MAX_MEMBERS
    None,           \* absent value
    Gone            \* a row that was deleted with its user

ROLE_RANK == [viewer |-> 0, member |-> 1, librarian |-> 2, admin |-> 3, owner |-> 4]

ASSUME SetsAssumption ==
    /\ IsFiniteSet(Ids)
    /\ IsFiniteSet(Workers) /\ Workers # {}
    /\ Leavers \subseteq Users
    /\ Roles \subseteq DOMAIN ROLE_RANK
ASSUME MembersAssumption == MaxMembers \in Nat \ {0}

VARIABLES
    org,        \* "absent", "live" or "deleted"
    members,    \* table memberships: row by id, None before, Gone after
    accounts,   \* users whose account exists
    req         \* the request each worker handles

vars == <<org, members, accounts, req>>

Rows == [user : Users \union {None}, email : Users \union {None},
         role : DOMAIN ROLE_RANK, accepted : BOOLEAN, revoked : BOOLEAN]

ASSUME AbsentAssumption == None \notin Rows /\ Gone \notin Rows

Stages == {"idle",
           "invite_role", "invite_count", "invite_member", "invite_pending",
           "invite_insert",
           "accept_org", "accept_member", "accept_commit",
           "change_read", "change_count", "change_owner", "change_commit",
           "remove_role", "remove_count", "remove_commit",
           "delete_role", "delete_commit"}

\* user acts; target is the membership acted on and row what was read of it;
\* role and email are what the request asks for.
Requests == [pc : Stages, user : Users \union {None}, target : Ids \union {None},
             row : Rows \union {None}, role : Roles \union {None},
             email : Users \union {None}]

NoReq == [pc |-> "idle", user |-> None, target |-> None, row |-> None,
          role |-> None, email |-> None]

--------------------------------------------------------------------------------
(* Queries *)

RowIds == {m \in Ids : members[m] \notin {None, Gone}}

LiveMembers == {m \in RowIds : ~members[m].revoked}

Accepted == {m \in LiveMembers : members[m].accepted}

Pending == LiveMembers \ Accepted

Owners == {m \in Accepted : members[m].role = "owner"}

MembershipsOf(u) == {m \in Accepted : members[m].user = u}

\* require_role: the user's membership, if any, ranks at least as high.
HasRole(u, minimum) ==
    \E m \in MembershipsOf(u) :
        ROLE_RANK[members[m].role] >= ROLE_RANK[minimum]

--------------------------------------------------------------------------------

Start(w, request) ==
    /\ req[w].pc = "idle"
    /\ req' = [req EXCEPT ![w] = request]
    /\ UNCHANGED <<org, members, accounts>>

At(w, stage) == req[w].pc = stage

\* A query whose answer lets the request go on.
Go(w, stage) ==
    /\ req' = [req EXCEPT ![w].pc = stage]
    /\ UNCHANGED <<org, members, accounts>>

Finish(w) == req' = [req EXCEPT ![w] = NoReq]

--------------------------------------------------------------------------------
(* POST /orgs.  The slug's uniqueness and the limit on organizations per   *)
(* user concern several organizations and are left out.                    *)

CreateOrg(u) ==
    /\ org = "absent"
    /\ u \in accounts
    /\ org' = "live"
    /\ \E m \in Ids :
          members' = [members EXCEPT ![m] =
              [user |-> u, email |-> None, role |-> "owner",
               accepted |-> TRUE, revoked |-> FALSE]]
    /\ UNCHANGED <<accounts, req>>

(* DELETE /orgs/{id} *)

StartDelete(w) ==
    /\ org = "live"
    /\ \E u \in accounts :
          Start(w, [NoReq EXCEPT !.pc = "delete_role", !.user = u])

DeleteRole(w) ==
    /\ At(w, "delete_role")
    /\ HasRole(req[w].user, "owner")
    /\ Go(w, "delete_commit")

DeleteCommit(w) ==
    /\ At(w, "delete_commit")
    /\ org' = "deleted"
    /\ Finish(w)
    /\ UNCHANGED <<members, accounts>>

--------------------------------------------------------------------------------
(* POST /orgs/{id}/invitations *)

StartInvite(w) ==
    /\ org = "live"
    /\ \E u \in accounts, email \in Users, role \in Roles \ {"owner"} :
          Start(w, [NoReq EXCEPT !.pc = "invite_role", !.user = u,
                                 !.role = role, !.email = email])

InviteRole(w) ==
    /\ At(w, "invite_role")
    /\ HasRole(req[w].user, "admin")
    /\ Go(w, "invite_count")

\* Mutant: the limit is tested with > instead of >=.
MembersFull_OffByOne == Cardinality(LiveMembers) > MaxMembers

MembersFull == Cardinality(LiveMembers) >= MaxMembers

InviteCount(w) ==
    /\ At(w, "invite_count")
    /\ ~MembersFull
    /\ Go(w, "invite_member")

InviteMember(w) ==
    /\ At(w, "invite_member")
    /\ req[w].email \in accounts => MembershipsOf(req[w].email) = {}
    /\ Go(w, "invite_pending")

InvitePending(w) ==
    /\ At(w, "invite_pending")
    /\ ~\E m \in Pending : members[m].email = req[w].email
    /\ Go(w, "invite_insert")

InviteInsert(w) ==
    /\ At(w, "invite_insert")
    /\ \E m \in Ids :
          /\ members[m] = None
          /\ members' = [members EXCEPT ![m] =
                 [user |-> None, email |-> req[w].email, role |-> req[w].role,
                  accepted |-> FALSE, revoked |-> FALSE]]
    /\ Finish(w)
    /\ UNCHANGED <<org, accounts>>

--------------------------------------------------------------------------------
(* POST /orgs/invitations/{id}/accept, by anyone who holds the link *)

StartAccept(w) ==
    \E u \in accounts, m \in Pending :
        Start(w, [NoReq EXCEPT !.pc = "accept_org", !.user = u, !.target = m])

AcceptOrg(w) ==
    /\ At(w, "accept_org")
    /\ org = "live"
    /\ Go(w, "accept_member")

AcceptMember(w) ==
    /\ At(w, "accept_member")
    /\ MembershipsOf(req[w].user) = {}
    /\ Go(w, "accept_commit")

\* Mutant: no unique index on (org_id, user_id).
UserIsFree_NoIndex(w) == TRUE

\* The index memberships_org_user spans every row of the organization, those
\* that were revoked included.
UserIsFree(w) ==
    \A m \in RowIds \ {req[w].target} : members[m].user # req[w].user

\* The UPDATE names the row by its key alone: it does not look again whether the
\* invitation is still pending.
AcceptCommit(w) ==
    /\ At(w, "accept_commit")
    /\ req[w].target \in RowIds
    /\ req[w].user \in accounts
    /\ UserIsFree(w)
    /\ members' = [members EXCEPT ![req[w].target].user = req[w].user,
                                  ![req[w].target].accepted = TRUE]
    /\ Finish(w)
    /\ UNCHANGED <<org, accounts>>

--------------------------------------------------------------------------------
(* PATCH /orgs/{id}/members/{id} *)

StartChange(w) ==
    \E u \in accounts, role \in Roles :
        /\ HasRole(u, "admin")
        /\ Start(w, [NoReq EXCEPT !.pc = "change_read", !.user = u, !.role = role])

\* Mutant: making somebody an owner takes no more than the admin role.
AfterRead_AnyAdmin(row, role) ==
    IF row.role = "owner" /\ role # "owner" THEN "change_count" ELSE "change_commit"

\* Which check comes next depends on the role read and the role asked for.
AfterRead(row, role) ==
    IF row.role = "owner" /\ role # "owner" THEN "change_count"
    ELSE IF role = "owner" THEN "change_owner"
    ELSE "change_commit"

ChangeRead(w) ==
    /\ At(w, "change_read")
    /\ \E m \in LiveMembers :
          req' = [req EXCEPT ![w].target = m, ![w].row = members[m],
                             ![w].pc = AfterRead(members[m], req[w].role)]
    /\ UNCHANGED <<org, members, accounts>>

\* Mutant: the owner to be demoted is not counted.
LastOwner_OffByOne == Cardinality(Owners) < 1

LastOwner == Cardinality(Owners) <= 1

ChangeCount(w) ==
    /\ At(w, "change_count")
    /\ ~LastOwner
    /\ Go(w, "change_commit")

\* A user who acts on their own membership is judged by the row the session has
\* already loaded: the ORM does not refresh it.
SessionRole(w, m) == IF m = req[w].target THEN req[w].row.role ELSE members[m].role

ChangeOwner(w) ==
    /\ At(w, "change_owner")
    /\ \E m \in MembershipsOf(req[w].user) : SessionRole(w, m) = "owner"
    /\ Go(w, "change_commit")

\* Mutant: the whole row that was loaded is written back with the new role.
ChangedRow_WholeRow(w) == [req[w].row EXCEPT !.role = req[w].role]

\* The ORM writes the role alone, and only if it differs from the one it loaded.
ChangedRow(w) ==
    IF req[w].role = req[w].row.role THEN members[req[w].target]
    ELSE [members[req[w].target] EXCEPT !.role = req[w].role]

ChangeCommit(w) ==
    /\ At(w, "change_commit")
    /\ req[w].target \in RowIds
    /\ members' = [members EXCEPT ![req[w].target] = ChangedRow(w)]
    /\ Finish(w)
    /\ UNCHANGED <<org, accounts>>

--------------------------------------------------------------------------------
(* DELETE /orgs/{id}/members/{id}: leaving, or removing somebody else *)

StartRemove(w) ==
    \E u \in accounts, m \in LiveMembers :
        Start(w, [NoReq EXCEPT !.pc = "remove_role", !.user = u, !.target = m,
                               !.row = members[m]])

RemoveNeeds(w) == IF req[w].row.user = req[w].user THEN "viewer" ELSE "admin"

RemoveRole(w) ==
    LET row == req[w].row IN
    /\ At(w, "remove_role")
    /\ HasRole(req[w].user, RemoveNeeds(w))
    /\ Go(w, IF row.role = "owner" /\ row.accepted
                            THEN "remove_count" ELSE "remove_commit")

RemoveCount(w) ==
    /\ At(w, "remove_count")
    /\ ~LastOwner
    /\ Go(w, "remove_commit")

RemoveCommit(w) ==
    /\ At(w, "remove_commit")
    /\ req[w].target \in RowIds
    /\ members' = [members EXCEPT ![req[w].target].revoked = TRUE]
    /\ Finish(w)
    /\ UNCHANGED <<org, accounts>>

--------------------------------------------------------------------------------

\* DELETE /me: the row of the user is deleted and the foreign keys cascade.
DeleteAccount(u) ==
    /\ u \in Leavers \intersect accounts
    /\ accounts' = accounts \ {u}
    /\ members' = [m \in Ids |-> IF m \in RowIds /\ members[m].user = u
                                 THEN Gone ELSE members[m]]
    /\ UNCHANGED <<org, req>>

Abort(w) ==
    /\ req[w].pc # "idle"
    /\ Finish(w)
    /\ UNCHANGED <<org, members, accounts>>

Init ==
    /\ org = "absent"
    /\ members = [m \in Ids |-> None]
    /\ accounts = Users
    /\ req = [w \in Workers |-> NoReq]

Step(w) ==
    \/ StartDelete(w) \/ DeleteRole(w) \/ DeleteCommit(w)
    \/ StartInvite(w) \/ InviteRole(w) \/ InviteCount(w) \/ InviteMember(w)
    \/ InvitePending(w) \/ InviteInsert(w)
    \/ StartAccept(w) \/ AcceptOrg(w) \/ AcceptMember(w) \/ AcceptCommit(w)
    \/ StartChange(w) \/ ChangeRead(w) \/ ChangeCount(w) \/ ChangeOwner(w)
    \/ ChangeCommit(w)
    \/ StartRemove(w) \/ RemoveRole(w) \/ RemoveCount(w) \/ RemoveCommit(w)
    \/ Abort(w)

Next ==
    \/ \E w \in Workers : Step(w)
    \/ \E u \in Users : CreateOrg(u) \/ DeleteAccount(u)

Spec == Init /\ [][Next]_vars

--------------------------------------------------------------------------------
(* Properties *)

\* Every variable has its type.
TypeOK ==
    /\ org \in {"absent", "live", "deleted"}
    /\ members \in [Ids -> Rows \union {None, Gone}]
    /\ accounts \subseteq Users
    /\ req \in [Workers -> Requests]

Inviting == {w \in Workers :
                req[w].pc \in {"invite_member", "invite_pending", "invite_insert"}}

\* invite counts the members and inserts the invitation three queries later:
\* requests that counted together pass the limit together.  Members and requests
\* let through overshoot it by less than the requests that run at once.
MembersBounded ==
    Cardinality(LiveMembers) + Cardinality(Inviting)
        <= MaxMembers - 1 + Cardinality(Workers)

\* membership_of, on which every permission check rests, never finds two rows:
\* one user cannot hold two memberships, by whatever links they accept at once.
OneMembershipPerUser ==
    /\ TypeOK
    /\ \A m, n \in Accepted : members[m].user = members[n].user => m = n

\* A removed member stays removed: no role change or acceptance that was under
\* way when the row was revoked gives the access back.
RevokedForGood ==
    [][\A m \in RowIds : members[m].revoked => m \notin LiveMembers']_vars

\* A membership row as a seat: the user and the role, or nothing if it gives no
\* access any more.
Seat(m) ==
    IF m \notin RowIds THEN members[m]
    ELSE IF members[m].revoked THEN Gone
    ELSE [holder |-> members[m].user, role |-> members[m].role]

TheRoster == INSTANCE Roster WITH
    Seats <- Ids, Ranks <- DOMAIN ROLE_RANK, Free <- None, Closed <- Gone,
    seats <- [m \in Ids |-> Seat(m)]

ASSUME SeatsAssumption ==
    /\ None # Gone /\ None \notin Users
    /\ {None, Gone} \intersect TheRoster!Taken = {}

\* Whatever invitations, acceptances, role changes and removals overlap, and
\* whoever deletes their account meanwhile, the members are a roster: what a
\* request writes into a row it read earlier never reopens a seat, gives anybody
\* a second one, or changes holder and role together.
ImplementsRoster == TheRoster!Spec

\* "the last owner is protected" (orgs.py): an organization that has not been
\* deleted has an owner, whatever role changes and removals overlap.
LastOwnerProtected == org = "live" => Owners # {}

\* What user u may do to membership m, judged by the rows of the moment the
\* change takes effect.
Allowed(u, m) ==
    LET old == members[m]
        new == members'[m]
    IN  /\ new.role # old.role => HasRole(u, "admin")
        /\ new.role # old.role /\ new.role = "owner" => HasRole(u, "owner")
        /\ new.revoked # old.revoked => HasRole(u, "admin") \/ u = old.user
================================================================================
