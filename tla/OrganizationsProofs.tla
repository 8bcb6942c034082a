-------------------------- MODULE OrganizationsProofs ---------------------------
(***************************************************************************)
(* Theorems of Organizations, for any number of users, rows and requests   *)
(* at once and any limit on members.                                       *)
(*                                                                         *)
(* All of them rest on what one step can do to the table: nothing, a new   *)
(* row, a change of one row, or rows deleted with their user (RowsAfter).  *)
(*                                                                         *)
(* That the members are a roster rests besides on who may be in the table: *)
(* nobody before the organization is created, no invited owner, and no     *)
(* user who has not accepted (RosterInv).                                  *)
(*                                                                         *)
(* The two theorems of MCOrganizations, about requests that come one at a  *)
(* time, need that what the request under way has read is what the table   *)
(* still holds, and that each check it passed would pass again             *)
(* (RequestTrue).                                                          *)
(***************************************************************************)
EXTENDS MCOrganizations, FiniteSetTheorems, TLAPS

InviteStages == {"invite_role", "invite_count", "invite_member", "invite_pending",
                 "invite_insert"}

ChangeStages == {"change_read", "change_count", "change_owner", "change_commit"}

\* Before the organization is created there is no row and no invitation under way.
Unborn ==
    org = "absent" =>
        /\ RowIds = {}
        /\ \A w \in Workers : req[w].pc \notin InviteStages

\* What the commits write is a role.
RolesAsked ==
    \A w \in Workers :
        req[w].pc \in InviteStages \union ChangeStages => req[w].role \in Roles

\* No two accepted rows of one user, revoked rows included.
OneRowPerUser ==
    \A m, n \in RowIds :
        /\ members[m].accepted /\ members[n].accepted
        /\ members[m].user = members[n].user
        => m = n

Inv == TypeOK /\ Unborn /\ RolesAsked /\ OneRowPerUser

\* Row m, which was there, becomes new: it stays revoked, and keeps its user or
\* gets one that no other row has.
Becomes(m, new) ==
    /\ members' = [members EXCEPT ![m] = new]
    /\ members[m].revoked => new.revoked
    /\ \/ new.user = members[m].user /\ new.accepted = members[m].accepted
       \/ \A n \in RowIds \ {m} : members[n].user # new.user

--------------------------------------------------------------------------------

LEMMA StagesAreStages ==
    /\ InviteStages \subseteq Stages
    /\ ChangeStages \subseteq Stages
    /\ "idle" \in Stages \ (InviteStages \union ChangeStages)
  BY DEF Stages, InviteStages, ChangeStages

LEMMA RowIdsTyped ==
    ASSUME TypeOK PROVE RowIds \subseteq Ids /\ \A m \in RowIds : members[m] \in Rows
  BY DEF TypeOK, RowIds

\* The steps that write the table.
Writes ==
    \/ \E u \in Users : CreateOrg(u) \/ DeleteAccount(u)
    \/ \E w \in Workers : \/ InviteInsert(w) \/ AcceptCommit(w)
                          \/ ChangeCommit(w) \/ RemoveCommit(w)

LEMMA OthersRead == ASSUME Next, ~Writes PROVE members' = members
  BY DEF Writes, Next, Step, Start, Go, StartDelete, DeleteRole, DeleteCommit, StartInvite,
         InviteRole, InviteCount, InviteMember, InvitePending, StartAccept,
         AcceptOrg, AcceptMember, StartChange, ChangeRead, ChangeCount,
         ChangeOwner, StartRemove, RemoveRole, RemoveCount, Abort

\* The founder's row.
LEMMA CreatesRow ==
    ASSUME NEW u \in Users, CreateOrg(u)
    PROVE  \E m \in Ids, new \in Rows :
              /\ members' = [members EXCEPT ![m] = new]
              /\ new.user = u /\ new.accepted /\ ~new.revoked /\ new.role = "owner"
  <1> DEFINE new == [user |-> u, email |-> None, role |-> "owner",
                     accepted |-> TRUE, revoked |-> FALSE]
  <1>1. PICK m \in Ids : members' = [members EXCEPT ![m] = new]
    BY DEF CreateOrg
  <1>2. /\ new \in Rows
        /\ new.user = u /\ new.accepted /\ ~new.revoked /\ new.role = "owner"
    BY DEF Rows, ROLE_RANK
  <1> HIDE DEF new
  <1> QED
    BY <1>1, <1>2

\* The row of an invitation has no user yet.
LEMMA InsertsRow ==
    ASSUME Inv, NEW w \in Workers, InviteInsert(w)
    PROVE  \E m \in Ids, new \in Rows :
              /\ members[m] = None /\ members' = [members EXCEPT ![m] = new]
              /\ new.user = None /\ ~new.accepted /\ ~new.revoked
              /\ new.role = req[w].role
  <1> DEFINE new == [user |-> None, email |-> req[w].email, role |-> req[w].role,
                     accepted |-> FALSE, revoked |-> FALSE]
  <1>1. PICK m \in Ids : members[m] = None /\ members' = [members EXCEPT ![m] = new]
    BY DEF InviteInsert
  <1>2. req[w] \in Requests /\ req[w].role \in Roles
    BY DEF InviteInsert, At, Inv, TypeOK, RolesAsked, InviteStages
  <1>3. /\ new \in Rows /\ new.user = None /\ ~new.accepted /\ ~new.revoked
        /\ new.role = req[w].role
    BY <1>2, SetsAssumption DEF Rows, Requests
  <1> HIDE DEF new
  <1> QED
    BY <1>1, <1>3

\* An acceptance fills in a user whom no other row has.
LEMMA AcceptsRow ==
    ASSUME Inv, NEW w \in Workers, AcceptCommit(w)
    PROVE  \E m \in RowIds, new \in Rows :
              /\ members' = [members EXCEPT ![m] = new]
              /\ new.user \in Users /\ new.accepted
              /\ new.revoked = members[m].revoked /\ new.role = members[m].role
              /\ \A n \in RowIds \ {m} : members[n].user # new.user
  <1> DEFINE m == req[w].target
             new == [[members[m] EXCEPT !.user = req[w].user] EXCEPT !.accepted = TRUE]
  <1>1. m \in RowIds /\ m \in Ids /\ members[m] \in Rows /\ req[w].user \in Users
    BY RowIdsTyped DEF AcceptCommit, Inv, TypeOK
  <1>2. members' = [members EXCEPT ![m] = new]
    BY <1>1 DEF AcceptCommit, Inv, TypeOK
  <1>3. /\ new \in Rows /\ new.user = req[w].user /\ new.accepted
        /\ new.revoked = members[m].revoked /\ new.role = members[m].role
    BY <1>1 DEF Rows
  <1>4. \A n \in RowIds \ {m} : members[n].user # new.user
    BY <1>3 DEF AcceptCommit, UserIsFree
  <1> HIDE DEF new
  <1> QED
    BY <1>1, <1>2, <1>3, <1>4

\* A change of role, or none.
LEMMA ChangesRow ==
    ASSUME Inv, NEW w \in Workers, ChangeCommit(w)
    PROVE  \E m \in RowIds, new \in Rows :
              /\ members' = [members EXCEPT ![m] = new]
              /\ new.user = members[m].user /\ new.accepted = members[m].accepted
              /\ new.revoked = members[m].revoked
  <1> DEFINE m == req[w].target
  <1>1. m \in RowIds /\ members[m] \in Rows /\ req[w].role \in DOMAIN ROLE_RANK
    BY RowIdsTyped, SetsAssumption DEF ChangeCommit, At, Inv, RolesAsked, ChangeStages
  <1>2. /\ ChangedRow(w) \in Rows
        /\ ChangedRow(w).revoked = members[m].revoked
        /\ ChangedRow(w).user = members[m].user
        /\ ChangedRow(w).accepted = members[m].accepted
    BY <1>1 DEF ChangedRow, Rows
  <1> QED
    BY <1>1, <1>2 DEF ChangeCommit

\* A removal marks the row.
LEMMA RemovesRow ==
    ASSUME Inv, NEW w \in Workers, RemoveCommit(w)
    PROVE  \E m \in RowIds, new \in Rows :
              /\ members' = [members EXCEPT ![m] = new]
              /\ new.user = members[m].user /\ new.accepted = members[m].accepted
              /\ new.revoked
  <1> DEFINE m == req[w].target
             new == [members[m] EXCEPT !.revoked = TRUE]
  <1>1. m \in RowIds /\ m \in Ids /\ members[m] \in Rows
    BY RowIdsTyped DEF RemoveCommit, Inv
  <1>2. members' = [members EXCEPT ![m] = new]
    BY <1>1 DEF RemoveCommit, Inv, TypeOK
  <1>3. /\ new \in Rows /\ new.revoked
        /\ new.user = members[m].user /\ new.accepted = members[m].accepted
    BY <1>1 DEF Rows
  <1> HIDE DEF new
  <1> QED
    BY <1>1, <1>2, <1>3

\* What each step does to the table.
LEMMA RowsAfter ==
    ASSUME Inv, Next
    PROVE  \/ members' = members
           \/ \E m \in Ids \ RowIds, new \in Rows :
                 /\ members' = [members EXCEPT ![m] = new]
                 /\ (org = "absent" /\ RowIds = {}) \/ ~new.accepted
           \/ \E m \in RowIds, new \in Rows : Becomes(m, new)
           \/ /\ members' = [m \in Ids |-> members'[m]]
              /\ \A m \in Ids : members'[m] \in {members[m], Gone}
  <1> USE DEF Inv
  <1>1. CASE \E u \in Users : CreateOrg(u)
    <2>1. org = "absent" /\ RowIds = {}
      BY <1>1 DEF CreateOrg, Unborn
    <2> QED
      BY <1>1, <2>1, CreatesRow
  <1>2. CASE \E u \in Users : DeleteAccount(u)
    BY <1>2 DEF DeleteAccount
  <1>3. CASE \E w \in Workers : InviteInsert(w)
    BY <1>3, InsertsRow DEF RowIds
  <1>4. CASE \E w \in Workers : AcceptCommit(w)
    BY <1>4, AcceptsRow DEF Becomes
  <1>5. CASE \E w \in Workers : ChangeCommit(w)
    BY <1>5, ChangesRow DEF Becomes
  <1>6. CASE \E w \in Workers : RemoveCommit(w)
    BY <1>6, RemovesRow DEF Becomes
  <1>7. CASE ~Writes
    BY <1>7, OthersRead
  <1> QED
    BY <1>1, <1>2, <1>3, <1>4, <1>5, <1>6, <1>7 DEF Writes

\* The table keeps its type, and no user gets a second accepted row.
LEMMA TableKept ==
    ASSUME Inv, Next
    PROVE  members' \in [Ids -> Rows \union {None, Gone}] /\ OneRowPerUser'
  <1> USE RowIdsTyped DEF Inv
  <1>1. CASE members' = members
    BY <1>1 DEF TypeOK, OneRowPerUser, RowIds
  <1>2. CASE \E m \in Ids \ RowIds, new \in Rows :
                /\ members' = [members EXCEPT ![m] = new]
                /\ (org = "absent" /\ RowIds = {}) \/ ~new.accepted
    <2>1. PICK m \in Ids \ RowIds, new \in Rows :
             /\ members' = [members EXCEPT ![m] = new]
             /\ (org = "absent" /\ RowIds = {}) \/ ~new.accepted
      BY <1>2
    <2>2. RowIds' \subseteq RowIds \union {m}
      BY <2>1 DEF RowIds, TypeOK
    <2>3. members'[m] = new /\ \A n \in RowIds : members'[n] = members[n]
      BY <2>1 DEF TypeOK
    <2>4. OneRowPerUser'
      BY <2>1, <2>2, <2>3 DEF OneRowPerUser
    <2> QED
      BY <2>1, <2>4 DEF TypeOK
  <1>3. CASE \E m \in RowIds, new \in Rows : Becomes(m, new)
    <2>1. PICK m \in RowIds, new \in Rows : Becomes(m, new)
      BY <1>3
    <2>2. RowIds' \subseteq RowIds
      BY <2>1 DEF RowIds, TypeOK, Becomes
    <2>3. members'[m] = new /\ \A n \in RowIds \ {m} : members'[n] = members[n]
      BY <2>1 DEF TypeOK, Becomes
    <2>4. OneRowPerUser'
      BY <2>1, <2>2, <2>3 DEF OneRowPerUser, Becomes
    <2> QED
      BY <2>1, <2>4 DEF TypeOK, Becomes
  <1>4. CASE /\ members' = [m \in Ids |-> members'[m]]
             /\ \A m \in Ids : members'[m] \in {members[m], Gone}
    <2>1. /\ RowIds' \subseteq RowIds
          /\ \A m \in RowIds' : members'[m] = members[m]
      BY <1>4 DEF RowIds
    <2> QED
      BY <1>4, <2>1 DEF TypeOK, OneRowPerUser
  <1> QED
    BY <1>1, <1>2, <1>3, <1>4, RowsAfter

\* A request that starts, goes on or ends stays typed.
LEMMA RequestMoves ==
    ASSUME TypeOK, NEW w \in Workers
    PROVE  /\ NoReq \in Requests
           /\ \A request \in Requests :
                 req' = [req EXCEPT ![w] = request] =>
                    /\ req' \in [Workers -> Requests]
                    /\ req'[w] = request
                    /\ \A v \in Workers \ {w} : req'[v] = req[v]
           /\ \A stage \in Stages :
                 req' = [req EXCEPT ![w].pc = stage] =>
                    /\ req' \in [Workers -> Requests]
                    /\ req'[w].pc = stage /\ req'[w].role = req[w].role
                    /\ \A v \in Workers \ {w} : req'[v] = req[v]
  <1>1. NoReq \in Requests
    BY DEF NoReq, Requests, Stages
  <1>2. ASSUME NEW request \in Requests, req' = [req EXCEPT ![w] = request]
        PROVE  /\ req' \in [Workers -> Requests]
               /\ req'[w] = request
               /\ \A v \in Workers \ {w} : req'[v] = req[v]
    BY <1>2 DEF TypeOK
  <1>3. ASSUME NEW stage \in Stages, req' = [req EXCEPT ![w].pc = stage]
        PROVE  /\ req' \in [Workers -> Requests]
               /\ req'[w].pc = stage /\ req'[w].role = req[w].role
               /\ \A v \in Workers \ {w} : req'[v] = req[v]
    <2>1. req[w] \in Requests
      BY DEF TypeOK
    <2>2. /\ [req[w] EXCEPT !.pc = stage] \in Requests
          /\ [req[w] EXCEPT !.pc = stage].pc = stage
          /\ [req[w] EXCEPT !.pc = stage].role = req[w].role
      BY <2>1 DEF Requests
    <2> QED
      BY <1>3, <2>2 DEF TypeOK
  <1> QED
    BY <1>1, <1>2, <1>3

\* A request that goes on changes its stage alone.
LEMMA GoesOn ==
    ASSUME TypeOK, NEW w \in Workers, NEW stage, req' = [req EXCEPT ![w].pc = stage]
    PROVE  /\ req'[w].pc = stage /\ req'[w].user = req[w].user
           /\ req'[w].target = req[w].target /\ req'[w].row = req[w].row
           /\ req'[w].role = req[w].role
  BY DEF TypeOK, Requests

\* What one request's step leaves: types, and the role it may write.
LEMMA StepMoves ==
    ASSUME Inv, NEW w \in Workers, Step(w)
    PROVE  /\ req' \in [Workers -> Requests]
           /\ \A v \in Workers \ {w} : req'[v] = req[v]
           /\ req'[w].pc \in InviteStages \union ChangeStages => req'[w].role \in Roles
           /\ req'[w].pc \in InviteStages => org # "absent" \/ req[w].pc \in InviteStages
           /\ req'[w].pc \in {"invite_member", "invite_pending", "invite_insert"} =>
                 \/ req[w].pc \in {"invite_member", "invite_pending", "invite_insert"}
                 \/ InviteCount(w)
  <1> USE RequestMoves, StagesAreStages DEF Inv
  <1>1. CASE StartDelete(w)
    <2>1. PICK u \in accounts : Start(w, [NoReq EXCEPT !.pc = "delete_role", !.user = u])
      BY <1>1 DEF StartDelete
    <2> DEFINE q == [[NoReq EXCEPT !.pc = "delete_role"] EXCEPT !.user = u]
    <2>2. q \in Requests /\ q.pc = "delete_role"
      BY <2>1 DEF NoReq, Requests, Stages, TypeOK
    <2>3. req' = [req EXCEPT ![w] = q]
      BY <2>1 DEF Start
    <2> HIDE DEF q
    <2> QED
      BY <2>2, <2>3 DEF InviteStages, ChangeStages
  <1>2. CASE StartInvite(w)
    <2>1. PICK u \in accounts, email \in Users, role \in Roles \ {"owner"} :
             Start(w, [NoReq EXCEPT !.pc = "invite_role", !.user = u,
                                    !.role = role, !.email = email])
      BY <1>2 DEF StartInvite
    <2> DEFINE q == [[[[NoReq EXCEPT !.pc = "invite_role"] EXCEPT !.user = u]
                         EXCEPT !.role = role] EXCEPT !.email = email]
    <2>2. q \in Requests /\ q.pc = "invite_role" /\ q.role \in Roles
      BY <2>1 DEF NoReq, Requests, Stages, TypeOK
    <2>3. req' = [req EXCEPT ![w] = q]
      BY <2>1 DEF Start
    <2>4. org # "absent"
      BY <1>2 DEF StartInvite
    <2> HIDE DEF q
    <2> QED
      BY <2>2, <2>3, <2>4 DEF InviteStages, ChangeStages
  <1>3. CASE StartAccept(w)
    <2>1. PICK u \in accounts, m \in Pending :
             Start(w, [NoReq EXCEPT !.pc = "accept_org", !.user = u, !.target = m])
      BY <1>3 DEF StartAccept
    <2> DEFINE q == [[[NoReq EXCEPT !.pc = "accept_org"] EXCEPT !.user = u]
                        EXCEPT !.target = m]
    <2>2. m \in Ids
      BY <2>1 DEF Pending, LiveMembers, RowIds
    <2>3. q \in Requests /\ q.pc = "accept_org"
      BY <2>1, <2>2 DEF NoReq, Requests, Stages, TypeOK
    <2>4. req' = [req EXCEPT ![w] = q]
      BY <2>1 DEF Start
    <2> HIDE DEF q
    <2> QED
      BY <2>3, <2>4 DEF InviteStages, ChangeStages
  <1>4. CASE StartChange(w)
    <2>1. PICK u \in accounts, role \in Roles :
             Start(w, [NoReq EXCEPT !.pc = "change_read", !.user = u, !.role = role])
      BY <1>4 DEF StartChange
    <2> DEFINE q == [[[NoReq EXCEPT !.pc = "change_read"] EXCEPT !.user = u]
                        EXCEPT !.role = role]
    <2>2. q \in Requests /\ q.pc = "change_read" /\ q.role \in Roles
      BY <2>1 DEF NoReq, Requests, Stages, TypeOK
    <2>3. req' = [req EXCEPT ![w] = q]
      BY <2>1 DEF Start
    <2> HIDE DEF q
    <2> QED
      BY <2>2, <2>3 DEF InviteStages, ChangeStages
  <1>5. CASE ChangeRead(w)
    <2>1. PICK m \in LiveMembers :
             req' = [req EXCEPT ![w].target = m, ![w].row = members[m],
                                ![w].pc = AfterRead(members[m], req[w].role)]
      BY <1>5 DEF ChangeRead
    <2> DEFINE next == AfterRead(members[m], req[w].role)
               q == [[[req[w] EXCEPT !.target = m] EXCEPT !.row = members[m]]
                        EXCEPT !.pc = next]
    <2>2. m \in Ids /\ members[m] \in Rows /\ req[w] \in Requests
      BY RowIdsTyped DEF LiveMembers, TypeOK
    <2>3. next \in {"change_count", "change_owner", "change_commit"}
      BY DEF AfterRead
    <2>4. req[w].role \in Roles
      BY <1>5 DEF ChangeRead, At, RolesAsked, ChangeStages
    <2> HIDE DEF next
    <2>5. q \in Requests /\ q.pc = next /\ q.role = req[w].role
      BY <2>2, <2>3 DEF Requests, Stages
    <2>6. req' = [req EXCEPT ![w] = q]
      BY <2>1 DEF TypeOK, next
    <2> HIDE DEF q
    <2> QED
      BY <2>3, <2>4, <2>5, <2>6 DEF InviteStages, ChangeStages
  <1>6. CASE StartRemove(w)
    <2>1. PICK u \in accounts, m \in LiveMembers :
             Start(w, [NoReq EXCEPT !.pc = "remove_role", !.user = u, !.target = m,
                                    !.row = members[m]])
      BY <1>6 DEF StartRemove
    <2> DEFINE q == [[[[NoReq EXCEPT !.pc = "remove_role"] EXCEPT !.user = u]
                         EXCEPT !.target = m] EXCEPT !.row = members[m]]
    <2>2. m \in Ids /\ members[m] \in Rows
      BY RowIdsTyped DEF LiveMembers
    <2>3. q \in Requests /\ q.pc = "remove_role"
      BY <2>1, <2>2 DEF NoReq, Requests, Stages, TypeOK
    <2>4. req' = [req EXCEPT ![w] = q]
      BY <2>1 DEF Start
    <2> HIDE DEF q
    <2> QED
      BY <2>3, <2>4 DEF InviteStages, ChangeStages
  <1>7. CASE \/ DeleteRole(w) \/ InviteRole(w) \/ InviteCount(w) \/ InviteMember(w)
             \/ InvitePending(w) \/ AcceptOrg(w) \/ AcceptMember(w) \/ ChangeCount(w)
             \/ ChangeOwner(w) \/ RemoveRole(w) \/ RemoveCount(w)
    <2>1. PICK stage \in Stages :
             /\ req' = [req EXCEPT ![w].pc = stage]
             /\ stage \in InviteStages => req[w].pc \in InviteStages
             /\ stage \in ChangeStages => req[w].pc \in ChangeStages
             /\ stage \in {"invite_member", "invite_pending", "invite_insert"} =>
                   \/ req[w].pc \in {"invite_member", "invite_pending", "invite_insert"}
                   \/ InviteCount(w)
      BY <1>7 DEF DeleteRole, InviteRole, InviteMember, InviteCount, InvitePending, AcceptOrg,
                  AcceptMember, ChangeCount, ChangeOwner, RemoveRole, RemoveCount,
                  Go, At, Stages, InviteStages, ChangeStages
    <2> QED
      BY <2>1 DEF RolesAsked
  <1>8. CASE \/ DeleteCommit(w) \/ InviteInsert(w) \/ AcceptCommit(w) \/ ChangeCommit(w)
             \/ RemoveCommit(w) \/ Abort(w)
    <2>1. req' = [req EXCEPT ![w] = NoReq] /\ NoReq.pc = "idle"
      BY <1>8 DEF DeleteCommit, InviteInsert, AcceptCommit, ChangeCommit, RemoveCommit,
                  Abort, Finish, NoReq
    <2> QED
      BY <2>1 DEF InviteStages, ChangeStages
  <1> QED
    BY <1>1, <1>2, <1>3, <1>4, <1>5, <1>6, <1>7, <1>8 DEF Step

LEMMA UnbornKept == ASSUME Inv, Next PROVE Unborn'
  <1> SUFFICES ASSUME org' = "absent"
               PROVE  /\ RowIds' = {}
                      /\ \A w \in Workers : req'[w].pc \notin InviteStages
    BY DEF Unborn
  <1>1. CASE \E u \in Users : CreateOrg(u)
    BY <1>1 DEF CreateOrg
  <1>2. CASE \E u \in Users : DeleteAccount(u)
    <2>1. org = "absent" /\ req' = req
      BY <1>2 DEF DeleteAccount
    <2>2. RowIds' \subseteq RowIds
      BY <1>2 DEF DeleteAccount, RowIds
    <2> QED
      BY <2>1, <2>2 DEF Inv, Unborn
  <1>3. CASE \E w \in Workers : Step(w)
    <2>1. PICK w \in Workers : Step(w)
      BY <1>3
    <2>2. org = "absent" /\ ~DeleteCommit(w)
      BY <2>1 DEF Step, Start, Go, StartDelete, DeleteRole, DeleteCommit, StartInvite,
                  InviteRole, InviteCount, InviteMember, InvitePending, InviteInsert,
                  StartAccept, AcceptOrg, AcceptMember, AcceptCommit, StartChange,
                  ChangeRead, ChangeCount, ChangeOwner, ChangeCommit, StartRemove,
                  RemoveRole, RemoveCount, RemoveCommit, Abort
    <2>3. RowIds = {} /\ \A v \in Workers : req[v].pc \notin InviteStages
      BY <2>2 DEF Inv, Unborn
    <2>4. members' = members
      BY <2>1, <2>3 DEF Step, Start, Go, At, StartDelete, DeleteRole, DeleteCommit,
                  StartInvite, InviteRole, InviteCount, InviteMember, InvitePending,
                  InviteInsert, StartAccept, AcceptOrg, AcceptMember, AcceptCommit,
                  StartChange, ChangeRead, ChangeCount, ChangeOwner, ChangeCommit,
                  StartRemove, RemoveRole, RemoveCount, RemoveCommit, Abort, InviteStages
    <2>5. \A v \in Workers : req'[v].pc \notin InviteStages
      BY <2>1, <2>2, <2>3, StepMoves
    <2> QED
      BY <2>3, <2>4, <2>5 DEF RowIds
  <1> QED
    BY <1>1, <1>2, <1>3 DEF Next

LEMMA InvInit == Init => Inv
  <1> SUFFICES ASSUME Init PROVE Inv
    OBVIOUS
  <1>1. NoReq \in Requests /\ NoReq.pc = "idle"
    BY DEF NoReq, Requests, Stages
  <1>2. RowIds = {}
    BY DEF Init, RowIds
  <1> QED
    BY <1>1, <1>2, StagesAreStages
       DEF Init, Inv, TypeOK, Unborn, RolesAsked, OneRowPerUser

LEMMA InvNext == Inv /\ [Next]_vars => Inv'
  <1> SUFFICES ASSUME Inv, [Next]_vars PROVE Inv'
    OBVIOUS
  <1>1. CASE UNCHANGED vars
    BY <1>1 DEF vars, Inv, TypeOK, Unborn, RolesAsked, OneRowPerUser, RowIds
  <1>2. CASE Next
    <2>1. TypeOK' /\ RolesAsked'
      <3>1. CASE \E w \in Workers : Step(w)
        <4>1. PICK w \in Workers : Step(w)
          BY <3>1
        <4>2. org' \in {"absent", "live", "deleted"} /\ accounts' = accounts
          BY <4>1 DEF Step, Start, Go, StartDelete, DeleteRole, DeleteCommit, StartInvite,
                  InviteRole, InviteCount, InviteMember, InvitePending, InviteInsert,
                  StartAccept, AcceptOrg, AcceptMember, AcceptCommit, StartChange,
                  ChangeRead, ChangeCount, ChangeOwner, ChangeCommit, StartRemove,
                  RemoveRole, RemoveCount, RemoveCommit, Abort, Inv, TypeOK
        <4> QED
          BY <1>2, <4>1, <4>2, StepMoves, TableKept DEF Inv, TypeOK, RolesAsked
      <3>2. CASE \E u \in Users : CreateOrg(u) \/ DeleteAccount(u)
        BY <1>2, <3>2, TableKept DEF CreateOrg, DeleteAccount, Inv, TypeOK, RolesAsked
      <3> QED
        BY <1>2, <3>1, <3>2 DEF Next
    <2> QED
      BY <1>2, <2>1, TableKept, UnbornKept DEF Inv
  <1> QED
    BY <1>1, <1>2

LEMMA Invariance == Spec => []Inv
  BY InvInit, InvNext, PTL DEF Spec

--------------------------------------------------------------------------------

\* membership_of never finds two memberships, however many invitations a user
\* accepts at once: the unique index keeps them apart, and no role change,
\* removal or deletion of an account undoes that.
THEOREM OneMembershipPerUserHolds == Spec => []OneMembershipPerUser
  <1>1. Inv => OneMembershipPerUser
    BY DEF Inv, OneRowPerUser, OneMembershipPerUser, Accepted, LiveMembers
  <1> QED
    BY <1>1, Invariance, PTL

\* A row that was revoked is never live again (remove_member, change_role and
\* accept_invitation all write single columns of it).
THEOREM RevokedForGoodHolds == Spec => RevokedForGood
  <1>1. ASSUME Inv, [Next]_vars, NEW m \in RowIds, members[m].revoked
        PROVE  m \notin LiveMembers'
    <2> USE RowIdsTyped DEF Inv, LiveMembers
    <2>1. CASE UNCHANGED vars
      BY <1>1, <2>1 DEF vars, RowIds
    <2>2. CASE members' = members
      BY <1>1, <2>2 DEF RowIds
    <2>3. CASE \E n \in Ids \ RowIds, new \in Rows : members' = [members EXCEPT ![n] = new]
      BY <1>1, <2>3 DEF TypeOK
    <2>4. CASE \E n \in RowIds, new \in Rows : Becomes(n, new)
      BY <1>1, <2>4 DEF TypeOK, Becomes
    <2>5. CASE \A n \in Ids : members'[n] \in {members[n], Gone}
      BY <1>1, <2>5 DEF RowIds
    <2> QED
      BY <1>1, <2>1, <2>2, <2>3, <2>4, <2>5, RowsAfter
  <1>2. Inv /\ [Next]_vars =>
           [\A m \in RowIds : members[m].revoked => m \notin LiveMembers']_vars
    BY <1>1
  <1> QED
    BY <1>2, Invariance, PTL DEF Spec, RevokedForGood

--------------------------------------------------------------------------------

LEMMA SetsFinite ==
    /\ IsFiniteSet(LiveMembers) /\ Cardinality(LiveMembers) \in Nat
    /\ IsFiniteSet(Inviting) /\ Cardinality(Inviting) \in Nat
    /\ Cardinality(Workers) \in Nat \ {0}
    /\ Cardinality(Inviting) <= Cardinality(Workers)
  <1>1. LiveMembers \subseteq Ids /\ Inviting \subseteq Workers
    BY DEF LiveMembers, RowIds, Inviting
  <1>2. IsFiniteSet(LiveMembers) /\ IsFiniteSet(Inviting)
        /\ Cardinality(Inviting) <= Cardinality(Workers)
    BY <1>1, SetsAssumption, FS_Subset
  <1>3. Cardinality(Workers) \in Nat /\ Cardinality(Workers) # 0
    BY SetsAssumption, FS_CardinalityType, FS_EmptySet
  <1> QED
    BY <1>2, <1>3, FS_CardinalityType

\* Only creating the organization and inviting add live rows.
LEMMA LiveRowsAfter ==
    ASSUME Inv, Next, ~\E u \in Users : CreateOrg(u), ~\E w \in Workers : InviteInsert(w)
    PROVE  LiveMembers' \subseteq LiveMembers
  <1> USE RowIdsTyped DEF Inv, LiveMembers
  <1>1. CASE members' = members
    BY <1>1 DEF RowIds
  <1>2. CASE \E m \in RowIds, new \in Rows : Becomes(m, new)
    BY <1>2 DEF RowIds, Becomes, TypeOK
  <1>3. CASE \A m \in Ids : members'[m] \in {members[m], Gone}
    BY <1>3 DEF RowIds
  <1>4. CASE \E w \in Workers : AcceptCommit(w) \/ ChangeCommit(w) \/ RemoveCommit(w)
    <2>1. PICK w \in Workers : AcceptCommit(w) \/ ChangeCommit(w) \/ RemoveCommit(w)
      BY <1>4
    <2> DEFINE m == req[w].target
    <2>2. m \in RowIds /\ m \in Ids /\ members[m] \in Rows
      BY <2>1 DEF AcceptCommit, ChangeCommit, RemoveCommit
    <2>3. members' = [members EXCEPT ![m] = members'[m]]
      BY <2>1, <2>2 DEF AcceptCommit, ChangeCommit, RemoveCommit, TypeOK
    <2>4. members[m].revoked => members'[m].revoked
      BY <2>1, <2>2 DEF AcceptCommit, ChangeCommit, RemoveCommit, ChangedRow, TypeOK, Rows
    <2> QED
      BY <2>2, <2>3, <2>4 DEF RowIds, TypeOK
  <1>5. CASE \E w \in Workers : /\ Step(w)
                                /\ ~InviteInsert(w) /\ ~AcceptCommit(w)
                                /\ ~ChangeCommit(w) /\ ~RemoveCommit(w)
    <2>1. members' = members
      BY <1>5 DEF Step, Start, Go, StartDelete, DeleteRole, DeleteCommit, StartInvite,
                  InviteRole, InviteCount, InviteMember, InvitePending, StartAccept,
                  AcceptOrg, AcceptMember, StartChange, ChangeRead, ChangeCount,
                  ChangeOwner, StartRemove, RemoveRole, RemoveCount, Abort
    <2> QED
      BY <1>1, <2>1
  <1>6. CASE \E u \in Users : DeleteAccount(u)
    BY <1>3, <1>6 DEF DeleteAccount
  <1> QED
    BY <1>4, <1>5, <1>6 DEF Next

LEMMA MembersStep ==
    ASSUME Inv, MembersBounded, Next PROVE MembersBounded'
  <1> USE SetsFinite, MembersAssumption DEF MembersBounded
  <1>1. CASE \E u \in Users : CreateOrg(u)
    <2>1. PICK u \in Users : CreateOrg(u)
      BY <1>1
    <2>2. PICK m \in Ids :
             members' = [members EXCEPT ![m] =
                 [user |-> u, email |-> None, role |-> "owner",
                  accepted |-> TRUE, revoked |-> FALSE]]
      BY <2>1 DEF CreateOrg
    <2>3. LiveMembers' \subseteq {m}
      BY <2>1, <2>2 DEF CreateOrg, Inv, Unborn, LiveMembers, RowIds, TypeOK
    <2>4. Cardinality(LiveMembers') <= 1 /\ Cardinality(LiveMembers') \in Nat
      <3>1. IsFiniteSet({m}) /\ Cardinality({m}) = 1
        BY FS_Singleton
      <3> QED
        BY <2>3, <3>1, FS_Subset, FS_CardinalityType
    <2>5. Inviting' = {}
      BY <2>1 DEF CreateOrg, Inv, Unborn, Inviting, InviteStages
    <2>6. Cardinality(Inviting') = 0
      BY <2>5, FS_EmptySet
    <2> QED
      BY <2>4, <2>6
  <1>2. CASE \E w \in Workers : InviteInsert(w)
    <2>1. PICK w \in Workers : InviteInsert(w)
      BY <1>2
    <2>2. PICK m \in Ids :
             members' = [members EXCEPT ![m] =
                 [user |-> None, email |-> req[w].email, role |-> req[w].role,
                  accepted |-> FALSE, revoked |-> FALSE]]
      BY <2>1 DEF InviteInsert
    <2>3. LiveMembers' \subseteq LiveMembers \union {m}
      BY <2>2 DEF LiveMembers, RowIds, Inv, TypeOK
    <2>4. Cardinality(LiveMembers') <= Cardinality(LiveMembers) + 1
          /\ Cardinality(LiveMembers') \in Nat
      <3>1. /\ IsFiniteSet(LiveMembers \union {m})
            /\ Cardinality(LiveMembers \union {m}) =
                  IF m \in LiveMembers THEN Cardinality(LiveMembers)
                  ELSE Cardinality(LiveMembers) + 1
        BY FS_AddElement
      <3> QED
        BY <2>3, <3>1, FS_Subset, FS_CardinalityType
    <2>5. Inviting' = Inviting \ {w} /\ w \in Inviting
      BY <2>1 DEF InviteInsert, At, Finish, NoReq, Inviting, Inv, TypeOK
    <2>6. Cardinality(Inviting') = Cardinality(Inviting) - 1
      BY <2>5, FS_RemoveElement
    <2> QED
      BY <2>4, <2>6
  <1>3. CASE \E w \in Workers : InviteCount(w)
    <2>1. PICK w \in Workers : InviteCount(w)
      BY <1>3
    <2>2. LiveMembers' = LiveMembers /\ Cardinality(LiveMembers) < MaxMembers
      BY <2>1 DEF InviteCount, Go, MembersFull, LiveMembers, RowIds
    <2>3. Inviting' \subseteq Workers
      BY DEF Inviting
    <2>4. Cardinality(Inviting') <= Cardinality(Workers) /\ Cardinality(Inviting') \in Nat
      BY <2>3, SetsAssumption, FS_Subset, FS_CardinalityType
    <2> QED
      BY <2>2, <2>4
  <1>4. CASE /\ ~\E u \in Users : CreateOrg(u)
             /\ ~\E w \in Workers : InviteInsert(w) \/ InviteCount(w)
    <2>1. LiveMembers' \subseteq LiveMembers
      BY <1>4, LiveRowsAfter
    <2>2. Inviting' \subseteq Inviting
      <3>1. CASE \E w \in Workers : Step(w)
        <4>1. PICK w \in Workers : Step(w)
          BY <3>1
        <4> QED
          BY <1>4, <4>1, StepMoves DEF Inviting
      <3>2. CASE \E u \in Users : DeleteAccount(u)
        BY <3>2 DEF DeleteAccount, Inviting
      <3> QED
        BY <1>4, <3>1, <3>2 DEF Next
    <2>3. /\ Cardinality(LiveMembers') <= Cardinality(LiveMembers)
          /\ Cardinality(Inviting') <= Cardinality(Inviting)
          /\ Cardinality(LiveMembers') \in Nat /\ Cardinality(Inviting') \in Nat
      BY <2>1, <2>2, FS_Subset, FS_CardinalityType
    <2> QED
      BY <2>3
  <1> QED
    BY <1>1, <1>2, <1>3, <1>4

\* invite counts the members three queries before it inserts, so invitations
\* that race pass MAX_MEMBERS together, by less than the requests that run at
\* once and never by more.
THEOREM MembersBoundedHolds == Spec => []MembersBounded
  <1>1. Init => MembersBounded
    <2> SUFFICES ASSUME Init PROVE MembersBounded
      OBVIOUS
    <2>1. LiveMembers = {} /\ Inviting = {}
      BY DEF Init, LiveMembers, RowIds, Inviting, NoReq
    <2>2. Cardinality(LiveMembers) = 0 /\ Cardinality(Inviting) = 0
      BY <2>1, FS_EmptySet
    <2> QED
      BY <2>2, SetsFinite, MembersAssumption DEF MembersBounded
  <1>2. Inv /\ MembersBounded /\ [Next]_vars => MembersBounded'
    <2>1. UNCHANGED vars => (MembersBounded <=> MembersBounded')
      BY DEF vars, MembersBounded, LiveMembers, RowIds, Inviting
    <2> QED
      BY <2>1, MembersStep
  <1> QED
    BY <1>1, <1>2, Invariance, PTL DEF Spec

--------------------------------------------------------------------------------
(* The members are a roster *)

Founded == \E m \in Ids : members[m] # None

\* Nothing happens before the organization is created, and what has been a row
\* stays one or stays deleted.  Nobody is invited as an owner, and who has a row
\* has accepted it.
RosterInv ==
    /\ org = "absent" <=> ~Founded
    /\ \A w \in Workers : req[w].pc # "idle" => Founded
    /\ \A w \in Workers : req[w].pc \in InviteStages => req[w].role # "owner"
    /\ \A m \in RowIds : members[m].user # None => members[m].accepted

LEMMA RosterInvInit == ASSUME Init PROVE RosterInv
  BY DEF Init, RosterInv, Founded, RowIds, NoReq, InviteStages

\* A request acts on an organization that has been created.
LEMMA FoundedFirst ==
    ASSUME RosterInv, TypeOK, NEW w \in Workers, Step(w)
    PROVE  /\ Founded /\ org # "absent"
           /\ org' # "absent"
  <1>1. ASSUME req[w].pc = "idle" PROVE Founded
    <2>1. CASE StartDelete(w) \/ StartInvite(w)
      BY <2>1 DEF StartDelete, StartInvite, RosterInv
    <2>2. CASE StartAccept(w) \/ StartChange(w) \/ StartRemove(w)
      BY <2>2 DEF StartAccept, StartChange, StartRemove, HasRole, MembershipsOf, Pending,
                  Accepted, LiveMembers, RowIds, Founded
    <2> QED
      BY <1>1, <2>1, <2>2 DEF Step, At, DeleteRole, DeleteCommit, InviteRole, InviteCount,
         InviteMember, InvitePending, InviteInsert, AcceptOrg, AcceptMember, AcceptCommit,
         ChangeRead, ChangeCount, ChangeOwner, ChangeCommit, RemoveRole, RemoveCount,
         RemoveCommit, Abort
  <1>2. Founded /\ org # "absent"
    BY <1>1 DEF RosterInv
  <1>3. org' = org \/ org' = "deleted"
    BY DEF Step, Start, Go, StartDelete, DeleteRole, DeleteCommit, StartInvite,
           InviteRole, InviteCount, InviteMember, InvitePending, InviteInsert,
           StartAccept, AcceptOrg, AcceptMember, AcceptCommit, StartChange,
           ChangeRead, ChangeCount, ChangeOwner, ChangeCommit, StartRemove,
           RemoveRole, RemoveCount, RemoveCommit, Abort
  <1> QED
    BY <1>2, <1>3

\* An invitation under way asks for the role it started with.
LEMMA InvitesAsk ==
    ASSUME RosterInv, TypeOK, NEW w \in Workers, Step(w), req'[w].pc \in InviteStages
    PROVE  req'[w].role # "owner"
  <1>1. CASE StartInvite(w)
    <2>1. PICK u \in accounts, email \in Users, role \in Roles \ {"owner"} :
             req' = [req EXCEPT ![w] = [NoReq EXCEPT !.pc = "invite_role", !.user = u,
                                                     !.role = role, !.email = email]]
      BY <1>1 DEF StartInvite, Start
    <2>2. req'[w].role = role
      BY <2>1 DEF TypeOK, NoReq
    <2> QED
      BY <2>2
  <1>2. CASE InviteRole(w) \/ InviteCount(w) \/ InviteMember(w) \/ InvitePending(w)
    <2>1. req[w].pc \in InviteStages
      BY <1>2 DEF InviteRole, InviteCount, InviteMember, InvitePending, At, InviteStages
    <2>2. PICK stage : req' = [req EXCEPT ![w].pc = stage]
      BY <1>2 DEF InviteRole, InviteCount, InviteMember, InvitePending, Go
    <2>3. req'[w].role = req[w].role
      BY <2>2 DEF TypeOK, Requests
    <2> QED
      BY <2>1, <2>3 DEF RosterInv
  <1>3. CASE ~(\/ StartInvite(w) \/ InviteRole(w) \/ InviteCount(w) \/ InviteMember(w)
               \/ InvitePending(w))
    <2>1. req'[w].pc \notin InviteStages
      <3>1. CASE StartDelete(w) \/ StartAccept(w) \/ StartChange(w) \/ StartRemove(w)
        BY <3>1 DEF StartDelete, StartAccept, StartChange, StartRemove, Start, NoReq,
                    InviteStages, TypeOK
      <3>2. CASE ChangeRead(w)
        BY <3>2 DEF ChangeRead, AfterRead, InviteStages, TypeOK, Requests
      <3>3. CASE \/ DeleteRole(w) \/ AcceptOrg(w) \/ AcceptMember(w) \/ ChangeCount(w)
                 \/ ChangeOwner(w) \/ RemoveRole(w) \/ RemoveCount(w)
        BY <3>3, GoesOn DEF DeleteRole, AcceptOrg, AcceptMember, ChangeCount, ChangeOwner,
                    RemoveRole, RemoveCount, Go, InviteStages, TypeOK
      <3>4. CASE \/ DeleteCommit(w) \/ InviteInsert(w) \/ AcceptCommit(w)
                 \/ ChangeCommit(w) \/ RemoveCommit(w) \/ Abort(w)
        BY <3>4 DEF DeleteCommit, InviteInsert, AcceptCommit, ChangeCommit, RemoveCommit,
                    Abort, Finish, NoReq, InviteStages, TypeOK
      <3> QED
        BY <1>3, <3>1, <3>2, <3>3, <3>4 DEF Step
    <2> QED
      BY <2>1
  <1> QED
    BY <1>1, <1>2, <1>3

\* No row is ever as if it had not been.
LEMMA RowsStay ==
    ASSUME Inv, Next, NEW m \in Ids, members[m] # None
    PROVE  members'[m] # None
  <1> USE AbsentAssumption, SeatsAssumption DEF Inv, TypeOK
  <1>1. CASE \E n \in Ids \ RowIds, new \in Rows : members' = [members EXCEPT ![n] = new]
    BY <1>1
  <1>2. CASE \E n \in RowIds, new \in Rows : Becomes(n, new)
    BY <1>2 DEF Becomes
  <1>3. CASE \A n \in Ids : members'[n] \in {members[n], Gone}
    BY <1>3
  <1> QED
    BY <1>1, <1>2, <1>3, RowsAfter

LEMMA HoldersAccepted ==
    ASSUME Inv, RosterInv, Next
    PROVE  \A m \in RowIds' : members'[m].user # None => members'[m].accepted
  <1>1. TypeOK /\ \A m \in RowIds : members[m].user # None => members[m].accepted
    BY DEF Inv, RosterInv
  <1>2. ASSUME NEW m \in Ids, NEW new \in Rows, members' = [members EXCEPT ![m] = new],
               new.user # None => new.accepted
        PROVE  \A n \in RowIds' : members'[n].user # None => members'[n].accepted
    BY <1>1, <1>2 DEF RowIds, TypeOK
  <1>3. CASE \E u \in Users : CreateOrg(u)
    BY <1>2, <1>3, CreatesRow
  <1>4. CASE \E u \in Users : DeleteAccount(u)
    BY <1>1, <1>4 DEF DeleteAccount, RowIds
  <1>5. CASE \E w \in Workers : InviteInsert(w)
    BY <1>2, <1>5, InsertsRow
  <1>6. CASE \E w \in Workers : AcceptCommit(w)
    BY <1>2, <1>6, AcceptsRow DEF RowIds
  <1>7. CASE \E w \in Workers : ChangeCommit(w)
    BY <1>1, <1>2, <1>7, ChangesRow DEF RowIds
  <1>8. CASE \E w \in Workers : RemoveCommit(w)
    BY <1>1, <1>2, <1>8, RemovesRow DEF RowIds
  <1>9. CASE members' = members
    BY <1>1, <1>9 DEF RowIds
  <1> QED
    BY <1>3, <1>4, <1>5, <1>6, <1>7, <1>8, <1>9, OthersRead DEF Writes

LEMMA RosterInvNext == ASSUME Inv, RosterInv, [Next]_vars PROVE RosterInv'
  <1>0. TypeOK /\ TypeOK'
    BY InvNext DEF Inv
  <1>1. CASE UNCHANGED vars
    BY <1>1 DEF vars, RosterInv, Founded, RowIds
  <1>2. CASE Next
    <2>1. Founded => Founded'
      <3>1. \A m \in Ids : members[m] # None => members'[m] # None
        BY <1>2, RowsStay DEF Inv
      <3> QED
        BY <3>1 DEF Founded
    <2>2. \A m \in RowIds' : members'[m].user # None => members'[m].accepted
      BY <1>2, HoldersAccepted DEF RosterInv
    <2>3. CASE \E u \in Users : CreateOrg(u)
      <3>1. org' = "live" /\ req' = req /\ ~Founded
        BY <2>3 DEF CreateOrg, RosterInv
      <3>2. \E m \in Ids, new \in Rows : members' = [members EXCEPT ![m] = new]
        BY <2>3, CreatesRow
      <3>3. Founded'
        BY <1>0, <3>2, AbsentAssumption DEF Founded, TypeOK
      <3> QED
        BY <2>2, <3>1, <3>3 DEF RosterInv
    <2>4. CASE \E u \in Users : DeleteAccount(u)
      <3>1. org' = org /\ req' = req /\ Founded' = Founded
        BY <2>1, <2>4 DEF DeleteAccount, Founded, RowIds
      <3> QED
        BY <2>1, <2>2, <3>1 DEF RosterInv
    <2>5. CASE \E w \in Workers : Step(w)
      <3>1. PICK w \in Workers : Step(w)
        BY <2>5
      <3>2. Founded /\ Founded' /\ org # "absent" /\ org' # "absent"
        BY <1>0, <2>1, <3>1, FoundedFirst
      <3>3. \A v \in Workers : req'[v].pc \in InviteStages => req'[v].role # "owner"
        BY <1>0, <3>1, InvitesAsk, StepMoves DEF RosterInv
      <3> QED
        BY <2>2, <3>2, <3>3 DEF RosterInv
    <2> QED
      BY <1>2, <2>3, <2>4, <2>5 DEF Next
  <1> QED
    BY <1>1, <1>2

LEMMA RosterInvariance == Spec => []RosterInv
  BY Invariance, RosterInvInit, RosterInvNext, PTL DEF Spec

\* The open seats are the live members.
LEMMA SeatsShown ==
    ASSUME TypeOK
    PROVE  /\ TheRoster!Open = LiveMembers
           /\ \A m \in LiveMembers :
                 Seat(m) = [holder |-> members[m].user, role |-> members[m].role]
           /\ \A m \in RowIds : members[m].revoked => Seat(m) = Gone
           /\ \A m \in Ids : Seat(m) = None <=> members[m] = None
  <1>1. \A m \in LiveMembers :
           /\ Seat(m) = [holder |-> members[m].user, role |-> members[m].role]
           /\ Seat(m) \in TheRoster!Taken
    BY RowIdsTyped DEF LiveMembers, Seat, Rows, TheRoster!Taken
  <1>2. \A m \in Ids \ LiveMembers : Seat(m) \in {None, Gone}
    BY DEF Seat, LiveMembers, RowIds
  <1>3. \A m \in RowIds : members[m].revoked => Seat(m) = Gone
    BY DEF Seat
  <1>4. TheRoster!Open = LiveMembers
    <2>1. LiveMembers \subseteq Ids
      BY DEF LiveMembers, RowIds
    <2> QED
      BY <1>1, <1>2, <2>1, SeatsAssumption DEF TheRoster!Open
  <1>5. \A m \in Ids : Seat(m) = None <=> members[m] = None
    <2>1. \A m \in Ids \ RowIds : Seat(m) = members[m]
      BY DEF Seat
    <2>2. \A m \in RowIds : m \in LiveMembers \/ members[m].revoked
      BY DEF LiveMembers
    <2>3. \A m \in RowIds : Seat(m) # None /\ members[m] # None
      BY <1>1, <1>3, <2>2, SeatsAssumption DEF RowIds
    <2> QED
      BY <2>1, <2>3
  <1> QED
    BY <1>1, <1>3, <1>4, <1>5

\* A row that is written is a seat that changes; the others stay as they are.
LEMMA SeatAfter ==
    ASSUME TypeOK, NEW m \in Ids, NEW new \in Rows, members' = [members EXCEPT ![m] = new]
    PROVE  TheRoster!Becomes(m, IF new.revoked THEN Gone
                                ELSE [holder |-> new.user, role |-> new.role])
  <1>1. \A n \in Ids : members'[n] = IF n = m THEN new ELSE members[n]
    BY DEF TypeOK
  <1>2. \A n \in Ids \ {m} : Seat(n)' = Seat(n)
    BY <1>1 DEF Seat, RowIds
  <1>3. Seat(m)' = IF new.revoked THEN Gone ELSE [holder |-> new.user, role |-> new.role]
    BY <1>1, AbsentAssumption DEF Seat, RowIds
  <1> QED
    BY <1>2, <1>3 DEF TheRoster!Becomes

SameSeats == \A m \in Ids : Seat(m)' = Seat(m)

\* Who deletes their account gives up the one seat they may have.
LEMMA LeavingCloses ==
    ASSUME Inv, RosterInv, NEW u \in Users, DeleteAccount(u)
    PROVE  SameSeats \/ \E m \in TheRoster!Open : TheRoster!Close(m)
  <1>0. TypeOK /\ TheRoster!Open = LiveMembers
    BY SeatsShown DEF Inv
  <1> DEFINE Mine == {m \in LiveMembers : members[m].user = u}
  <1>1. \A m \in Ids : Seat(m)' = IF m \in Mine THEN Gone ELSE Seat(m)
    <2>1. \A m \in Ids : members'[m] = IF m \in RowIds /\ members[m].user = u
                                       THEN Gone ELSE members[m]
      BY DEF DeleteAccount
    <2> QED
      BY <2>1 DEF Seat, RowIds, LiveMembers
  <1>2. CASE Mine = {}
    BY <1>1, <1>2 DEF SameSeats
  <1>3. ASSUME NEW m \in Mine
        PROVE  TheRoster!Close(m)
    <2>1. Mine = {m}
      BY <1>3, SeatsAssumption DEF Inv, RosterInv, OneRowPerUser, LiveMembers
    <2> QED
      BY <1>1, <2>1 DEF TheRoster!Close, TheRoster!Becomes
  <1> QED
    BY <1>0, <1>2, <1>3

\* Every step is one of the roster's, or leaves the roster as it is.
LEMMA StepImplementsRoster ==
    ASSUME Inv, RosterInv, Next
    PROVE  TheRoster!Next \/ SameSeats
  <1>0. TypeOK /\ TheRoster!Open = LiveMembers /\ RowIds \subseteq Ids
    BY SeatsShown, RowIdsTyped DEF Inv
  <1>1. CASE \E u \in Users : CreateOrg(u)
    <2>1. PICK u \in Users : CreateOrg(u)
      BY <1>1
    <2>2. PICK m \in Ids, new \in Rows :
             /\ members' = [members EXCEPT ![m] = new]
             /\ new.user = u /\ ~new.revoked /\ new.role = "owner"
      BY <2>1, CreatesRow
    <2>3. TheRoster!Becomes(m, [holder |-> u, role |-> "owner"])
      BY <1>0, <2>2, SeatAfter
    <2>4. \A n \in Ids : Seat(n) = None
      BY <1>0, <2>1, SeatsShown DEF CreateOrg, RosterInv, Founded
    <2>5. TheRoster!Found(m)
      BY <2>3, <2>4 DEF TheRoster!Found
    <2> QED
      BY <2>5 DEF TheRoster!Next
  <1>2. CASE \E u \in Users : DeleteAccount(u)
    BY <1>2, LeavingCloses DEF TheRoster!Next
  <1>3. CASE \E w \in Workers : InviteInsert(w)
    <2>1. PICK w \in Workers : InviteInsert(w)
      BY <1>3
    <2>2. PICK m \in Ids, new \in Rows :
             /\ members[m] = None /\ members' = [members EXCEPT ![m] = new]
             /\ new.user = None /\ ~new.revoked /\ new.role = req[w].role
      BY <2>1, InsertsRow
    <2>3. new.role \in DOMAIN ROLE_RANK \ {"owner"}
      BY <2>1, <2>2 DEF InviteInsert, At, RosterInv, InviteStages, Rows
    <2>4. TheRoster!Becomes(m, [holder |-> None, role |-> new.role])
      BY <1>0, <2>2, SeatAfter
    <2>5. Seat(m) = None /\ \E n \in Ids : Seat(n) # None
      BY <1>0, <2>1, <2>2, SeatsShown DEF InviteInsert, At, RosterInv, Founded
    <2>6. TheRoster!Offer(m)
      BY <2>3, <2>4, <2>5 DEF TheRoster!Offer
    <2> QED
      BY <2>6 DEF TheRoster!Next
  <1>4. ASSUME NEW m \in RowIds, NEW new \in Rows, members' = [members EXCEPT ![m] = new],
               members[m].revoked, new.revoked
        PROVE  SameSeats
    <2>1. TheRoster!Becomes(m, Seat(m))
      BY <1>0, <1>4, SeatsShown, SeatAfter
    <2> QED
      BY <2>1 DEF TheRoster!Becomes, SameSeats
  <1>5. ASSUME NEW m \in RowIds, ~members[m].revoked
        PROVE  /\ m \in TheRoster!Open /\ members[m] \in Rows
               /\ Seat(m) = [holder |-> members[m].user, role |-> members[m].role]
    BY <1>0, <1>5, SeatsShown, RowIdsTyped DEF LiveMembers
  <1>6. CASE \E w \in Workers : AcceptCommit(w)
    <2>1. PICK m \in RowIds, new \in Rows :
             /\ members' = [members EXCEPT ![m] = new] /\ new.user \in Users
             /\ new.revoked = members[m].revoked /\ new.role = members[m].role
             /\ \A n \in RowIds \ {m} : members[n].user # new.user
      BY <1>6, AcceptsRow
    <2>2. CASE ~members[m].revoked
      <3>1. TheRoster!Becomes(m, [holder |-> new.user, role |-> members[m].role])
        BY <1>0, <2>1, <2>2, SeatAfter
      <3>2. [Seat(m) EXCEPT !.holder = new.user] =
               [holder |-> new.user, role |-> members[m].role]
        BY <1>5, <2>2
      <3>3. \A n \in TheRoster!Open \ {m} : Seat(n).holder # new.user
        BY <1>0, <2>1, SeatsShown DEF LiveMembers
      <3>4. TheRoster!Take(m)
        BY <1>0, <2>1, <3>1, <3>2, <3>3 DEF TheRoster!Take, TheRoster!Open
      <3> QED
        BY <1>5, <2>2, <3>4 DEF TheRoster!Next
    <2> QED
      BY <1>4, <2>1, <2>2
  <1>7. CASE \E w \in Workers : ChangeCommit(w)
    <2>1. PICK m \in RowIds, new \in Rows :
             /\ members' = [members EXCEPT ![m] = new] /\ new.user = members[m].user
             /\ new.revoked = members[m].revoked
      BY <1>7, ChangesRow
    <2>2. CASE ~members[m].revoked
      <3>1. TheRoster!Becomes(m, [holder |-> members[m].user, role |-> new.role])
        BY <1>0, <2>1, <2>2, SeatAfter
      <3>2. [Seat(m) EXCEPT !.role = new.role] =
               [holder |-> members[m].user, role |-> new.role]
        BY <1>5, <2>2
      <3>3. new.role \in DOMAIN ROLE_RANK
        BY DEF Rows
      <3>4. TheRoster!Grant(m)
        BY <1>0, <3>1, <3>2, <3>3 DEF TheRoster!Grant
      <3> QED
        BY <1>5, <2>2, <3>4 DEF TheRoster!Next
    <2> QED
      BY <1>4, <2>1, <2>2
  <1>8. CASE \E w \in Workers : RemoveCommit(w)
    <2>1. PICK m \in RowIds, new \in Rows :
             members' = [members EXCEPT ![m] = new] /\ new.revoked
      BY <1>8, RemovesRow
    <2>2. CASE ~members[m].revoked
      <3>1. TheRoster!Close(m)
        BY <1>0, <2>1, SeatAfter DEF TheRoster!Close
      <3> QED
        BY <1>5, <2>2, <3>1 DEF TheRoster!Next
    <2> QED
      BY <1>4, <2>1, <2>2
  <1>9. CASE members' = members
    BY <1>9 DEF SameSeats, Seat, RowIds
  <1> QED
    BY <1>1, <1>2, <1>3, <1>6, <1>7, <1>8, <1>9, OthersRead DEF Writes

\* Whatever requests overlap, and whoever leaves, the members are a roster: seats
\* are offered, taken by somebody who has no other, given a role and closed for
\* good, each on its own.
THEOREM ImplementsRosterHolds == Spec => ImplementsRoster
  <1>1. Init => TheRoster!Init
    BY SeatsAssumption DEF Init, TheRoster!Init, Seat, RowIds
  <1>2. Inv /\ RosterInv /\ [Next]_vars => [TheRoster!Next]_([m \in Ids |-> Seat(m)])
    <2>1. UNCHANGED vars => SameSeats
      BY DEF vars, SameSeats, Seat, RowIds
    <2>2. SameSeats => UNCHANGED [m \in Ids |-> Seat(m)]
      BY DEF SameSeats
    <2> QED
      BY <2>1, <2>2, StepImplementsRoster
  <1> QED
    BY <1>1, <1>2, Invariance, RosterInvariance, PTL
       DEF Spec, ImplementsRoster, TheRoster!Spec

--------------------------------------------------------------------------------
(* Requests that come one at a time *)

Busy == {w \in Workers : req[w].pc # "idle"}

OthersOwn(m) == \E n \in Owners : n # m

RemoveStages == {"remove_role", "remove_count", "remove_commit"}

\* What a request has read, and the checks it has passed, still hold.
RequestTrue(w) ==
    LET q == req[w] IN
    /\ q.pc \in ChangeStages => HasRole(q.user, "admin")
    /\ q.pc \in (ChangeStages \ {"change_read"}) \union RemoveStages =>
          q.target \in RowIds /\ q.row = members[q.target]
    /\ q.pc = "change_owner" => q.role = "owner"
    /\ q.pc = "change_count" => q.role # "owner"
    /\ q.pc = "change_commit" =>
          /\ q.role = "owner" => HasRole(q.user, "owner")
          /\ q.row.role = "owner" /\ q.role # "owner" => OthersOwn(q.target)
    /\ q.pc \in {"remove_count", "remove_commit"} =>
          q.row.user = q.user \/ HasRole(q.user, "admin")
    /\ q.pc = "remove_commit" => (q.target \in Owners => OthersOwn(q.target))

AloneInv ==
    alone => /\ \A v, w \in Busy : v = w
             /\ LastOwnerProtected
             /\ \A w \in Workers : RequestTrue(w)

LEMMA AtMostOne ==
    ASSUME NEW S, IsFiniteSet(S), Cardinality(S) <= 1, NEW x \in S, NEW y \in S
    PROVE  x = y
  <1>1. Cardinality(S) \in Nat /\ Cardinality(S \ {x}) \in Nat /\ IsFiniteSet(S \ {x})
    BY FS_RemoveElement, FS_CardinalityType
  <1>2. Cardinality(S \ {x}) = Cardinality(S) - 1
    BY FS_RemoveElement
  <1>3. Cardinality(S \ {x}) = 0
    BY <1>1, <1>2
  <1> QED
    BY <1>1, <1>3, FS_EmptySet

\* A count of more than one owner is an owner besides any row.
LEMMA CountedOwners ==
    ASSUME NEW m, ~LastOwner
    PROVE  OthersOwn(m)
  <1> SUFFICES ASSUME Owners \subseteq {m} PROVE FALSE
    BY DEF OthersOwn
  <1>1. IsFiniteSet({m}) /\ Cardinality({m}) = 1
    BY FS_Singleton
  <1>2. Cardinality(Owners) <= 1
    BY <1>1, FS_Subset
  <1> QED
    BY <1>2 DEF LastOwner

\* Steps that only read keep what was read true.
LEMMA ReadsKeep ==
    ASSUME Inv, NEW w \in Workers, Step(w), members' = members, req'[w].pc # "idle",
           RequestTrue(w)
    PROVE  RequestTrue(w)'
  <1>1. /\ RowIds' = RowIds /\ Owners' = Owners
        /\ \A u, role : HasRole(u, role)' <=> HasRole(u, role)
        /\ \A m : OthersOwn(m)' <=> OthersOwn(m)
    BY DEF RowIds, Owners, Accepted, LiveMembers, HasRole, MembershipsOf, OthersOwn
  <1>2. TypeOK /\ req \in [Workers -> Requests]
    BY DEF Inv, TypeOK
  <1>3. CASE req'[w].pc \notin ChangeStages \union RemoveStages
    BY <1>3 DEF RequestTrue, ChangeStages, RemoveStages
  <1>4. CASE StartChange(w)
    <2>1. PICK u \in accounts, role \in Roles :
             /\ HasRole(u, "admin")
             /\ Start(w, [NoReq EXCEPT !.pc = "change_read", !.user = u, !.role = role])
      BY <1>4 DEF StartChange
    <2>2. req'[w].pc = "change_read" /\ req'[w].user = u
      BY <1>2, <2>1 DEF Start, NoReq
    <2> QED
      BY <1>1, <2>1, <2>2 DEF RequestTrue, ChangeStages, RemoveStages
  <1>5. CASE ChangeRead(w)
    <2>1. PICK m \in LiveMembers :
             req' = [req EXCEPT ![w].target = m, ![w].row = members[m],
                                ![w].pc = AfterRead(members[m], req[w].role)]
      BY <1>5 DEF ChangeRead
    <2> DEFINE next == AfterRead(members[m], req[w].role)
    <2>2. /\ req'[w].target = m /\ req'[w].row = members[m] /\ req'[w].pc = next
          /\ req'[w].user = req[w].user /\ req'[w].role = req[w].role
      BY <1>2, <2>1 DEF Requests
    <2>3. next \in ChangeStages \ {"change_read"}
      BY DEF AfterRead, ChangeStages
    <2>4. /\ next = "change_owner" => req[w].role = "owner"
          /\ next = "change_count" => req[w].role # "owner"
          /\ next = "change_commit" => members[m].role # "owner" /\ req[w].role # "owner"
      BY DEF AfterRead
    <2>5. HasRole(req[w].user, "admin") /\ m \in RowIds
      BY <1>5, <2>1 DEF ChangeRead, At, RequestTrue, ChangeStages, LiveMembers
    <2> HIDE DEF next
    <2> QED
      BY <1>1, <2>2, <2>3, <2>4, <2>5 DEF RequestTrue, ChangeStages, RemoveStages
  <1>6. CASE ChangeCount(w)
    <2>1. /\ req'[w].pc = "change_commit" /\ req'[w].user = req[w].user
          /\ req'[w].target = req[w].target /\ req'[w].row = req[w].row
          /\ req'[w].role = req[w].role
      BY <1>2, <1>6, GoesOn DEF ChangeCount, Go
    <2>2. OthersOwn(req[w].target) /\ req[w].pc = "change_count"
      BY <1>6, CountedOwners DEF ChangeCount, At
    <2> QED
      BY <1>1, <2>1, <2>2 DEF RequestTrue, ChangeStages, RemoveStages
  <1>7. CASE ChangeOwner(w)
    <2>1. /\ req'[w].pc = "change_commit" /\ req'[w].user = req[w].user
          /\ req'[w].target = req[w].target /\ req'[w].row = req[w].row
          /\ req'[w].role = req[w].role
      BY <1>2, <1>7, GoesOn DEF ChangeOwner, Go
    <2>2. req[w].pc = "change_owner" /\ req[w].row = members[req[w].target]
      BY <1>7 DEF ChangeOwner, At, RequestTrue, ChangeStages
    <2>3. PICK m \in MembershipsOf(req[w].user) : members[m].role = "owner"
      BY <1>7, <2>2 DEF ChangeOwner, SessionRole
    <2>4. HasRole(req[w].user, "owner")
      BY <2>3 DEF HasRole, ROLE_RANK
    <2> QED
      BY <1>1, <2>1, <2>2, <2>4 DEF RequestTrue, ChangeStages, RemoveStages
  <1>8. CASE StartRemove(w)
    <2>1. PICK u \in accounts, m \in LiveMembers :
             Start(w, [NoReq EXCEPT !.pc = "remove_role", !.user = u, !.target = m,
                                    !.row = members[m]])
      BY <1>8 DEF StartRemove
    <2>2. /\ req'[w].pc = "remove_role" /\ req'[w].target = m /\ req'[w].row = members[m]
          /\ m \in RowIds
      BY <1>2, <2>1 DEF Start, NoReq, LiveMembers
    <2> QED
      BY <1>1, <2>2 DEF RequestTrue, ChangeStages, RemoveStages
  <1>9. CASE RemoveRole(w)
    <2> DEFINE row == req[w].row
               next == IF row.role = "owner" /\ row.accepted
                       THEN "remove_count" ELSE "remove_commit"
    <2>1. /\ req'[w].pc = next /\ req'[w].user = req[w].user
          /\ req'[w].target = req[w].target /\ req'[w].row = req[w].row
      BY <1>2, <1>9, GoesOn DEF RemoveRole, Go
    <2>2. /\ req[w].target \in RowIds /\ row = members[req[w].target]
          /\ row.user = req[w].user \/ HasRole(req[w].user, "admin")
      BY <1>9 DEF RemoveRole, At, RequestTrue, RemoveStages, RemoveNeeds
    <2>3. next = "remove_commit" => req[w].target \notin Owners
      BY <2>2 DEF Owners, Accepted
    <2> QED
      BY <1>1, <2>1, <2>2, <2>3 DEF RequestTrue, ChangeStages, RemoveStages
  <1>10. CASE RemoveCount(w)
    <2>1. /\ req'[w].pc = "remove_commit" /\ req'[w].user = req[w].user
          /\ req'[w].target = req[w].target /\ req'[w].row = req[w].row
      BY <1>2, <1>10, GoesOn DEF RemoveCount, Go
    <2>2. OthersOwn(req[w].target) /\ req[w].pc = "remove_count"
      BY <1>10, CountedOwners DEF RemoveCount, At
    <2> QED
      BY <1>1, <2>1, <2>2 DEF RequestTrue, ChangeStages, RemoveStages
  <1>11. CASE \/ StartDelete(w) \/ StartInvite(w) \/ StartAccept(w)
    <2>1. req'[w].pc \in {"delete_role", "invite_role", "accept_org"}
      <3>1. CASE StartDelete(w)
        BY <1>2, <3>1 DEF StartDelete, Start, NoReq
      <3>2. CASE StartInvite(w)
        BY <1>2, <3>2 DEF StartInvite, Start, NoReq
      <3>3. CASE StartAccept(w)
        BY <1>2, <3>3 DEF StartAccept, Start, NoReq
      <3> QED
        BY <1>11, <3>1, <3>2, <3>3
    <2> QED
      BY <1>3, <2>1 DEF ChangeStages, RemoveStages
  <1>12. CASE \/ DeleteRole(w) \/ InviteRole(w) \/ InviteCount(w) \/ InviteMember(w)
              \/ InvitePending(w) \/ AcceptOrg(w) \/ AcceptMember(w)
    <2>1. req'[w].pc \in {"delete_commit", "invite_count", "invite_member",
                          "invite_pending", "invite_insert", "accept_member",
                          "accept_commit"}
      <3>1. PICK stage \in {"delete_commit", "invite_count", "invite_member",
                            "invite_pending", "invite_insert", "accept_member",
                            "accept_commit"} : Go(w, stage)
        BY <1>12 DEF DeleteRole, InviteRole, InviteCount, InviteMember, InvitePending,
           AcceptOrg, AcceptMember
      <3> QED
        BY <1>2, <3>1, GoesOn DEF Go
    <2> QED
      BY <1>3, <2>1 DEF ChangeStages, RemoveStages
  <1>13. ~(Finish(w))
    BY <1>2 DEF Finish, NoReq
  <1> QED
    BY <1>4, <1>5, <1>6, <1>7, <1>8, <1>9, <1>10, <1>11, <1>12, <1>13
    DEF Step, DeleteCommit, InviteInsert, AcceptCommit, ChangeCommit, RemoveCommit, Abort

\* What the commits write leaves an owner, if the checks made before still hold.
LEMMA CommitsKeepOwner ==
    ASSUME Inv, NEW w \in Workers, Step(w), Finish(w), RequestTrue(w), LastOwnerProtected
    PROVE  LastOwnerProtected'
  <1> SUFFICES ASSUME org' = "live" PROVE Owners' # {}
    BY DEF LastOwnerProtected
  <1>1. members \in [Ids -> Rows \union {None, Gone}] /\ RowIds \subseteq Ids
        /\ \A m \in RowIds : members[m] \in Rows
    BY RowIdsTyped DEF Inv, TypeOK
  <1>2. org = "live" /\ Owners # {}
    <2>1. org' = org \/ org' = "deleted"
      BY DEF Step, Start, Go, StartDelete, DeleteRole, DeleteCommit, StartInvite,
         InviteRole, InviteCount, InviteMember, InvitePending, InviteInsert, StartAccept,
         AcceptOrg, AcceptMember, AcceptCommit, StartChange, ChangeRead, ChangeCount,
         ChangeOwner, ChangeCommit, StartRemove, RemoveRole, RemoveCount, RemoveCommit,
         Abort
    <2> QED
      BY <2>1 DEF LastOwnerProtected
  <1>3. ASSUME NEW m \in Ids, \A n \in Ids \ {m} : members'[n] = members[n], OthersOwn(m)
        PROVE  Owners' # {}
    <2>1. PICK n \in Owners : n # m
      BY <1>3 DEF OthersOwn
    <2>2. n \in Ids /\ members'[n] = members[n]
      BY <1>1, <1>3, <2>1 DEF Owners, Accepted, LiveMembers
    <2>3. n \in Owners'
      BY <2>1, <2>2 DEF Owners, Accepted, LiveMembers, RowIds
    <2> QED
      BY <2>3
  <1>4. ASSUME NEW m \in Ids, \A n \in Ids \ {m} : members'[n] = members[n], m \notin Owners
        PROVE  Owners' # {}
    BY <1>2, <1>3, <1>4 DEF OthersOwn
  <1>5. CASE members' = members
    BY <1>2, <1>5 DEF Owners, Accepted, LiveMembers, RowIds
  <1>6. CASE InviteInsert(w)
    <2>1. PICK m \in Ids : members[m] = None /\ \A n \in Ids \ {m} : members'[n] = members[n]
      BY <1>1, <1>6 DEF InviteInsert
    <2> QED
      BY <1>4, <2>1 DEF Owners, Accepted, LiveMembers, RowIds
  <1>7. ASSUME NEW m \in RowIds, NEW new \in Rows, members' = [members EXCEPT ![m] = new],
               m \in Owners => new.accepted /\ ~new.revoked /\ new.role = "owner"
        PROVE  Owners' # {}
    <2>1. m \in Ids /\ members'[m] = new /\ \A n \in Ids \ {m} : members'[n] = members[n]
      BY <1>1, <1>7
    <2>2. m \in Owners => m \in Owners'
      BY <1>7, <2>1, AbsentAssumption DEF Owners, Accepted, LiveMembers, RowIds
    <2> QED
      BY <1>4, <2>1, <2>2
  <1>8. CASE AcceptCommit(w)
    <2> DEFINE m == req[w].target
               new == [[members[m] EXCEPT !.user = req[w].user] EXCEPT !.accepted = TRUE]
    <2>1. m \in RowIds /\ m \in Ids /\ members[m] \in Rows /\ req[w].user \in Users
      BY <1>1, <1>8 DEF AcceptCommit, Inv, TypeOK
    <2>2. members' = [members EXCEPT ![m] = new]
      BY <1>1, <1>8, <2>1 DEF AcceptCommit
    <2>3. new \in Rows /\ new.accepted /\ new.role = members[m].role
          /\ new.revoked = members[m].revoked
      BY <2>1 DEF Rows
    <2> HIDE DEF new
    <2> QED
      BY <1>7, <2>1, <2>2, <2>3 DEF Owners, Accepted, LiveMembers
  <1>9. CASE ChangeCommit(w)
    <2> DEFINE m == req[w].target
    <2>1. m \in RowIds /\ members[m] \in Rows /\ req[w].role \in DOMAIN ROLE_RANK
          /\ req[w].pc = "change_commit"
      BY <1>1, <1>9, SetsAssumption DEF ChangeCommit, At, Inv, RolesAsked, ChangeStages
    <2>2. /\ ChangedRow(w) \in Rows
          /\ ChangedRow(w).revoked = members[m].revoked
          /\ ChangedRow(w).accepted = members[m].accepted
          /\ ChangedRow(w).role = members[m].role \/ ChangedRow(w).role = req[w].role
      BY <2>1 DEF ChangedRow, Rows
    <2>3. members' = [members EXCEPT ![m] = ChangedRow(w)]
      BY <1>9 DEF ChangeCommit
    <2>4. CASE m \in Owners => ChangedRow(w).role = "owner"
      BY <1>7, <2>1, <2>2, <2>3, <2>4 DEF Owners, Accepted, LiveMembers
    <2>5. CASE m \in Owners /\ ChangedRow(w).role # "owner"
      <3>1. req[w].row = members[m] /\ members[m].role = "owner" /\ req[w].role # "owner"
        BY <2>1, <2>2, <2>5 DEF RequestTrue, ChangeStages, Owners
      <3>2. OthersOwn(m)
        BY <2>1, <3>1 DEF RequestTrue
      <3> QED
        BY <1>1, <1>3, <2>1, <2>3, <3>2
    <2> QED
      BY <2>4, <2>5
  <1>10. CASE RemoveCommit(w)
    <2> DEFINE m == req[w].target
    <2>1. /\ m \in RowIds /\ req[w].pc = "remove_commit"
          /\ \A n \in Ids \ {m} : members'[n] = members[n]
      BY <1>1, <1>10 DEF RemoveCommit, At
    <2>2. m \in Owners => OthersOwn(m)
      BY <2>1 DEF RequestTrue
    <2> QED
      BY <1>1, <1>3, <1>4, <2>1, <2>2
  <1> QED
    BY <1>5, <1>6, <1>8, <1>9, <1>10
    DEF Step, Start, Go, StartDelete, DeleteRole, DeleteCommit, StartInvite, InviteRole,
        InviteCount, InviteMember, InvitePending, StartAccept, AcceptOrg, AcceptMember,
        StartChange, ChangeRead, ChangeCount, ChangeOwner, StartRemove, RemoveRole,
        RemoveCount, Abort

\* Every step of a request reads and goes on, or ends it.
LEMMA ReadsOrEnds ==
    ASSUME Inv, NEW w \in Workers, Step(w)
    PROVE  \/ members' = members /\ org' = org /\ req'[w].pc # "idle"
           \/ Finish(w) /\ req'[w].pc = "idle" /\ req[w].pc # "idle"
  <1>1. TypeOK /\ req \in [Workers -> Requests]
    BY DEF Inv, TypeOK
  <1>2. CASE Finish(w) /\ req[w].pc # "idle"
    BY <1>1, <1>2 DEF Finish, NoReq
  <1>3. CASE \E stage \in Stages \ {"idle"} : Go(w, stage)
    BY <1>1, <1>3, GoesOn DEF Go
  <1>4. CASE StartDelete(w) \/ StartInvite(w)
    <2>1. CASE StartDelete(w)
      BY <1>1, <2>1 DEF StartDelete, Start, NoReq
    <2>2. CASE StartInvite(w)
      BY <1>1, <2>2 DEF StartInvite, Start, NoReq
    <2> QED
      BY <1>4, <2>1, <2>2
  <1>5. CASE StartAccept(w) \/ StartChange(w)
    <2>1. CASE StartAccept(w)
      BY <1>1, <2>1 DEF StartAccept, Start, NoReq
    <2>2. CASE StartChange(w)
      BY <1>1, <2>2 DEF StartChange, Start, NoReq
    <2> QED
      BY <1>5, <2>1, <2>2
  <1>6. CASE StartRemove(w)
    BY <1>1, <1>6 DEF StartRemove, Start, NoReq
  <1>7. CASE ChangeRead(w)
    <2>1. PICK m \in LiveMembers :
             req' = [req EXCEPT ![w].target = m, ![w].row = members[m],
                                ![w].pc = AfterRead(members[m], req[w].role)]
      BY <1>7 DEF ChangeRead
    <2>2. req'[w].pc = AfterRead(members[m], req[w].role)
      BY <1>1, <2>1 DEF Requests
    <2> QED
      BY <1>7, <2>2 DEF ChangeRead, AfterRead
  <1>8. CASE \/ DeleteCommit(w) \/ InviteInsert(w) \/ AcceptCommit(w) \/ ChangeCommit(w)
             \/ RemoveCommit(w) \/ Abort(w)
    BY <1>2, <1>8 DEF DeleteCommit, InviteInsert, AcceptCommit, ChangeCommit, RemoveCommit,
       Abort, At
  <1>9. CASE \/ DeleteRole(w) \/ InviteRole(w) \/ InviteCount(w) \/ InviteMember(w)
             \/ InvitePending(w) \/ AcceptOrg(w) \/ AcceptMember(w) \/ ChangeCount(w)
             \/ ChangeOwner(w) \/ RemoveRole(w) \/ RemoveCount(w)
    BY <1>3, <1>9 DEF DeleteRole, InviteRole, InviteCount, InviteMember, InvitePending,
       AcceptOrg, AcceptMember, ChangeCount, ChangeOwner, RemoveRole, RemoveCount, Stages
  <1> QED
    BY <1>4, <1>5, <1>6, <1>7, <1>8, <1>9 DEF Step

LEMMA AloneInvNext ==
    ASSUME Inv, AloneInv, HistoryNext
    PROVE  AloneInv'
  <1> SUFFICES ASSUME alone'
               PROVE  /\ \A v, w \in Busy' : v = w
                      /\ LastOwnerProtected'
                      /\ \A w \in Workers : RequestTrue(w)'
    BY DEF AloneInv
  <1>1. /\ Next /\ accounts' = accounts /\ LastOwnerProtected
        /\ \A v, w \in Busy : v = w
        /\ \A w \in Workers : RequestTrue(w)
    BY DEF HistoryNext, AloneInv
  <1>2. \A v, w \in Busy' : v = w
    <2>1. Busy' \subseteq Workers /\ Cardinality(Busy') <= 1
      BY DEF Busy, HistoryNext
    <2>2. IsFiniteSet(Busy')
      BY <2>1, SetsAssumption, FS_Subset
    <2> QED
      BY <2>1, <2>2, AtMostOne
  <1>3. ASSUME NEW w \in Workers, Step(w)
        PROVE  LastOwnerProtected' /\ \A v \in Workers : RequestTrue(v)'
    <2>1. \A v \in Workers \ {w} : req'[v] = req[v]
      BY <1>3, StepMoves
    <2>2. \A v \in Workers \ {w} : RequestTrue(v)'
      <3>1. \A v \in Workers \ {w} : req'[v].pc = "idle"
        BY <1>1, <1>2, <1>3, <2>1, ReadsOrEnds DEF Busy
      <3> QED
        BY <3>1 DEF RequestTrue, ChangeStages, RemoveStages
    <2>3. CASE members' = members /\ org' = org /\ req'[w].pc # "idle"
      <3>1. RequestTrue(w)'
        BY <1>1, <1>3, <2>3, ReadsKeep
      <3>2. LastOwnerProtected'
        BY <1>1, <2>3 DEF LastOwnerProtected, Owners, Accepted, LiveMembers, RowIds
      <3> QED
        BY <2>2, <3>1, <3>2
    <2>4. CASE Finish(w) /\ req'[w].pc = "idle"
      <3>1. RequestTrue(w)'
        BY <2>4 DEF RequestTrue, ChangeStages, RemoveStages
      <3>2. LastOwnerProtected'
        BY <1>1, <1>3, <2>4, CommitsKeepOwner
      <3> QED
        BY <2>2, <3>1, <3>2
    <2> QED
      BY <1>3, <2>3, <2>4, ReadsOrEnds
  <1>4. ASSUME NEW u \in Users, CreateOrg(u)
        PROVE  LastOwnerProtected' /\ \A v \in Workers : RequestTrue(v)'
    <2> DEFINE new == [user |-> u, email |-> None, role |-> "owner",
                       accepted |-> TRUE, revoked |-> FALSE]
    <2>1. PICK m \in Ids : members' = [members EXCEPT ![m] = new]
      BY <1>4 DEF CreateOrg
    <2>2. new \in Rows /\ new.accepted /\ ~new.revoked /\ new.role = "owner"
      BY DEF Rows, ROLE_RANK
    <2> HIDE DEF new
    <2>3. members'[m] = new
      BY <2>1 DEF Inv, TypeOK
    <2>4. m \in Owners'
      BY <2>2, <2>3, AbsentAssumption DEF Owners, Accepted, LiveMembers, RowIds
    <2>5. RowIds = {} /\ req' = req
      BY <1>4 DEF CreateOrg, Inv, Unborn
    <2>6. \A user, role : ~HasRole(user, role)
      BY <2>5 DEF HasRole, MembershipsOf, Accepted, LiveMembers
    <2>7. \A v \in Workers : req[v].pc \notin ChangeStages \union RemoveStages
      BY <1>1, <2>5, <2>6 DEF RequestTrue, ChangeStages, RemoveStages
    <2>8. \A v \in Workers : RequestTrue(v)'
      BY <2>5, <2>7 DEF RequestTrue, ChangeStages, RemoveStages
    <2> QED
      BY <2>4, <2>8 DEF LastOwnerProtected
  <1>5. ASSUME NEW u \in Users, DeleteAccount(u) PROVE FALSE
    BY <1>1, <1>5 DEF DeleteAccount
  <1> QED
    BY <1>1, <1>2, <1>3, <1>4, <1>5 DEF Next

LEMMA HistoryInvariance == HistorySpec => [](Inv /\ AloneInv)
  <1>1. HistoryInit => Inv /\ AloneInv
    <2> SUFFICES ASSUME HistoryInit PROVE Inv /\ AloneInv
      OBVIOUS
    <2>1. Inv /\ org = "absent" /\ \A w \in Workers : req[w].pc = "idle"
      BY InvInit DEF HistoryInit, Init, NoReq
    <2> QED
      BY <2>1 DEF AloneInv, Busy, LastOwnerProtected, RequestTrue, ChangeStages, RemoveStages
  <1>2. Inv /\ AloneInv /\ [HistoryNext]_HistoryVars => Inv' /\ AloneInv'
    <2> SUFFICES ASSUME Inv, AloneInv, [HistoryNext]_HistoryVars PROVE Inv' /\ AloneInv'
      OBVIOUS
    <2>1. Inv'
      BY InvNext DEF HistoryNext, HistoryVars, vars
    <2>2. ASSUME UNCHANGED HistoryVars PROVE AloneInv'
      BY <2>2 DEF HistoryVars, vars, AloneInv, Busy, LastOwnerProtected, RequestTrue,
         OthersOwn, Owners, Accepted, LiveMembers, RowIds, HasRole, MembershipsOf
    <2> QED
      BY <2>1, <2>2, AloneInvNext
  <1> QED
    BY <1>1, <1>2, PTL DEF HistorySpec

\* "the last owner is protected" (orgs.py), for any number of members: as long as
\* requests come one at a time, what change_role and remove_member counted is what
\* their commits find, and the organization keeps an owner.
THEOREM LastOwnerAloneHolds == HistorySpec => []LastOwnerAlone
  <1>1. Inv /\ AloneInv => LastOwnerAlone
    BY DEF AloneInv, LastOwnerAlone
  <1> QED
    BY <1>1, HistoryInvariance, PTL

\* Who may do what (orgs.py): as long as requests come one at a time, a role changes
\* only by an admin, ownership is given only by an owner, and a row is revoked only by
\* an admin or by its user, when the commit takes effect.
THEOREM OnlyAllowedAloneHolds == HistorySpec => OnlyAllowedAlone
  <1>1. ASSUME Inv, AloneInv, HistoryNext, alone', NEW w \in Workers, NEW m \in RowIds,
               req'[w] # req[w], m \in RowIds'
        PROVE  Allowed(req[w].user, m)
    <2>1. Step(w) /\ RequestTrue(w) /\ members[m] \in Rows /\ m \in Ids
          /\ members \in [Ids -> Rows \union {None, Gone}]
      <3>1. \A v \in Workers : Step(v) => v = w
        BY <1>1, StepMoves
      <3>2. ~\E u \in Users : CreateOrg(u) \/ DeleteAccount(u)
        BY <1>1 DEF CreateOrg, DeleteAccount
      <3>3. Step(w)
        BY <1>1, <3>1, <3>2 DEF HistoryNext, Next
      <3> QED
        BY <1>1, <3>3, RowIdsTyped DEF HistoryNext, AloneInv, Inv, TypeOK
    <2>2. CASE members'[m] = members[m]
      BY <2>2 DEF Allowed
    <2>3. CASE AcceptCommit(w) /\ m = req[w].target
      BY <2>1, <2>3 DEF AcceptCommit, Allowed, Rows
    <2>4. CASE ChangeCommit(w) /\ m = req[w].target
      <3>1. /\ members'[m] = ChangedRow(w) /\ req[w].pc = "change_commit"
            /\ HasRole(req[w].user, "admin")
            /\ req[w].role = "owner" => HasRole(req[w].user, "owner")
        BY <2>1, <2>4 DEF ChangeCommit, At, RequestTrue, ChangeStages
      <3>2. /\ ChangedRow(w).revoked = members[m].revoked
            /\ ChangedRow(w).role \in {members[m].role, req[w].role}
        BY <2>1, <2>4 DEF ChangedRow, Rows
      <3> QED
        BY <3>1, <3>2 DEF Allowed
    <2>5. CASE RemoveCommit(w) /\ m = req[w].target
      <3>1. /\ members'[m].role = members[m].role
            /\ req[w].pc = "remove_commit"
        BY <2>1, <2>5 DEF RemoveCommit, At, Rows
      <3>2. req[w].user = members[m].user \/ HasRole(req[w].user, "admin")
        BY <2>1, <2>5, <3>1 DEF RequestTrue, RemoveStages
      <3> QED
        BY <3>1, <3>2 DEF Allowed
    <2>6. CASE InviteInsert(w)
      BY <2>1, <2>2, <2>6 DEF InviteInsert, RowIds
    <2>7. ASSUME members' # members
          PROVE  InviteInsert(w) \/ AcceptCommit(w) \/ ChangeCommit(w) \/ RemoveCommit(w)
      BY <2>1, <2>7 DEF Step, Start, Go, StartDelete, DeleteRole, DeleteCommit,
         StartInvite, InviteRole, InviteCount, InviteMember, InvitePending, StartAccept,
         AcceptOrg, AcceptMember, StartChange, ChangeRead, ChangeCount, ChangeOwner,
         StartRemove, RemoveRole, RemoveCount, Abort
    <2>8. ASSUME AcceptCommit(w) \/ ChangeCommit(w) \/ RemoveCommit(w), m # req[w].target
          PROVE  members'[m] = members[m]
      BY <2>1, <2>8 DEF AcceptCommit, ChangeCommit, RemoveCommit
    <2> QED
      BY <2>2, <2>3, <2>4, <2>5, <2>6, <2>7, <2>8
  <1>2. Inv /\ AloneInv /\ [HistoryNext]_HistoryVars
           => [alone' => \A w \in Workers, m \in RowIds :
                  req'[w] # req[w] /\ m \in RowIds' => Allowed(req[w].user, m)]_HistoryVars
    BY <1>1
  <1> QED
    BY <1>2, HistoryInvariance, PTL DEF HistorySpec, OnlyAllowedAlone
================================================================================
