--------------------------------- MODULE Shares ---------------------------------
(***************************************************************************)
(* The share links of one user, to one design and to the user's inventory: *)
(* app/backend/accounts/routers/shares.py over share_links and             *)
(* inventory_mounts.                                                       *)
(*                                                                         *)
(* A request takes one step per query and one per commit; a check that     *)
(* fails ends it with an HTTP error: Abort.  The design contributes the    *)
(* revisions it keeps and that it may be deleted (see DesignStore).        *)
(***************************************************************************)
EXTENDS Naturals, FiniteSets

CONSTANTS
    Links,          \* identifiers of links; a link's token goes with it
    Mounts,         \* identifiers of mounts
    Users,          \* users who mount; none of them is the owner
    Workers,        \* requests that can run at the same time
    MaxLinks,       \* MAX_LINKS_PER_USER
    MaxRevisions,   \* MAX_REVISIONS_PER_DESIGN
    RevisionBound,  \* bound of the model: saves of the design
    VisitBound,     \* bound of the model: visits of a link
    Ops,            \* the routes clients call
    None            \* absent value

AllOps == {"share_design", "share_inventory", "revoke", "open", "mount", "unmount"}

ASSUME SetsAssumption ==
    /\ IsFiniteSet(Links) /\ IsFiniteSet(Workers)
    /\ Ops \subseteq AllOps
    /\ None \notin Nat
ASSUME NumbersAssumption ==
    /\ MaxLinks \in Nat \ {0} /\ MaxRevisions \in Nat \ {0}
    /\ RevisionBound \in Nat \ {0} /\ VisitBound \in Nat

VARIABLES
    newest,         \* newest revision of the design
    designLive,     \* the design is not deleted
    links,          \* table share_links: row by id
    mounts,         \* table inventory_mounts: row by id
    req             \* the request each worker handles

vars == <<newest, designLive, links, mounts, req>>

Revisions == 1..RevisionBound

LinkRows == [kind : {"design", "inventory"}, pinned : Revisions \union {None},
             revoked : BOOLEAN, visits : 0..VisitBound]

MountRows == [link : Links, user : Users, removed : BOOLEAN]

ASSUME NoneAssumption == None \notin LinkRows \union MountRows

Stages == {"idle", "design", "room", "insert", "find", "revoke", "visit", "show",
           "mounted", "insert_mount", "mount", "remove"}

\* row is the link as the request loaded it.
Requests == [pc : Stages, op : AllOps \union {"none"}, user : Users \union {None},
             link : Links \union {None}, pinned : Revisions \union {None},
             row : LinkRows \union {None}, mount : Mounts \union {None}]

NoReq == [pc |-> "idle", op |-> "none", user |-> None, link |-> None,
          pinned |-> None, row |-> None, mount |-> None]

--------------------------------------------------------------------------------

\* The design's rolling window of revisions.
Kept == {r \in Revisions : r <= newest /\ r + MaxRevisions > newest}

Live == {l \in Links : links[l] # None /\ ~links[l].revoked}

\* The live mounts of a link by a user.
Mounted(l, u) == {m \in Mounts : /\ mounts[m] # None
                                 /\ mounts[m].link = l
                                 /\ mounts[m].user = u
                                 /\ ~mounts[m].removed}

Start(w, request) ==
    /\ req[w].pc = "idle"
    /\ request.op \in Ops
    /\ req' = [req EXCEPT ![w] = request]
    /\ UNCHANGED <<newest, designLive, links, mounts>>

At(w, stage) == req[w].pc = stage

Go(w, stage) ==
    /\ req' = [req EXCEPT ![w].pc = stage]
    /\ UNCHANGED <<newest, designLive, links, mounts>>

Finish(w) == req' = [req EXCEPT ![w] = NoReq]

--------------------------------------------------------------------------------
(* POST /designs/{id}/share, POST /inventory/share *)

StartShareDesign(w) ==
    \E pinned \in Revisions \union {None} :
        Start(w, [NoReq EXCEPT !.pc = "design", !.op = "share_design", !.pinned = pinned])

StartShareInventory(w) ==
    Start(w, [NoReq EXCEPT !.pc = "room", !.op = "share_inventory"])

CheckDesign(w) ==
    /\ At(w, "design")
    /\ designLive
    /\ req[w].pinned \in Kept \union {None}
    /\ Go(w, "room")

\* Mutant: > for >=.
HasRoom_OffByOne == Cardinality(Live) <= MaxLinks

HasRoom == Cardinality(Live) < MaxLinks

CheckRoom(w) ==
    /\ At(w, "room")
    /\ HasRoom
    /\ Go(w, "insert")

NewLink(w) ==
    [kind |-> IF req[w].op = "share_design" THEN "design" ELSE "inventory",
     pinned |-> req[w].pinned, revoked |-> FALSE, visits |-> 0]

InsertLink(w) ==
    /\ At(w, "insert")
    /\ \E l \in Links :
          /\ links[l] = None
          /\ links' = [links EXCEPT ![l] = NewLink(w)]
    /\ Finish(w)
    /\ UNCHANGED <<newest, designLive, mounts>>

--------------------------------------------------------------------------------
(* DELETE /shares/{id} *)

StartRevoke(w) ==
    \E l \in Links :
        /\ links[l] # None
        /\ Start(w, [NoReq EXCEPT !.pc = "find", !.op = "revoke", !.link = l])

\* The queries of revoke_share and of _live_link, which takes one kind of link.
FindLink(w) ==
    LET l == req[w].link
        op == req[w].op
    IN  /\ At(w, "find")
        /\ op # "unmount"
        /\ l \in Live
        /\ op = "mount" => links[l].kind = "inventory"
        /\ req' = [req EXCEPT ![w].row = links[l],
                              ![w].pc = IF op = "revoke" THEN "revoke" ELSE "visit"]
        /\ UNCHANGED <<newest, designLive, links, mounts>>

CommitRevoke(w) ==
    /\ At(w, "revoke")
    /\ links' = [links EXCEPT ![req[w].link].revoked = TRUE]
    /\ Finish(w)
    /\ UNCHANGED <<newest, designLive, mounts>>

--------------------------------------------------------------------------------
(* GET /share/d/{token}, GET /share/i/{token} *)

StartOpen(w) ==
    \E l \in Links :
        /\ links[l] # None
        /\ Start(w, [NoReq EXCEPT !.pc = "find", !.op = "open", !.link = l])

\* Mutant: the row that was loaded is written back whole.
Visited_WholeRow(w) == [req[w].row EXCEPT !.visits = links[req[w].link].visits + 1]

\* visit_count = visit_count + 1 is computed by the database.
Visited(w) == [links[req[w].link] EXCEPT !.visits = @ + 1]

CountVisit(w) ==
    LET l == req[w].link IN
    /\ At(w, "visit")
    /\ links[l].visits < VisitBound
    /\ links' = [links EXCEPT ![l] = Visited(w)]
    /\ req' = [req EXCEPT ![w].pc = IF req[w].op = "mount" THEN "mounted" ELSE "show"]
    /\ UNCHANGED <<newest, designLive, mounts>>

\* Opening a link shows the inventory, the design's newest revision, or the
\* pinned one if the design still keeps it; otherwise it answers 404.
Serves(l) ==
    \/ links[l].kind = "inventory"
    \/ designLive /\ links[l].pinned \in Kept \union {None}

Show(w) ==
    /\ At(w, "show")
    /\ Serves(req[w].link)
    /\ Finish(w)
    /\ UNCHANGED <<newest, designLive, links, mounts>>

--------------------------------------------------------------------------------
(* POST and DELETE /share/i/{token}/mount *)

StartMount(w) ==
    \E u \in Users, l \in Links :
        /\ links[l] # None
        /\ Start(w, [NoReq EXCEPT !.pc = "find", !.op = "mount", !.user = u, !.link = l])

\* Mutant: no look at the mounts there are.
IsMounted_Never(w) == FALSE

IsMounted(w) == Mounted(req[w].link, req[w].user) # {}

CheckMounted(w) ==
    /\ At(w, "mounted")
    /\ \/ /\ IsMounted(w)
          /\ Finish(w)
       \/ /\ ~IsMounted(w)
          /\ req' = [req EXCEPT ![w].pc = "insert_mount"]
    /\ UNCHANGED <<newest, designLive, links, mounts>>

InsertMount(w) ==
    /\ At(w, "insert_mount")
    /\ \E m \in Mounts :
          /\ mounts[m] = None
          /\ mounts' = [mounts EXCEPT ![m] = [link |-> req[w].link, user |-> req[w].user,
                                              removed |-> FALSE]]
    /\ Finish(w)
    /\ UNCHANGED <<newest, designLive, links>>

StartUnmount(w) ==
    \E u \in Users, l \in Links :
        /\ links[l] # None
        /\ links[l].kind = "inventory"
        /\ Start(w, [NoReq EXCEPT !.pc = "mount", !.op = "unmount", !.user = u, !.link = l])

\* one_or_none: more than one mount is an error too.
FindMount(w) ==
    /\ At(w, "mount")
    /\ \E m \in Mounts :
          /\ Mounted(req[w].link, req[w].user) = {m}
          /\ req' = [req EXCEPT ![w].mount = m, ![w].pc = "remove"]
    /\ UNCHANGED <<newest, designLive, links, mounts>>

RemoveMount(w) ==
    /\ At(w, "remove")
    /\ mounts' = [mounts EXCEPT ![req[w].mount].removed = TRUE]
    /\ Finish(w)
    /\ UNCHANGED <<newest, designLive, links>>

--------------------------------------------------------------------------------
(* What happens to the design meanwhile *)

SaveDesign ==
    /\ designLive
    /\ newest < RevisionBound
    /\ newest' = newest + 1
    /\ UNCHANGED <<designLive, links, mounts, req>>

DeleteDesign ==
    /\ designLive
    /\ designLive' = FALSE
    /\ UNCHANGED <<newest, links, mounts, req>>

Abort(w) ==
    /\ req[w].pc # "idle"
    /\ Finish(w)
    /\ UNCHANGED <<newest, designLive, links, mounts>>

Init ==
    /\ newest = 1
    /\ designLive = TRUE
    /\ links = [l \in Links |-> None]
    /\ mounts = [m \in Mounts |-> None]
    /\ req = [w \in Workers |-> NoReq]

Step(w) ==
    \/ StartShareDesign(w) \/ StartShareInventory(w)
    \/ CheckDesign(w) \/ CheckRoom(w) \/ InsertLink(w)
    \/ StartRevoke(w) \/ FindLink(w) \/ CommitRevoke(w)
    \/ StartOpen(w) \/ CountVisit(w) \/ Show(w)
    \/ StartMount(w) \/ CheckMounted(w) \/ InsertMount(w)
    \/ StartUnmount(w) \/ FindMount(w) \/ RemoveMount(w)
    \/ Abort(w)

Next ==
    \/ \E w \in Workers : Step(w)
    \/ SaveDesign
    \/ DeleteDesign

Spec == Init /\ [][Next]_vars

--------------------------------------------------------------------------------
(* Properties *)

\* Every variable has its type.
TypeOK ==
    /\ newest \in Revisions
    /\ designLive \in BOOLEAN
    /\ links \in [Links -> LinkRows \union {None}]
    /\ mounts \in [Mounts -> MountRows \union {None}]
    /\ req \in [Workers -> Requests]

Sharing == {w \in Workers : At(w, "insert")}

\* The limit is counted before the insert (share_design, share_inventory), so
\* requests that count together pass it together.  Links and requests let
\* through overshoot it by less than the requests that run at once.
LinksBounded ==
    /\ TypeOK
    /\ Cardinality(Live) + Cardinality(Sharing) <= MaxLinks - 1 + Cardinality(Workers)

\* "owners can revoke at any time": a visit that had found the link before it
\* was revoked does not bring it back when it commits.
RevokedForGood ==
    [][\A l \in Links : links[l] # None /\ links[l].revoked => links'[l].revoked]_vars

Followers(l) == {u \in Users : Mounted(l, u) # {}}

\* A link's row with the users who have it mounted.
GrantOf(l) ==
    IF links[l] = None THEN None
    ELSE [kind |-> links[l].kind, pinned |-> links[l].pinned, live |-> ~links[l].revoked,
          followers |-> Followers(l)]

TheGrants == INSTANCE Grants WITH grants <- [l \in Links |-> GrantOf(l)]

ASSUME GrantsAssumption == None \notin TheGrants!Held

\* Whatever visits, mounts and revocations overlap, links are grants: what a request
\* does with a link it has found never gives it again, turns it to another thing,
\* or lets anybody follow a design or a link that was not made.
ImplementsGrants == TheGrants!Spec

\* A user mounts a link once: mount_shared_inventory and
\* unmount_shared_inventory query it with one_or_none, which raises otherwise.
MountedOnce == \A l \in Links, u \in Users : Cardinality(Mounted(l, u)) <= 1
================================================================================
