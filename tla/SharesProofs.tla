------------------------------ MODULE SharesProofs ------------------------------
(***************************************************************************)
(* Theorems of Shares, for any number of links, mounts, users and requests *)
(* at once and any limit on links.                                         *)
(*                                                                         *)
(* A request that found a row holds on to its identifier: rows are updated *)
(* but never deleted, so what it writes is a row (RequestKnown).  That no  *)
(* user mounts a link twice is a theorem of requests that come one at a    *)
(* time, so of MCShares' history.                                          *)
(***************************************************************************)
EXTENDS MCShares, FiniteSetTheorems, TLAPS

OnLinks == {"revoke", "open", "mount", "unmount"}

RequestKnown(q, linksNow, mountsNow) ==
    /\ q.op \in OnLinks => q.link \in Links /\ linksNow[q.link] # None
    /\ q.op \in {"mount", "unmount"} => q.user \in Users
    /\ q.pc \in {"find", "revoke", "visit", "show", "mount"} => q.op \in OnLinks
    /\ q.pc \in {"mounted", "insert_mount"} => q.op = "mount"
    /\ q.pc = "remove" => q.mount \in Mounts /\ mountsNow[q.mount] # None

Inv == TypeOK /\ \A w \in Workers : RequestKnown(req[w], links, mounts)

--------------------------------------------------------------------------------

\* Rows are rows, and stay.
LEMMA RowsTyped ==
    ASSUME TypeOK
    PROVE  /\ \A l \in Links : links[l] # None => links[l] \in LinkRows
           /\ \A m \in Mounts : mounts[m] # None => mounts[m] \in MountRows
  BY DEF TypeOK

\* What each step does to the links: nothing, a link is added, or a visit or a
\* revocation changes one.
LEMMA LinksAfter ==
    ASSUME Inv, Next
    PROVE  \/ links' = links
           \/ \E w \in Workers, l \in Links :
                 /\ InsertLink(w) /\ links[l] = None
                 /\ NewLink(w) \in LinkRows
                 /\ links' = [links EXCEPT ![l] = NewLink(w)]
           \/ \E l \in Links, new \in LinkRows :
                 /\ links[l] # None
                 /\ links[l].revoked => new.revoked
                 /\ new.kind = links[l].kind /\ new.pinned = links[l].pinned
                 /\ links' = [links EXCEPT ![l] = new]
  <1> USE DEF Inv
  <1>1. CASE \E w \in Workers : InsertLink(w)
    <2>1. PICK w \in Workers : InsertLink(w)
      BY <1>1
    <2>2. PICK l \in Links : links[l] = None /\ links' = [links EXCEPT ![l] = NewLink(w)]
      BY <2>1 DEF InsertLink
    <2>3. req[w] \in Requests
      BY DEF TypeOK
    <2>4. NewLink(w) \in LinkRows
      BY <2>3, NumbersAssumption DEF NewLink, LinkRows, Requests
    <2> QED
      BY <2>1, <2>2, <2>4
  <1>2. CASE \E w \in Workers : CommitRevoke(w)
    <2>1. PICK w \in Workers : CommitRevoke(w)
      BY <1>2
    <2> DEFINE l == req[w].link
               new == [links[l] EXCEPT !.revoked = TRUE]
    <2>2. l \in Links /\ links[l] # None /\ links[l] \in LinkRows
      BY <2>1, RowsTyped DEF CommitRevoke, At, RequestKnown
    <2>3. /\ new \in LinkRows /\ new.revoked
          /\ new.kind = links[l].kind /\ new.pinned = links[l].pinned
      BY <2>2 DEF LinkRows
    <2>4. links' = [links EXCEPT ![l] = new]
      BY <2>1, <2>2 DEF CommitRevoke, TypeOK
    <2> HIDE DEF new
    <2> QED
      BY <2>2, <2>3, <2>4
  <1>3. CASE \E w \in Workers : CountVisit(w)
    <2>1. PICK w \in Workers : CountVisit(w)
      BY <1>3
    <2> DEFINE l == req[w].link
    <2>2. l \in Links /\ links[l] # None /\ links[l] \in LinkRows
      BY <2>1, RowsTyped DEF CountVisit, At, RequestKnown
    <2>3. links[l].visits \in 0..VisitBound /\ links[l].visits < VisitBound
      BY <2>1, <2>2 DEF CountVisit, LinkRows
    <2>4. links[l].visits + 1 \in 0..VisitBound
      BY <2>3, NumbersAssumption
    <2>5. /\ Visited(w) \in LinkRows /\ Visited(w).revoked = links[l].revoked
          /\ Visited(w).kind = links[l].kind /\ Visited(w).pinned = links[l].pinned
      BY <2>2, <2>4 DEF Visited, LinkRows
    <2>6. links' = [links EXCEPT ![l] = Visited(w)]
      BY <2>1 DEF CountVisit
    <2> QED
      BY <2>2, <2>5, <2>6
  <1>4. CASE /\ \E w \in Workers : Step(w)
             /\ ~\E w \in Workers : InsertLink(w) \/ CommitRevoke(w) \/ CountVisit(w)
    BY <1>4 DEF Step, Start, Go, StartShareDesign, StartShareInventory, CheckDesign,
                CheckRoom, StartRevoke, FindLink, StartOpen, Show, StartMount,
                CheckMounted, InsertMount, StartUnmount, FindMount, RemoveMount, Abort
  <1>5. CASE SaveDesign \/ DeleteDesign
    BY <1>5 DEF SaveDesign, DeleteDesign
  <1> QED
    BY <1>1, <1>2, <1>3, <1>4, <1>5 DEF Next

LEMMA LinksTyped ==
    ASSUME Inv, Next
    PROVE  /\ links' \in [Links -> LinkRows \union {None}]
           /\ \A l \in Links : links[l] # None => links'[l] # None
  BY LinksAfter, NoneAssumption DEF Inv, TypeOK

LEMMA MountsTyped ==
    ASSUME Inv, Next
    PROVE  /\ mounts' \in [Mounts -> MountRows \union {None}]
           /\ \A m \in Mounts : mounts[m] # None => mounts'[m] # None
  <1> USE NoneAssumption DEF Inv
  <1>1. CASE \E w \in Workers : InsertMount(w)
    <2>1. PICK w \in Workers : InsertMount(w)
      BY <1>1
    <2> DEFINE new == [link |-> req[w].link, user |-> req[w].user, removed |-> FALSE]
    <2>2. new \in MountRows
      BY <2>1 DEF InsertMount, At, RequestKnown, OnLinks, MountRows
    <2>3. PICK m \in Mounts : mounts' = [mounts EXCEPT ![m] = new]
      BY <2>1 DEF InsertMount
    <2> HIDE DEF new
    <2> QED
      BY <2>2, <2>3 DEF TypeOK
  <1>2. CASE \E w \in Workers : RemoveMount(w)
    <2>1. PICK w \in Workers : RemoveMount(w)
      BY <1>2
    <2> DEFINE m == req[w].mount
               new == [mounts[m] EXCEPT !.removed = TRUE]
    <2>2. m \in Mounts /\ mounts[m] \in MountRows
      BY <2>1, RowsTyped DEF RemoveMount, At, RequestKnown
    <2>3. new \in MountRows
      BY <2>2 DEF MountRows
    <2>4. mounts' = [mounts EXCEPT ![m] = new]
      BY <2>1, <2>2 DEF RemoveMount, TypeOK
    <2> HIDE DEF new
    <2> QED
      BY <2>2, <2>3, <2>4 DEF TypeOK
  <1>3. CASE /\ \E w \in Workers : Step(w)
             /\ ~\E w \in Workers : InsertMount(w) \/ RemoveMount(w)
    <2>1. mounts' = mounts
      BY <1>3 DEF Step, Start, Go, StartShareDesign, StartShareInventory, CheckDesign,
                CheckRoom, InsertLink, StartRevoke, FindLink, CommitRevoke, StartOpen,
                CountVisit, Show, StartMount, CheckMounted, StartUnmount, FindMount, Abort
    <2> QED
      BY <2>1 DEF TypeOK
  <1>4. CASE SaveDesign \/ DeleteDesign
    BY <1>4 DEF SaveDesign, DeleteDesign, TypeOK
  <1> QED
    BY <1>1, <1>2, <1>3, <1>4 DEF Next

Moves(w) ==
    \E q \in Requests :
       /\ req' = [req EXCEPT ![w] = q]
       /\ RequestKnown(q, links, mounts)
       /\ q.pc = "insert" => req[w].pc = "insert" \/ CheckRoom(w)

\* Every step leaves the request of its worker typed, and holding a row if it
\* needs one; only the check of the limit lets a request insert.
LEMMA StepMoves ==
    ASSUME Inv, NEW w \in Workers, Step(w)
    PROVE  Moves(w)
  <1> USE DEF Inv
  <1>0. NoReq \in Requests /\ req[w] \in Requests /\ RequestKnown(req[w], links, mounts)
    BY DEF NoReq, Requests, Stages, TypeOK
  <1>1. CASE StartShareDesign(w)
    <2>1. PICK pinned \in Revisions \union {None} :
             req' = [req EXCEPT ![w] =
                 [[[NoReq EXCEPT !.pc = "design"] EXCEPT !.op = "share_design"]
                      EXCEPT !.pinned = pinned]]
      BY <1>1 DEF StartShareDesign, Start
    <2> DEFINE q == [[[NoReq EXCEPT !.pc = "design"] EXCEPT !.op = "share_design"]
                        EXCEPT !.pinned = pinned]
    <2>2. q \in Requests /\ q.pc = "design" /\ q.op = "share_design"
      BY DEF NoReq, Requests, Stages, AllOps
    <2> HIDE DEF q
    <2>3. RequestKnown(q, links, mounts)
      BY <2>2 DEF RequestKnown, OnLinks
    <2> QED
      BY <2>1, <2>2, <2>3 DEF q, Moves
  <1>2. CASE StartShareInventory(w)
    <2> DEFINE q == [[NoReq EXCEPT !.pc = "room"] EXCEPT !.op = "share_inventory"]
    <2>1. req' = [req EXCEPT ![w] = q]
      BY <1>2 DEF StartShareInventory, Start
    <2>2. q \in Requests /\ q.pc = "room" /\ q.op = "share_inventory"
      BY DEF NoReq, Requests, Stages, AllOps
    <2> HIDE DEF q
    <2>3. RequestKnown(q, links, mounts)
      BY <2>2 DEF RequestKnown, OnLinks
    <2> QED
      BY <2>1, <2>2, <2>3 DEF Moves
  <1>3. CASE StartRevoke(w) \/ StartOpen(w)
    <2>1. PICK l \in Links, op \in {"revoke", "open"} :
             /\ links[l] # None
             /\ req' = [req EXCEPT ![w] =
                   [[[NoReq EXCEPT !.pc = "find"] EXCEPT !.op = op] EXCEPT !.link = l]]
      BY <1>3 DEF StartRevoke, StartOpen, Start
    <2> DEFINE q == [[[NoReq EXCEPT !.pc = "find"] EXCEPT !.op = op] EXCEPT !.link = l]
    <2>2. q \in Requests /\ q.pc = "find" /\ q.op = op /\ q.link = l
      BY DEF NoReq, Requests, Stages, AllOps
    <2> HIDE DEF q
    <2>3. RequestKnown(q, links, mounts)
      BY <2>1, <2>2 DEF RequestKnown, OnLinks
    <2> QED
      BY <2>1, <2>2, <2>3 DEF q, Moves
  <1>4. CASE StartMount(w) \/ StartUnmount(w)
    <2>1. PICK l \in Links, u \in Users, pc \in {"find", "mount"},
               op \in {"mount", "unmount"} :
             /\ links[l] # None
             /\ req' = [req EXCEPT ![w] =
                   [[[[NoReq EXCEPT !.pc = pc] EXCEPT !.op = op] EXCEPT !.user = u]
                       EXCEPT !.link = l]]
      BY <1>4 DEF StartMount, StartUnmount, Start
    <2> DEFINE q == [[[[NoReq EXCEPT !.pc = pc] EXCEPT !.op = op] EXCEPT !.user = u]
                       EXCEPT !.link = l]
    <2>2. q \in Requests /\ q.pc = pc /\ q.op = op /\ q.link = l /\ q.user = u
      BY DEF NoReq, Requests, Stages, AllOps
    <2> HIDE DEF q
    <2>3. RequestKnown(q, links, mounts)
      BY <2>1, <2>2 DEF RequestKnown, OnLinks
    <2> QED
      BY <2>1, <2>2, <2>3 DEF q, Moves
  <1>5. CASE CheckDesign(w) \/ CheckRoom(w) \/ CountVisit(w)
    <2>1. PICK pc \in {"room", "insert", "mounted", "show"} :
             /\ req' = [req EXCEPT ![w] = [req[w] EXCEPT !.pc = pc]]
             /\ pc = "insert" => CheckRoom(w)
             /\ pc = "mounted" => req[w].op = "mount"
             /\ pc = "show" => req[w].op \in OnLinks
      <3>1. CASE CheckDesign(w) \/ CheckRoom(w)
        BY <3>1 DEF CheckDesign, CheckRoom, Go, TypeOK
      <3>2. CASE CountVisit(w)
        <4>1. req[w].op \in OnLinks
          BY <1>0, <3>2 DEF CountVisit, At, RequestKnown
        <4> QED
          BY <3>2, <4>1 DEF CountVisit, TypeOK
      <3> QED
        BY <1>5, <3>1, <3>2
    <2> DEFINE q == [req[w] EXCEPT !.pc = pc]
    <2>2. /\ q \in Requests /\ q.pc = pc /\ q.op = req[w].op /\ q.link = req[w].link
          /\ q.user = req[w].user
      BY <1>0 DEF Requests, Stages
    <2> HIDE DEF q
    <2>3. RequestKnown(q, links, mounts)
      BY <1>0, <2>1, <2>2 DEF RequestKnown
    <2> QED
      BY <2>1, <2>2, <2>3 DEF q, Moves
  <1>6. CASE FindLink(w)
    <2>1. req[w].op \in OnLinks /\ links[req[w].link] \in LinkRows
      BY <1>0, <1>6, RowsTyped DEF FindLink, At, RequestKnown, Live
    <2>2. PICK row \in LinkRows, pc \in {"revoke", "visit"} :
             req' = [req EXCEPT ![w] = [[req[w] EXCEPT !.row = row] EXCEPT !.pc = pc]]
      BY <1>6, <2>1 DEF FindLink, TypeOK
    <2> DEFINE found == [req[w] EXCEPT !.row = row]
               q == [found EXCEPT !.pc = pc]
    <2>3. /\ found \in Requests /\ found.op = req[w].op
          /\ found.link = req[w].link /\ found.user = req[w].user
      BY <1>0 DEF Requests
    <2> HIDE DEF found
    <2>4. /\ q \in Requests /\ q.pc = pc /\ q.op = req[w].op /\ q.link = req[w].link
          /\ q.user = req[w].user
      BY <2>3 DEF Requests, Stages
    <2> HIDE DEF q
    <2>5. RequestKnown(q, links, mounts)
      BY <1>0, <2>1, <2>4 DEF RequestKnown
    <2> QED
      BY <2>2, <2>4, <2>5 DEF q, found, Moves
  <1>7. CASE CheckMounted(w) /\ req'[w] # NoReq
    <2> DEFINE q == [req[w] EXCEPT !.pc = "insert_mount"]
    <2>1. req' = [req EXCEPT ![w] = q] /\ req[w].op = "mount"
      BY <1>0, <1>7 DEF CheckMounted, Finish, At, RequestKnown, TypeOK
    <2>2. /\ q \in Requests /\ q.pc = "insert_mount" /\ q.op = req[w].op
          /\ q.link = req[w].link /\ q.user = req[w].user
      BY <1>0 DEF Requests, Stages
    <2> HIDE DEF q
    <2>3. RequestKnown(q, links, mounts)
      BY <1>0, <2>1, <2>2 DEF RequestKnown
    <2> QED
      BY <2>1, <2>2, <2>3 DEF Moves
  <1>8. CASE FindMount(w)
    <2>1. PICK m \in Mounts :
             /\ Mounted(req[w].link, req[w].user) = {m}
             /\ req' = [req EXCEPT ![w] =
                   [[req[w] EXCEPT !.mount = m] EXCEPT !.pc = "remove"]]
      BY <1>8 DEF FindMount, TypeOK
    <2>2. mounts[m] # None
      BY <2>1 DEF Mounted
    <2> DEFINE found == [req[w] EXCEPT !.mount = m]
               q == [found EXCEPT !.pc = "remove"]
    <2>3. /\ found \in Requests /\ found.op = req[w].op /\ found.mount = m
          /\ found.link = req[w].link /\ found.user = req[w].user
      BY <1>0 DEF Requests
    <2> HIDE DEF found
    <2>4. /\ q \in Requests /\ q.pc = "remove" /\ q.op = req[w].op /\ q.mount = m
          /\ q.link = req[w].link /\ q.user = req[w].user
      BY <2>3 DEF Requests, Stages
    <2> HIDE DEF q
    <2>5. RequestKnown(q, links, mounts)
      BY <1>0, <2>2, <2>4 DEF RequestKnown
    <2> QED
      BY <2>1, <2>4, <2>5 DEF q, found, Moves
  <1>9. CASE \/ InsertLink(w) \/ CommitRevoke(w) \/ Show(w) \/ InsertMount(w)
             \/ RemoveMount(w) \/ Abort(w)
             \/ CheckMounted(w) /\ req'[w] = NoReq
    <2>1. req' = [req EXCEPT ![w] = NoReq]
      BY <1>9 DEF InsertLink, CommitRevoke, Show, InsertMount, RemoveMount, Abort,
                  CheckMounted, Finish, NoReq, TypeOK
    <2>2. RequestKnown(NoReq, links, mounts) /\ NoReq.pc = "idle"
      BY DEF RequestKnown, NoReq, OnLinks
    <2> QED
      BY <1>0, <2>1, <2>2 DEF Moves
  <1>10. CASE CheckMounted(w)
    BY <1>7, <1>9, <1>10
  <1> QED
    BY <1>1, <1>2, <1>3, <1>4, <1>5, <1>6, <1>8, <1>9, <1>10 DEF Step

\* A request goes on holding its rows whatever others do.
LEMMA KnownStays ==
    ASSUME Inv, Next, NEW q \in Requests, RequestKnown(q, links, mounts)
    PROVE  RequestKnown(q, links', mounts')
  BY LinksTyped, MountsTyped DEF RequestKnown

LEMMA RequestsKept ==
    ASSUME Inv, Next
    PROVE  /\ req' \in [Workers -> Requests]
           /\ \A w \in Workers : RequestKnown(req'[w], links', mounts')
  <1>1. \A w \in Workers : req[w] \in Requests /\ RequestKnown(req[w], links', mounts')
    BY KnownStays DEF Inv, TypeOK
  <1>2. CASE SaveDesign \/ DeleteDesign
    BY <1>1, <1>2 DEF SaveDesign, DeleteDesign, Inv, TypeOK
  <1>3. CASE \E w \in Workers : Step(w)
    <2>1. PICK w \in Workers, q \in Requests :
             req' = [req EXCEPT ![w] = q] /\ RequestKnown(q, links, mounts)
      BY <1>3, StepMoves DEF Moves
    <2>2. RequestKnown(q, links', mounts')
      BY <2>1, KnownStays
    <2>3. req \in [Workers -> Requests]
      BY DEF Inv, TypeOK
    <2> QED
      BY <1>1, <2>1, <2>2, <2>3
  <1> QED
    BY <1>2, <1>3 DEF Next

LEMMA DesignTyped ==
    ASSUME Inv, Next PROVE newest' \in Revisions /\ designLive' \in BOOLEAN
  <1> USE DEF Inv, TypeOK, Revisions
  <1>1. CASE SaveDesign
    BY <1>1, NumbersAssumption DEF SaveDesign
  <1>2. CASE DeleteDesign
    BY <1>2 DEF DeleteDesign
  <1>3. CASE \E w \in Workers : Step(w)
    <2>1. newest' = newest /\ designLive' = designLive
      BY <1>3 DEF Step, Start, Go, StartShareDesign, StartShareInventory, CheckDesign,
                  CheckRoom, InsertLink, StartRevoke, FindLink, CommitRevoke, StartOpen,
                  CountVisit, Show, StartMount, CheckMounted, InsertMount, StartUnmount,
                  FindMount, RemoveMount, Abort
    <2> QED
      BY <2>1
  <1> QED
    BY <1>1, <1>2, <1>3 DEF Next

LEMMA InvInit == Init => Inv
  <1> SUFFICES ASSUME Init PROVE Inv
    OBVIOUS
  <1>1. NoReq \in Requests /\ RequestKnown(NoReq, links, mounts)
    BY DEF NoReq, Requests, Stages, RequestKnown, OnLinks
  <1>2. newest \in Revisions
    BY NumbersAssumption DEF Init, Revisions
  <1> QED
    BY <1>1, <1>2 DEF Init, Inv, TypeOK

LEMMA InvNext == Inv /\ [Next]_vars => Inv'
  <1> SUFFICES ASSUME Inv, [Next]_vars PROVE Inv'
    OBVIOUS
  <1>1. CASE UNCHANGED vars
    BY <1>1 DEF vars, Inv, TypeOK
  <1>2. CASE Next
    BY <1>2, LinksTyped, MountsTyped, RequestsKept, DesignTyped DEF Inv, TypeOK
  <1> QED
    BY <1>1, <1>2

LEMMA Invariance == Spec => []Inv
  BY InvInit, InvNext, PTL DEF Spec

--------------------------------------------------------------------------------

\* No visit, whatever it had loaded, brings a revoked link back, and no link is
\* deleted and made anew (count_visit writes one column, nothing deletes rows).
THEOREM RevokedForGoodHolds == Spec => RevokedForGood
  <1>1. ASSUME Inv, [Next]_vars, NEW l \in Links, links[l] # None, links[l].revoked
        PROVE  links'[l].revoked
    <2>1. CASE links' = links
      BY <1>1, <2>1
    <2>2. CASE Next
      BY <1>1, <2>2, LinksAfter DEF Inv, TypeOK
    <2> QED
      BY <1>1, <2>1, <2>2 DEF vars
  <1>2. Inv /\ [Next]_vars =>
           [\A l \in Links : links[l] # None /\ links[l].revoked => links'[l].revoked]_vars
    BY <1>1
  <1> QED
    BY <1>2, Invariance, PTL DEF Spec, RevokedForGood

--------------------------------------------------------------------------------
(* Links are grants *)

Followable(l, linksNow) ==
    l \in Links /\ linksNow[l] # None /\ linksNow[l].kind = "inventory"

GrantKnown(q, linksNow) ==
    /\ q.op # "share_design" => q.pinned = None
    /\ q.op = "mount" /\ q.pc \in {"visit", "mounted", "insert_mount"}
          => Followable(q.link, linksNow)

\* Only a request for a design pins a revision; what is mounted, or about to be,
\* is an inventory's link.
GrantsInv ==
    /\ \A w \in Workers : GrantKnown(req[w], links)
    /\ \A m \in Mounts : mounts[m] # None => Followable(mounts[m].link, links)

\* Each step leaves its request so: FindLink looks at the kind of the link, and
\* the steps up to the insert go on with that link.
LEMMA StepKnows ==
    ASSUME Inv, GrantsInv, NEW w \in Workers, Step(w)
    PROVE  GrantKnown(req'[w], links)
  <1>0. /\ req \in [Workers -> Requests] /\ req[w] \in Requests
        /\ GrantKnown(req[w], links) /\ RequestKnown(req[w], links, mounts)
    BY DEF Inv, TypeOK, GrantsInv
  <1>1. CASE StartShareDesign(w)
    BY <1>0, <1>1 DEF StartShareDesign, Start, NoReq, GrantKnown
  <1>2. CASE StartShareInventory(w)
    BY <1>0, <1>2 DEF StartShareInventory, Start, NoReq, GrantKnown
  <1>3. CASE StartRevoke(w)
    BY <1>0, <1>3 DEF StartRevoke, Start, NoReq, GrantKnown
  <1>4. CASE StartOpen(w)
    BY <1>0, <1>4 DEF StartOpen, Start, NoReq, GrantKnown
  <1>5. CASE StartMount(w)
    BY <1>0, <1>5 DEF StartMount, Start, NoReq, GrantKnown
  <1>6. CASE StartUnmount(w)
    BY <1>0, <1>6 DEF StartUnmount, Start, NoReq, GrantKnown
  <1>7. CASE CheckDesign(w) \/ CheckRoom(w)
    BY <1>0, <1>7 DEF CheckDesign, CheckRoom, Go, Requests, GrantKnown
  <1>8. CASE FindLink(w)
    <2>1. /\ req'[w].op = req[w].op /\ req'[w].pinned = req[w].pinned
          /\ req'[w].link = req[w].link
      BY <1>0, <1>8 DEF FindLink, Requests
    <2>2. req[w].op = "mount" => Followable(req[w].link, links)
      BY <1>8 DEF FindLink, Live, Followable
    <2> QED
      BY <1>0, <2>1, <2>2 DEF GrantKnown
  <1>9. CASE CountVisit(w)
    <2>1. /\ req'[w].op = req[w].op /\ req'[w].pinned = req[w].pinned
          /\ req'[w].link = req[w].link /\ req[w].pc = "visit"
      BY <1>0, <1>9 DEF CountVisit, At, Requests
    <2> QED
      BY <1>0, <2>1 DEF GrantKnown
  <1>10. ASSUME Finish(w) PROVE GrantKnown(req'[w], links)
    BY <1>0, <1>10 DEF Finish, NoReq, GrantKnown
  <1>11. CASE CheckMounted(w)
    <2>1. CASE req' = [req EXCEPT ![w].pc = "insert_mount"]
      <3>1. /\ req'[w].op = req[w].op /\ req'[w].pinned = req[w].pinned
            /\ req'[w].link = req[w].link /\ req[w].pc = "mounted"
        BY <1>0, <1>11, <2>1 DEF CheckMounted, At, Requests
      <3> QED
        BY <1>0, <3>1 DEF GrantKnown
    <2> QED
      BY <1>10, <1>11, <2>1 DEF CheckMounted
  <1>12. CASE FindMount(w)
    <2>1. /\ req'[w].op = req[w].op /\ req'[w].pinned = req[w].pinned
          /\ req'[w].pc = "remove"
      BY <1>0, <1>12 DEF FindMount, Requests
    <2> QED
      BY <1>0, <2>1 DEF GrantKnown
  <1>13. CASE InsertLink(w) \/ CommitRevoke(w) \/ Show(w) \/ InsertMount(w)
              \/ RemoveMount(w) \/ Abort(w)
    BY <1>10, <1>13 DEF InsertLink, CommitRevoke, Show, InsertMount, RemoveMount, Abort
  <1> QED
    BY <1>1, <1>2, <1>3, <1>4, <1>5, <1>6, <1>7, <1>8, <1>9, <1>11, <1>12, <1>13 DEF Step

\* A link stays one for an inventory.
LEMMA FollowableStays ==
    ASSUME Inv, Next, NEW l, Followable(l, links)
    PROVE  Followable(l, links')
  BY LinksAfter, NoneAssumption DEF Followable, Inv, TypeOK

\* A request inserts the mount of the inventory it found, or removes one there is.
LEMMA MountsWritten ==
    ASSUME Inv, GrantsInv, Next
    PROVE  \/ mounts' = mounts
           \/ \E w \in Workers, m \in Mounts :
                 /\ mounts[m] = None
                 /\ Followable(req[w].link, links) /\ req[w].user \in Users
                 /\ links' = links
                 /\ mounts' = [mounts EXCEPT ![m] = [link |-> req[w].link,
                                                     user |-> req[w].user,
                                                     removed |-> FALSE]]
           \/ \E m \in Mounts :
                 /\ mounts[m] # None /\ mounts[m] \in MountRows
                 /\ links' = links
                 /\ mounts' = [mounts EXCEPT ![m].removed = TRUE]
  <1>1. CASE \E w \in Workers : InsertMount(w)
    <2>1. PICK w \in Workers : InsertMount(w)
      BY <1>1
    <2>2. Followable(req[w].link, links) /\ req[w].user \in Users
      BY <2>1 DEF InsertMount, At, Inv, RequestKnown, GrantsInv, GrantKnown
    <2> QED
      BY <2>1, <2>2 DEF InsertMount
  <1>2. CASE \E w \in Workers : RemoveMount(w)
    BY <1>2, RowsTyped DEF RemoveMount, At, Inv, RequestKnown
  <1>3. CASE ~\E w \in Workers : InsertMount(w) \/ RemoveMount(w)
    BY <1>3 DEF Next, SaveDesign, DeleteDesign, Step, Start, Go, StartShareDesign,
       StartShareInventory, CheckDesign, CheckRoom, InsertLink, StartRevoke, FindLink,
       CommitRevoke, StartOpen, CountVisit, Show, StartMount, CheckMounted,
       StartUnmount, FindMount, Abort
  <1> QED
    BY <1>1, <1>2, <1>3

LEMMA GrantsInvNext == ASSUME Inv, GrantsInv, [Next]_vars PROVE GrantsInv'
  <1>1. CASE UNCHANGED vars
    BY <1>1 DEF vars, GrantsInv
  <1>2. CASE Next
    <2>1. ASSUME NEW w \in Workers PROVE GrantKnown(req'[w], links')
      <3>1. GrantKnown(req'[w], links)
        <4>1. CASE Step(w)
          BY <4>1, StepKnows
        <4>2. ASSUME NEW v \in Workers, Step(v), v # w PROVE req'[w] = req[w]
          BY <4>2, StepMoves DEF Moves, Inv, TypeOK
        <4>3. CASE SaveDesign \/ DeleteDesign
          BY <4>3 DEF SaveDesign, DeleteDesign, GrantsInv
        <4> QED
          BY <1>2, <4>1, <4>2, <4>3 DEF Next, GrantsInv
      <3> QED
        BY <1>2, <3>1, FollowableStays DEF GrantKnown
    <2>2. ASSUME NEW m \in Mounts, mounts'[m] # None
          PROVE  Followable(mounts'[m].link, links')
      <3>1. Followable(mounts'[m].link, links)
        <4>1. CASE mounts' = mounts
          BY <2>2, <4>1 DEF GrantsInv
        <4>2. ASSUME NEW n \in Mounts, NEW new, Followable(new.link, links),
                     mounts' = [mounts EXCEPT ![n] = new]
              PROVE  Followable(mounts'[m].link, links)
          BY <2>2, <4>2 DEF GrantsInv, Inv, TypeOK
        <4>3. ASSUME NEW n \in Mounts, mounts[n] # None, mounts[n] \in MountRows,
                     mounts' = [mounts EXCEPT ![n].removed = TRUE]
              PROVE  Followable(mounts'[m].link, links)
          <5> DEFINE new == [mounts[n] EXCEPT !.removed = TRUE]
          <5>1. new.link = mounts[n].link
            BY <4>3 DEF MountRows
          <5>2. mounts' = [mounts EXCEPT ![n] = new]
            BY <4>3 DEF Inv, TypeOK
          <5>3. Followable(new.link, links)
            BY <4>3, <5>1 DEF GrantsInv
          <5> QED
            BY <4>2, <5>2, <5>3
        <4>4. ASSUME NEW w \in Workers, NEW n \in Mounts,
                     Followable(req[w].link, links),
                     mounts' = [mounts EXCEPT ![n] = [link |-> req[w].link,
                                                      user |-> req[w].user,
                                                      removed |-> FALSE]]
              PROVE  Followable(mounts'[m].link, links)
          BY <4>2, <4>4
        <4> QED
          BY <1>2, <4>1, <4>3, <4>4, MountsWritten
      <3> QED
        BY <1>2, <3>1, FollowableStays
    <2> QED
      BY <2>1, <2>2 DEF GrantsInv
  <1> QED
    BY <1>1, <1>2

LEMMA GrantsInvariance == Spec => []GrantsInv
  <1>1. ASSUME Init PROVE GrantsInv
    BY <1>1 DEF Init, NoReq, GrantsInv, GrantKnown
  <1> QED
    BY <1>1, Invariance, GrantsInvNext, PTL DEF Spec

SameGrants == \A l \in Links : GrantOf(l)' = GrantOf(l)

\* A grant depends on the row of its link and on who has it mounted.
LEMMA GrantDepends ==
    ASSUME NEW l \in Links, links'[l] = links[l],
           \A u \in Users : Mounted(l, u)' = {} <=> Mounted(l, u) = {}
    PROVE  GrantOf(l)' = GrantOf(l)
  <1>1. Followers(l)' = Followers(l)
    BY DEF Followers
  <1> QED
    BY <1>1 DEF GrantOf

\* One grant changes if the others do not.
LEMMA OneBecomes ==
    ASSUME NEW l \in Links, NEW grant, GrantOf(l)' = grant,
           \A k \in Links \ {l} : GrantOf(k)' = GrantOf(k)
    PROVE  TheGrants!Becomes(l, grant)
  BY DEF TheGrants!Becomes

LEMMA MadeShown ==
    ASSUME TypeOK
    PROVE  /\ TheGrants!Made = {l \in Links : links[l] # None}
           /\ \A l \in Links : links[l] # None =>
                 /\ links[l] \in LinkRows
                 /\ GrantOf(l) = [kind |-> links[l].kind, pinned |-> links[l].pinned,
                                  live |-> ~links[l].revoked,
                                  followers |-> Followers(l)]
  <1>1. ASSUME NEW l \in Links, links[l] # None
        PROVE  /\ links[l] \in LinkRows
               /\ GrantOf(l) = [kind |-> links[l].kind, pinned |-> links[l].pinned,
                                live |-> ~links[l].revoked,
                                followers |-> Followers(l)]
    BY <1>1, RowsTyped DEF GrantOf
  <1>2. ASSUME NEW l \in Links PROVE Followers(l) \subseteq Users
    BY DEF Followers
  <1>3. ASSUME NEW l \in Links, links[l] # None PROVE GrantOf(l) \in TheGrants!Held
    <2>1. links[l] \in LinkRows /\ Followers(l) \subseteq Users
      BY <1>1, <1>2, <1>3
    <2> QED
      BY <1>3, <2>1 DEF GrantOf, LinkRows, TheGrants!Held
  <1>4. ASSUME NEW l \in Links, links[l] = None PROVE GrantOf(l) = None
    BY <1>4 DEF GrantOf
  <1>5. \A l \in Links : GrantOf(l) # None <=> links[l] # None
    BY <1>3, <1>4, GrantsAssumption
  <1> QED
    BY <1>1, <1>5 DEF TheGrants!Made

\* A new link is a new grant: nobody has it mounted.
LEMMA InsertGrants ==
    ASSUME Inv, GrantsInv, NEW w \in Workers, NEW l \in Links, InsertLink(w),
           links[l] = None, NewLink(w) \in LinkRows,
           links' = [links EXCEPT ![l] = NewLink(w)]
    PROVE  TheGrants!Next
  <1>1. mounts' = mounts /\ \A k \in Links \ {l} : links'[k] = links[k]
    BY DEF InsertLink
  <1>2. \A k \in Links, u \in Users : Mounted(k, u)' = Mounted(k, u)
    BY <1>1 DEF Mounted
  <1>3. \A k \in Links \ {l} : GrantOf(k)' = GrantOf(k)
    BY <1>1, <1>2, GrantDepends
  <1>4. links'[l] = NewLink(w) /\ NewLink(w) # None
    BY NoneAssumption DEF Inv, TypeOK
  <1>5. \A u \in Users : Mounted(l, u)' = {}
    BY <1>2 DEF Mounted, GrantsInv, Followable
  <1> DEFINE kind == NewLink(w).kind
             pinned == NewLink(w).pinned
  <1>6. GrantOf(l)' = [kind |-> kind, pinned |-> pinned, live |-> TRUE, followers |-> {}]
    <2>1. Followers(l)' = {}
      BY <1>5 DEF Followers
    <2>2. ~NewLink(w).revoked
      BY DEF NewLink
    <2> QED
      BY <1>4, <2>1, <2>2 DEF GrantOf
  <1>7. /\ kind \in {"design", "inventory"} /\ pinned \in Revisions \union {None}
        /\ kind = "inventory" => pinned = None
    <2>1. NewLink(w).kind = "inventory" => NewLink(w).pinned = None
      BY DEF NewLink, GrantsInv, GrantKnown
    <2> QED
      BY <2>1 DEF LinkRows
  <1>8. TheGrants!Grant(l)
    <2> HIDE DEF kind, pinned
    <2> QED
      BY <1>3, <1>6, <1>7, OneBecomes DEF TheGrants!Grant
  <1>9. l \notin TheGrants!Made
    BY MadeShown DEF Inv
  <1> QED
    BY <1>8, <1>9 DEF TheGrants!Next

\* What is written to a link's row withdraws the grant or leaves it as it is.
LEMMA ChangeGrants ==
    ASSUME Inv, NEW l \in Links, NEW new \in LinkRows, links[l] # None,
           links[l].revoked => new.revoked,
           new.kind = links[l].kind, new.pinned = links[l].pinned,
           links' = [links EXCEPT ![l] = new], mounts' = mounts
    PROVE  TheGrants!Next \/ SameGrants
  <1>1. \A k \in Links, u \in Users : Mounted(k, u)' = Mounted(k, u)
    BY DEF Mounted
  <1>2. \A k \in Links \ {l} : GrantOf(k)' = GrantOf(k)
    BY <1>1, GrantDepends
  <1>3. links'[l] = new /\ new # None
    BY NoneAssumption DEF Inv, TypeOK
  <1>4. /\ l \in TheGrants!Made /\ links[l] \in LinkRows
        /\ GrantOf(l) = [kind |-> links[l].kind, pinned |-> links[l].pinned,
                         live |-> ~links[l].revoked,
                         followers |-> Followers(l)]
    BY MadeShown DEF Inv
  <1>5. GrantOf(l)' = [GrantOf(l) EXCEPT !.live = ~new.revoked]
    <2>1. Followers(l)' = Followers(l)
      BY <1>1 DEF Followers
    <2> QED
      BY <1>3, <1>4, <2>1 DEF GrantOf
  <1>6. CASE new.revoked
    <2>1. GrantOf(l)' = [GrantOf(l) EXCEPT !.live = FALSE]
      BY <1>5, <1>6
    <2>2. TheGrants!Withdraw(l)
      BY <1>2, <2>1, OneBecomes DEF TheGrants!Withdraw
    <2> QED
      BY <1>4, <2>2 DEF TheGrants!Next
  <1>7. CASE ~new.revoked
    <2>1. GrantOf(l)' = GrantOf(l)
      BY <1>4, <1>5, <1>7
    <2> QED
      BY <1>2, <2>1 DEF SameGrants
  <1> QED
    BY <1>6, <1>7

\* A mount that is inserted lets its user follow an inventory.
LEMMA MountGrants ==
    ASSUME Inv, NEW l \in Links, NEW u \in Users, NEW m \in Mounts, mounts[m] = None,
           Followable(l, links), links' = links,
           mounts' = [mounts EXCEPT ![m] = [link |-> l, user |-> u, removed |-> FALSE]]
    PROVE  TheGrants!Next
  <1> DEFINE new == [link |-> l, user |-> u, removed |-> FALSE]
  <1>1. /\ mounts'[m] = new /\ mounts'[m] # None
        /\ \A n \in Mounts \ {m} : mounts'[n] = mounts[n]
    <2>1. new \in MountRows
      BY DEF MountRows
    <2> QED
      BY <2>1, NoneAssumption DEF Inv, TypeOK
  <1>2. m \in Mounted(l, u)'
    BY <1>1 DEF Mounted
  <1>3. ASSUME NEW k \in Links, NEW v \in Users, k # l \/ v # u
        PROVE  Mounted(k, v)' = Mounted(k, v)
    BY <1>1, <1>3 DEF Mounted
  <1>4. \A k \in Links \ {l} : GrantOf(k)' = GrantOf(k)
    BY <1>3, GrantDepends
  <1>5. /\ l \in TheGrants!Made
        /\ GrantOf(l) = [kind |-> links[l].kind, pinned |-> links[l].pinned,
                         live |-> ~links[l].revoked,
                         followers |-> Followers(l)]
    BY MadeShown DEF Inv, Followable
  <1>6. GrantOf(l)' = [GrantOf(l) EXCEPT !.followers = @ \union {u}]
    <2>1. Followers(l)' = Followers(l) \union {u}
      BY <1>2, <1>3 DEF Followers
    <2> QED
      BY <1>5, <2>1 DEF GrantOf, Followable
  <1>7. TheGrants!Becomes(l, [GrantOf(l) EXCEPT !.followers = @ \union {u}])
    BY <1>4, <1>6, OneBecomes
  <1>8. TheGrants!Follow(l)
    <2>1. GrantOf(l).kind = "inventory"
      BY <1>5 DEF Followable
    <2> QED
      BY <1>7, <2>1 DEF TheGrants!Follow
  <1> QED
    BY <1>5, <1>8 DEF TheGrants!Next

\* A mount that is removed ends the following of its user, unless there is another.
LEMMA UnmountGrants ==
    ASSUME Inv, GrantsInv, NEW m \in Mounts, mounts[m] # None, mounts[m] \in MountRows,
           links' = links, mounts' = [mounts EXCEPT ![m].removed = TRUE]
    PROVE  TheGrants!Next \/ SameGrants
  <1>0. PICK l \in Links, u \in Users :
           mounts[m].link = l /\ mounts[m].user = u /\ Followable(l, links)
    BY DEF MountRows, GrantsInv
  <1>1. /\ mounts'[m].removed
        /\ \A n \in Mounts \ {m} : mounts'[n] = mounts[n]
    BY DEF Inv, TypeOK, MountRows
  <1>2. ASSUME NEW k \in Links, NEW v \in Users, k # l \/ v # u
        PROVE  Mounted(k, v)' = Mounted(k, v)
    BY <1>0, <1>1, <1>2 DEF Mounted
  <1>3. Mounted(l, u)' \subseteq Mounted(l, u)
    BY <1>1 DEF Mounted
  <1>4. \A k \in Links \ {l} : GrantOf(k)' = GrantOf(k)
    BY <1>2, GrantDepends
  <1>5. CASE Mounted(l, u)' = {} <=> Mounted(l, u) = {}
    <2>1. GrantOf(l)' = GrantOf(l)
      BY <1>0, <1>2, <1>5, GrantDepends
    <2> QED
      BY <1>4, <2>1 DEF SameGrants
  <1>6. CASE Mounted(l, u)' = {}
    <2>1. /\ l \in TheGrants!Made
          /\ GrantOf(l) = [kind |-> links[l].kind, pinned |-> links[l].pinned,
                           live |-> ~links[l].revoked,
                           followers |-> Followers(l)]
      BY <1>0, MadeShown DEF Inv, Followable
    <2>2. Followers(l)' = Followers(l) \ {u}
      BY <1>0, <1>2, <1>6 DEF Followers
    <2>3. GrantOf(l)' = [GrantOf(l) EXCEPT !.followers = @ \ {u}]
      BY <1>0, <2>1, <2>2 DEF GrantOf, Followable
    <2>4. TheGrants!Becomes(l, [GrantOf(l) EXCEPT !.followers = @ \ {u}])
      BY <1>4, <2>3, OneBecomes
    <2>5. TheGrants!Unfollow(l)
      BY <2>4 DEF TheGrants!Unfollow
    <2> QED
      BY <2>1, <2>5 DEF TheGrants!Next
  <1> QED
    BY <1>3, <1>5, <1>6

\* Every step is one of the grants', or leaves them as they are.
LEMMA StepImplementsGrants ==
    ASSUME Inv, GrantsInv, Next
    PROVE  TheGrants!Next \/ SameGrants
  <1>1. CASE mounts' = mounts /\ links' = links
    <2>1. \A l \in Links, u \in Users : Mounted(l, u)' = Mounted(l, u)
      BY <1>1 DEF Mounted
    <2> QED
      BY <1>1, <2>1, GrantDepends DEF SameGrants
  <1>2. CASE mounts' = mounts /\ links' # links
    BY <1>2, LinksAfter, InsertGrants, ChangeGrants
  <1>3. CASE mounts' # mounts
    <2>1. ASSUME NEW w \in Workers, NEW m \in Mounts, mounts[m] = None,
                 Followable(req[w].link, links), req[w].user \in Users, links' = links,
                 mounts' = [mounts EXCEPT ![m] = [link |-> req[w].link,
                                                  user |-> req[w].user,
                                                  removed |-> FALSE]]
          PROVE  TheGrants!Next
      BY <2>1, MountGrants DEF Followable
    <2> QED
      BY <1>3, <2>1, MountsWritten, UnmountGrants
  <1> QED
    BY <1>1, <1>2, <1>3

\* Whatever visits, mounts and revocations overlap, links are grants: what a request
\* does with a link it found never gives it again, turns it to another thing, or lets
\* anybody follow a design or a link that was not made.
THEOREM ImplementsGrantsHolds == Spec => ImplementsGrants
  <1>1. Init => TheGrants!Init
    BY DEF Init, TheGrants!Init, GrantOf
  <1>2. Inv /\ GrantsInv /\ [Next]_vars => [TheGrants!Next]_([l \in Links |-> GrantOf(l)])
    <2>1. UNCHANGED vars => SameGrants
      BY GrantDepends DEF vars, SameGrants, Mounted
    <2>2. SameGrants => UNCHANGED [l \in Links |-> GrantOf(l)]
      BY DEF SameGrants
    <2> QED
      BY <2>1, <2>2, StepImplementsGrants
  <1> QED
    BY <1>1, <1>2, Invariance, GrantsInvariance, PTL
       DEF Spec, ImplementsGrants, TheGrants!Spec

--------------------------------------------------------------------------------

Room == Cardinality(Live) + Cardinality(Sharing) <= MaxLinks - 1 + Cardinality(Workers)

LEMMA SetsFinite ==
    /\ IsFiniteSet(Live) /\ Cardinality(Live) \in Nat
    /\ IsFiniteSet(Sharing) /\ Cardinality(Sharing) \in Nat
    /\ Cardinality(Workers) \in Nat
    /\ Cardinality(Sharing) <= Cardinality(Workers)
  <1>1. Live \subseteq Links /\ Sharing \subseteq Workers
    BY DEF Live, Sharing
  <1>2. /\ IsFiniteSet(Live) /\ IsFiniteSet(Sharing)
        /\ Cardinality(Sharing) <= Cardinality(Workers)
    BY <1>1, SetsAssumption, FS_Subset
  <1> QED
    BY <1>2, SetsAssumption, FS_CardinalityType

LEMMA RoomStep == ASSUME Inv, Room, Next PROVE Room'
  <1> USE SetsFinite, NumbersAssumption DEF Room
  <1>1. CASE \E w \in Workers : CheckRoom(w)
    <2>1. Live' = Live /\ Cardinality(Live) < MaxLinks
      BY <1>1 DEF CheckRoom, Go, HasRoom, Live
    <2>2. Sharing' \subseteq Workers
      BY DEF Sharing
    <2>3. Cardinality(Sharing') <= Cardinality(Workers) /\ Cardinality(Sharing') \in Nat
      BY <2>2, SetsAssumption, FS_Subset, FS_CardinalityType
    <2> QED
      BY <2>1, <2>3
  <1>2. CASE \E w \in Workers : InsertLink(w)
    <2>1. PICK w \in Workers : InsertLink(w)
      BY <1>2
    <2>2. PICK l \in Links : links' = [links EXCEPT ![l] = NewLink(w)]
      BY <2>1 DEF InsertLink
    <2>3. Live' \subseteq Live \union {l}
      BY <2>2 DEF Live, Inv, TypeOK
    <2>4. Cardinality(Live') <= Cardinality(Live) + 1 /\ Cardinality(Live') \in Nat
      <3>1. /\ IsFiniteSet(Live \union {l})
            /\ Cardinality(Live \union {l}) =
                  IF l \in Live THEN Cardinality(Live) ELSE Cardinality(Live) + 1
        BY FS_AddElement
      <3> QED
        BY <2>3, <3>1, FS_Subset, FS_CardinalityType
    <2>5. Sharing' = Sharing \ {w} /\ w \in Sharing
      BY <2>1 DEF InsertLink, At, Finish, NoReq, Sharing, Inv, TypeOK
    <2>6. Cardinality(Sharing') = Cardinality(Sharing) - 1
      BY <2>5, FS_RemoveElement
    <2> QED
      BY <2>4, <2>6
  <1>3. CASE ~\E w \in Workers : InsertLink(w) \/ CheckRoom(w)
    <2>1. Live' \subseteq Live
      BY <1>3, LinksAfter DEF Live, Inv, TypeOK
    <2>2. Sharing' \subseteq Sharing
      <3>1. CASE \E w \in Workers : Step(w)
        <4>1. PICK w \in Workers : Step(w)
          BY <3>1
        <4>2. PICK q \in Requests :
                 /\ req' = [req EXCEPT ![w] = q]
                 /\ q.pc = "insert" => req[w].pc = "insert"
          BY <1>3, <4>1, StepMoves DEF Moves
        <4> QED
          BY <4>2 DEF Sharing, At, Inv, TypeOK
      <3>2. CASE SaveDesign \/ DeleteDesign
        BY <3>2 DEF SaveDesign, DeleteDesign, Sharing, At
      <3> QED
        BY <3>1, <3>2 DEF Next
    <2>3. /\ Cardinality(Live') <= Cardinality(Live)
          /\ Cardinality(Sharing') <= Cardinality(Sharing)
          /\ Cardinality(Live') \in Nat /\ Cardinality(Sharing') \in Nat
      BY <2>1, <2>2, FS_Subset, FS_CardinalityType
    <2> QED
      BY <2>3
  <1> QED
    BY <1>1, <1>2, <1>3

\* Links and requests let through never overshoot MAX_LINKS_PER_USER by as many
\* as the requests that run at once: share_design and share_inventory count,
\* then insert.
THEOREM LinksBoundedHolds == Spec => []LinksBounded
  <1>1. Init => Room
    <2> SUFFICES ASSUME Init PROVE Room
      OBVIOUS
    <2>1. Live = {} /\ Sharing = {}
      BY DEF Init, Live, Sharing, At, NoReq
    <2>2. Cardinality(Live) = 0 /\ Cardinality(Sharing) = 0
      BY <2>1, FS_EmptySet
    <2> QED
      BY <2>2, SetsFinite, NumbersAssumption DEF Room
  <1>2. Inv /\ Room /\ [Next]_vars => Room'
    <2>1. UNCHANGED vars => (Room <=> Room')
      BY DEF vars, Room, Live, Sharing, At
    <2> QED
      BY <2>1, RoomStep
  <1>3. Inv /\ Room => LinksBounded
    BY DEF Inv, Room, LinksBounded
  <1> QED
    BY <1>1, <1>2, <1>3, Invariance, PTL DEF Spec

--------------------------------------------------------------------------------
(* Requests that come one at a time *)

Busy == {w \in Workers : req[w].pc # "idle"}

MountedTwice == \E l \in Links, u \in Users : \E m, n \in Mounted(l, u) : m # n

\* While requests come one at a time, one that is about to mount a link finds it
\* as it found it: not mounted.
AloneInv ==
    alone => /\ \A v, w \in Busy : v = w
             /\ ~MountedTwice
             /\ \A w \in Workers : At(w, "insert_mount") => ~IsMounted(w)

LEMMA OneIsBusy ==
    ASSUME HistoryNext, alone', NEW v \in Busy', NEW w \in Busy'
    PROVE  v = w
  <1>1. Busy' = {u \in Workers : req'[u].pc # "idle"} /\ Busy' \subseteq Workers
    BY DEF Busy
  <1>2. IsFiniteSet(Busy')
    BY <1>1, SetsAssumption, FS_Subset
  <1>3. Cardinality(Busy') <= 1
    BY <1>1 DEF HistoryNext
  <1>4. /\ Cardinality(Busy') \in Nat /\ Cardinality(Busy' \ {v}) \in Nat
        /\ Cardinality(Busy' \ {v}) = Cardinality(Busy') - 1 /\ IsFiniteSet(Busy' \ {v})
    BY <1>2, FS_RemoveElement, FS_CardinalityType
  <1>5. Cardinality(Busy' \ {v}) = 0
    BY <1>3, <1>4
  <1> QED
    BY <1>4, <1>5, FS_EmptySet

\* A step of one request leaves the others where they are, and inserts a mount
\* next only if it finds none.
LEMMA StepEnters ==
    ASSUME Inv, NEW w \in Workers, Step(w)
    PROVE  /\ \A v \in Workers \ {w} : req'[v] = req[v]
           /\ ~At(w, "idle") \/ ~At(w, "idle")'
           /\ At(w, "insert_mount")' => CheckMounted(w) /\ ~IsMounted(w)'
  <1>0. req \in [Workers -> Requests] /\ req[w] \in Requests
    BY DEF Inv, TypeOK
  <1>1. \A v \in Workers \ {w} : req'[v] = req[v]
    BY <1>0, StepMoves DEF Moves
  <1>2. CASE StartShareDesign(w) \/ StartShareInventory(w) \/ StartRevoke(w)
             \/ StartOpen(w) \/ StartMount(w) \/ StartUnmount(w)
    <2>1. At(w, "idle")
      BY <1>2 DEF StartShareDesign, StartShareInventory, StartRevoke, StartOpen, StartMount,
         StartUnmount, Start, At
    <2>2. req'[w].pc \in {"design", "room", "find", "mount"}
      <3>1. CASE StartShareDesign(w)
        BY <1>0, <3>1 DEF StartShareDesign, Start, NoReq
      <3>2. CASE StartShareInventory(w)
        BY <1>0, <3>2 DEF StartShareInventory, Start, NoReq
      <3>3. CASE StartRevoke(w)
        BY <1>0, <3>3 DEF StartRevoke, Start, NoReq
      <3>4. CASE StartOpen(w)
        BY <1>0, <3>4 DEF StartOpen, Start, NoReq
      <3>5. CASE StartMount(w)
        BY <1>0, <3>5 DEF StartMount, Start, NoReq
      <3>6. CASE StartUnmount(w)
        BY <1>0, <3>6 DEF StartUnmount, Start, NoReq
      <3> QED
        BY <1>2, <3>1, <3>2, <3>3, <3>4, <3>5, <3>6
    <2> QED
      BY <1>1, <2>2 DEF At
  <1>3. ASSUME Finish(w), ~At(w, "idle") PROVE At(w, "idle")'
    BY <1>0, <1>3 DEF Finish, NoReq, At
  <1>4. CASE InsertLink(w) \/ CommitRevoke(w) \/ Show(w) \/ InsertMount(w)
             \/ RemoveMount(w) \/ Abort(w)
    BY <1>1, <1>3, <1>4 DEF InsertLink, CommitRevoke, Show, InsertMount, RemoveMount,
       Abort, At
  <1>5. CASE CheckDesign(w) \/ CheckRoom(w) \/ FindLink(w) \/ CountVisit(w) \/ FindMount(w)
    <2>1. /\ req[w].pc \in {"design", "room", "find", "visit", "mount"}
          /\ req'[w].pc \in {"room", "insert", "revoke", "visit", "mounted", "show", "remove"}
      <3>1. CASE CheckDesign(w) \/ CheckRoom(w)
        BY <1>0, <3>1 DEF CheckDesign, CheckRoom, Go, At, Requests
      <3>2. CASE FindLink(w)
        BY <1>0, <3>2 DEF FindLink, At, Requests
      <3>3. CASE CountVisit(w)
        BY <1>0, <3>3 DEF CountVisit, At, Requests
      <3>4. CASE FindMount(w)
        BY <1>0, <3>4 DEF FindMount, At, Requests
      <3> QED
        BY <1>5, <3>1, <3>2, <3>3, <3>4
    <2> QED
      BY <1>1, <2>1 DEF At
  <1>6. CASE CheckMounted(w)
    <2>1. CASE Finish(w)
      BY <1>1, <1>3, <1>6, <2>1 DEF CheckMounted, At
    <2>2. CASE ~IsMounted(w) /\ req' = [req EXCEPT ![w].pc = "insert_mount"]
      <3>1. req'[w].link = req[w].link /\ req'[w].user = req[w].user /\ mounts' = mounts
        BY <1>0, <1>6, <2>2 DEF CheckMounted, Requests
      <3>2. ~IsMounted(w)'
        BY <2>2, <3>1 DEF IsMounted, Mounted
      <3> QED
        BY <1>1, <1>6, <3>2 DEF CheckMounted, At
    <2> QED
      BY <1>6, <2>1, <2>2 DEF CheckMounted
  <1> QED
    BY <1>2, <1>4, <1>5, <1>6 DEF Step

\* What each step does to the mounts.
LEMMA MountsAfter ==
    ASSUME Inv, Next
    PROVE  \/ \A l \in Links, u \in Users : Mounted(l, u)' \subseteq Mounted(l, u)
           \/ \E w \in Workers, m \in Mounts : InsertMount(w) /\
                 \A l \in Links, u \in Users :
                    Mounted(l, u)' \subseteq
                       IF l = req[w].link /\ u = req[w].user THEN Mounted(l, u) \union {m}
                       ELSE Mounted(l, u)
  <1>0. mounts \in [Mounts -> MountRows \union {None}]
    BY DEF Inv, TypeOK
  <1>1. CASE \E w \in Workers : InsertMount(w)
    <2>1. PICK w \in Workers : InsertMount(w)
      BY <1>1
    <2>2. PICK m \in Mounts :
             mounts' = [mounts EXCEPT ![m] = [link |-> req[w].link, user |-> req[w].user,
                                              removed |-> FALSE]]
      BY <2>1 DEF InsertMount
    <2> QED
      BY <1>0, <2>1, <2>2 DEF Mounted
  <1>2. CASE \E w \in Workers : RemoveMount(w)
    <2>1. PICK w \in Workers : RemoveMount(w)
      BY <1>2
    <2>2. \E m \in Mounts : /\ mounts[m] \in MountRows
                            /\ mounts' = [mounts EXCEPT ![m].removed = TRUE]
      BY <2>1, RowsTyped DEF RemoveMount, At, Inv, RequestKnown
    <2>3. PICK m \in Mounts : /\ mounts[m] \in MountRows
                              /\ mounts' = [mounts EXCEPT ![m].removed = TRUE]
      BY <2>2
    <2>4. /\ mounts'[m].removed
          /\ \A n \in Mounts \ {m} : mounts'[n] = mounts[n]
      BY <1>0, <2>3 DEF MountRows
    <2> QED
      BY <2>4 DEF Mounted
  <1>3. CASE ~\E w \in Workers : InsertMount(w) \/ RemoveMount(w)
    <2>1. mounts' = mounts
      BY <1>3 DEF Next, SaveDesign, DeleteDesign, Step, Start, Go, StartShareDesign,
         StartShareInventory, CheckDesign, CheckRoom, InsertLink, StartRevoke, FindLink,
         CommitRevoke, StartOpen, CountVisit, Show, StartMount, CheckMounted,
         StartUnmount, FindMount, Abort
    <2> QED
      BY <2>1 DEF Mounted
  <1> QED
    BY <1>1, <1>2, <1>3

LEMMA AloneInvNext ==
    ASSUME Inv, AloneInv, [HistoryNext]_HistoryVars
    PROVE  AloneInv'
  <1>1. CASE UNCHANGED HistoryVars
    BY <1>1 DEF HistoryVars, vars, AloneInv, Busy, MountedTwice, Mounted, IsMounted, At
  <1>2. CASE HistoryNext
    <2> SUFFICES ASSUME alone' PROVE AloneInv'
      BY DEF AloneInv
    <2>0. Next /\ alone
      BY <1>2 DEF HistoryNext
    <2>1. \A v, w \in Busy' : v = w
      BY <1>2, OneIsBusy
    <2>2. ~MountedTwice'
      <3>1. CASE \A l \in Links, u \in Users : Mounted(l, u)' \subseteq Mounted(l, u)
        BY <2>0, <3>1 DEF AloneInv, MountedTwice
      <3>2. ASSUME NEW w \in Workers, NEW m \in Mounts, InsertMount(w),
                   \A l \in Links, u \in Users :
                      Mounted(l, u)' \subseteq
                         IF l = req[w].link /\ u = req[w].user THEN Mounted(l, u) \union {m}
                         ELSE Mounted(l, u)
            PROVE  ~MountedTwice'
        <4>1. Mounted(req[w].link, req[w].user) = {}
          BY <2>0, <3>2 DEF AloneInv, InsertMount, IsMounted
        <4>2. \A l \in Links, u \in Users :
                 Mounted(l, u)' \subseteq Mounted(l, u) \/ Mounted(l, u)' \subseteq {m}
          BY <3>2, <4>1
        <4> QED
          BY <2>0, <4>2 DEF AloneInv, MountedTwice
      <3> QED
        BY <2>0, <3>1, <3>2, MountsAfter
    <2>3. ASSUME NEW w \in Workers, At(w, "insert_mount")' PROVE ~IsMounted(w)'
      <3>1. CASE Step(w)
        BY <2>3, <3>1, StepEnters
      <3>2. ASSUME NEW v \in Workers, Step(v), v # w PROVE FALSE
        <4>1. w \in Busy /\ w \in Busy' /\ (v \in Busy \/ v \in Busy')
          BY <2>3, <3>2, StepEnters DEF Busy, At
        <4> QED
          BY <2>0, <2>1, <3>2, <4>1 DEF AloneInv
      <3>3. CASE ~\E v \in Workers : Step(v)
        <4>1. req' = req /\ mounts' = mounts
          BY <2>0, <3>3 DEF Next, SaveDesign, DeleteDesign
        <4> QED
          BY <2>0, <2>3, <4>1 DEF AloneInv, At, IsMounted, Mounted
      <3> QED
        BY <3>1, <3>2, <3>3
    <2> QED
      BY <2>1, <2>2, <2>3 DEF AloneInv
  <1> QED
    BY <1>1, <1>2

LEMMA AloneInvInit == ASSUME HistoryInit PROVE Inv /\ AloneInv
  <1>1. \A w \in Workers : At(w, "idle")
    BY DEF HistoryInit, Init, NoReq, At
  <1>2. \A l \in Links, u \in Users : Mounted(l, u) = {}
    BY DEF HistoryInit, Init, Mounted
  <1> QED
    BY <1>1, <1>2, InvInit DEF HistoryInit, AloneInv, Busy, MountedTwice, At

\* In any sequence of requests that do not overlap, no user mounts a link twice.
THEOREM MountedOnceAloneHolds == HistorySpec => []MountedOnceAlone
  <1>1. [HistoryNext]_HistoryVars => [Next]_vars
    BY DEF HistoryNext, HistoryVars
  <1>2. ASSUME AloneInv PROVE MountedOnceAlone
    <2> SUFFICES ASSUME alone, NEW l \in Links, NEW u \in Users
                 PROVE  Cardinality(Mounted(l, u)) <= 1
      BY DEF MountedOnceAlone, MountedOnce
    <2>1. Mounted(l, u) = {} \/ \E m \in Mounts : Mounted(l, u) = {m}
      BY <1>2 DEF AloneInv, MountedTwice, Mounted
    <2>2. Cardinality({}) = 0 /\ \A m \in Mounts : Cardinality({m}) = 1
      BY FS_EmptySet, FS_Singleton, Zenon
    <2>3. Cardinality(Mounted(l, u)) \in {0, 1}
      BY <2>1, <2>2, Zenon
    <2> QED
      BY <2>3
  <1> QED
    BY <1>1, <1>2, AloneInvInit, AloneInvNext, InvNext, PTL DEF HistorySpec
================================================================================
