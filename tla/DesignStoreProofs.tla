--------------------------- MODULE DesignStoreProofs ---------------------------
(***************************************************************************)
(* Theorems of DesignStore, for any number of designs, clients, documents, *)
(* revisions kept and requests in flight.                                  *)
(*                                                                         *)
(* The argument rests on one observation: whatever update_design races     *)
(* with, the newest revision of a design never gets a smaller number.      *)
(* What a request has read therefore stays a lower bound for what it finds *)
(* when it commits, and the primary key refuses what would break the rest. *)
(*                                                                         *)
(* The two theorems of MCDesignHistory need more: as long as what a save   *)
(* compared with is still the newest revision, nothing has been committed  *)
(* to the design since, so the row it read as the oldest is the oldest     *)
(* (TrimInv); and as long as requests come one at a time, a tab whose      *)
(* version is current shows the newest revision (TabTrue).                 *)
(***************************************************************************)
EXTENDS MCDesignHistory, FiniteSetTheorems, TLAPS

\* Some revision is numbered n or higher; or higher.
Reached(d, n) == \E r \in revisions[d] : n <= r.nr
Passed(d, n) == \E r \in revisions[d] : n < r.nr

\* A design that exists has one newest revision, at least as high as its
\* version, and from the second save on another row beside it.
HistoryInv(d) ==
    /\ ~Exists(d) => revisions[d] = {}
    /\ Exists(d) => /\ \E r \in revisions[d] : IsNewest(d, r)
                    /\ Reached(d, designs[d].version)
    /\ \A r, s \in revisions[d] : r.nr = s.nr => r = s
    /\ Reached(d, 2) => \E r, s \in revisions[d] : r.nr < s.nr

Writing == {"trimming", "writing"}

\* What a request has read is a lower bound for what is there now.
RequestInv(c) ==
    LET q == req[c] IN
    /\ q.pc \notin {"idle", "counted"} => q.design \in Designs /\ Exists(q.design)
    /\ q.pc \in {"opening", "loaded", "renaming"} \union Writing => q.row \in Snapshots
    /\ q.pc \in {"loaded"} \union Writing =>
          q.doc \in Docs /\ Reached(q.design, q.row.version)
    /\ q.pc \in Writing =>
          /\ q.latest \in Rows
          /\ q.latest.doc # q.doc
          /\ q.row.version <= q.latest.nr
          /\ q.latest \in revisions[q.design] \/ Passed(q.design, q.latest.nr)
    /\ q.pc = "loaded" => q.oldest = None
    /\ q.pc = "trimming" => q.latest.nr >= 2
    /\ q.pc \in Writing /\ q.oldest # None =>
          q.oldest \in Rows /\ Passed(q.design, q.oldest.nr)

Inv ==
    /\ TypeOK
    /\ \A d \in Designs : HistoryInv(d)
    /\ \A c \in Clients : RequestInv(c)

QuotaInv ==
    /\ Cardinality(InFlight) <= MaxInFlight
    /\ QuotaOvershootBounded

--------------------------------------------------------------------------------

\* Writing a version, a name or the deletion mark leaves an envelope.
LEMMA EnvelopeUpdates ==
    ASSUME NEW e \in Envelopes, NEW v \in Nat, NEW n \in Names
    PROVE  /\ [[e EXCEPT !.version = v] EXCEPT !.name = n] \in Envelopes
           /\ [e EXCEPT !.name = n] \in Envelopes
           /\ [e EXCEPT !.deleted = TRUE] \in Envelopes
           /\ [[e EXCEPT !.version = v] EXCEPT !.name = n].version = v
           /\ [e EXCEPT !.name = n].version = e.version
           /\ [e EXCEPT !.deleted = TRUE].version = e.version
           /\ [[e EXCEPT !.version = v] EXCEPT !.name = n].deleted = e.deleted
           /\ [e EXCEPT !.name = n].deleted = e.deleted
           /\ [e EXCEPT !.deleted = TRUE].deleted = TRUE
  BY DEF Envelopes

\* What a commit leaves in the history: the newest revision m there was, the row
\* it adds, under a number of its own, and nothing that was not there before.
LEMMA CommitKeepsNewest ==
    ASSUME Inv, NEW c \in Clients, CommitRevision(c),
           NEW m, IsNewest(req[c].design, m)
    PROVE  LET d == req[c].design IN
           /\ d \in Designs
           /\ Exists(d)
           /\ NewRow(c) \in Rows
           /\ NewRow(c).nr = req[c].latest.nr + 1
           /\ m \in Rows
           /\ NewRow(c).nr # m.nr
           /\ m \in revisions'[d]
           /\ NewRow(c) \in revisions'[d]
           /\ revisions'[d] \subseteq revisions[d] \union {NewRow(c)}
           /\ \A r \in revisions'[d] : r.nr = NewRow(c).nr => r = NewRow(c)
  <1> DEFINE d == req[c].design
  <1>1. d \in Designs /\ Exists(d) /\ req[c].pc = "writing"
    BY DEF Inv, RequestInv, CommitRevision
  <1>2. req[c].latest \in Rows /\ req[c].doc \in Docs
    BY <1>1 DEF Inv, RequestInv, Writing
  <1>3. NewRow(c) \in Rows /\ NewRow(c).nr = req[c].latest.nr + 1
    BY <1>2 DEF NewRow, Rows
  <1>4. revisions'[d] = Kept(c) \union {NewRow(c)}
    BY <1>1 DEF CommitRevision, Inv, TypeOK
  <1>5. m \in revisions[d] /\ m \in Rows
    BY <1>1 DEF IsNewest, Inv, TypeOK
  <1>6. req[c].oldest # None => req[c].oldest \in Rows /\ req[c].oldest.nr < m.nr
    <2>1. SUFFICES ASSUME req[c].oldest # None
                   PROVE  req[c].oldest \in Rows /\ req[c].oldest.nr < m.nr
      OBVIOUS
    <2>2. req[c].oldest \in Rows /\ Passed(d, req[c].oldest.nr)
      BY <1>1, <2>1 DEF Inv, RequestInv, Writing
    <2>3. PICK r \in revisions[d] : req[c].oldest.nr < r.nr
      BY <2>2 DEF Passed
    <2>4. r \in Rows /\ r.nr <= m.nr
      BY <1>1, <2>3 DEF IsNewest, Inv, TypeOK
    <2> QED
      BY <1>5, <2>2, <2>3, <2>4 DEF Rows
  <1>7. m \in Kept(c)
    BY <1>5, <1>6 DEF Kept, Rows
  <1>8. KeyAccepted(c)
    BY DEF CommitRevision
  <1>9. NewRow(c).nr # m.nr
    BY <1>5, <1>6, <1>8 DEF KeyAccepted, Nrs, Rows
  <1>10. \A r \in Kept(c) : r.nr # NewRow(c).nr
    BY <1>8 DEF KeyAccepted, Kept, Nrs
  <1>11. Kept(c) \subseteq revisions[d]
    BY DEF Kept
  <1> QED
    BY <1>1, <1>3, <1>4, <1>5, <1>7, <1>9, <1>10, <1>11

\* No step takes a revision away without leaving one numbered at least as high.
LEMMA RanksKept ==
    ASSUME Inv, Next, NEW d \in Designs, NEW n \in Nat
    PROVE  /\ Reached(d, n) => Reached(d, n)'
           /\ Passed(d, n) => Passed(d, n)'
  <1>1. CASE \E c \in Clients : InsertDesign(c)
    <2>1. PICK c \in Clients : InsertDesign(c)
      BY <1>1
    <2>2. PICK e \in Designs, name \in Names, doc \in Docs :
             /\ ~Exists(e)
             /\ designs' = [designs EXCEPT ![e] =
                               [version |-> 1, name |-> name, deleted |-> FALSE]]
             /\ revisions' = [revisions EXCEPT ![e] = {[nr |-> 1, doc |-> doc]}]
      BY <2>1 DEF InsertDesign
    <2>3. CASE d = e
      BY <2>2, <2>3 DEF Inv, HistoryInv, Reached, Passed
    <2>4. CASE d # e
      BY <2>2, <2>4 DEF Reached, Passed, Inv, TypeOK
    <2> QED
      BY <2>3, <2>4
  <1>2. CASE \E c \in Clients : CommitRevision(c)
    <2>1. PICK c \in Clients : CommitRevision(c)
      BY <1>2
    <2>2. CASE d = req[c].design
      <3>1. PICK m \in revisions[d] : IsNewest(d, m)
        BY <2>1, <2>2 DEF Inv, HistoryInv, RequestInv, CommitRevision
      <3>2. m \in revisions'[d] /\ m \in Rows
        BY <2>1, <2>2, <3>1, CommitKeepsNewest
      <3>3. \A r \in revisions[d] : r \in Rows /\ r.nr <= m.nr
        BY <3>1 DEF IsNewest, Inv, TypeOK
      <3> QED
        BY <3>2, <3>3 DEF Reached, Passed, Rows
    <2>3. CASE d # req[c].design
      BY <2>1, <2>3 DEF CommitRevision, Reached, Passed, Inv, TypeOK
    <2> QED
      BY <2>2, <2>3
  <1>3. CASE UNCHANGED revisions
    BY <1>3 DEF Reached, Passed
  <1> QED
    BY <1>1, <1>2, <1>3 DEF Next, Step, CountDesigns, OpenDesign, SendDesign,
       LoadForUpdate, ReadLatest, Unchanged, ReadOldest, CommitEnvelope, Respond, Abort,
       DeleteDesign

\* A design that exists keeps an envelope: no step makes a row disappear.
LEMMA EnvelopesKept ==
    ASSUME Inv, Next
    PROVE  /\ designs' \in [Designs -> Envelopes \union {None}]
           /\ \A d \in Designs : Exists(d) => designs'[d] \in Envelopes
  <1> DEFINE Goal == /\ designs' \in [Designs -> Envelopes \union {None}]
                     /\ \A d \in Designs : Exists(d) => designs'[d] \in Envelopes
  <1>1. designs \in [Designs -> Envelopes \union {None}]
    BY DEF Inv, TypeOK
  <1>2. \A d \in Designs : Exists(d) => designs[d] \in Envelopes
    BY <1>1 DEF Exists
  <1>3. ASSUME NEW d \in Designs, NEW e \in Envelopes,
               designs' = [designs EXCEPT ![d] = e]
        PROVE  Goal
    BY <1>1, <1>2, <1>3
  <1>4. ASSUME NEW c \in Clients, req[c].pc \in {"renaming", "writing"}
        PROVE  /\ req[c].design \in Designs /\ designs[req[c].design] \in Envelopes
               /\ NameAfter(c) \in Names
    <2>1. req[c].design \in Designs /\ designs[req[c].design] \in Envelopes
      BY <1>2, <1>4 DEF Inv, RequestInv, Writing
    <2>2. designs[req[c].design].name \in Names
      BY <2>1 DEF Envelopes
    <2>3. req[c].name \in Names \union {None}
      BY DEF Inv, TypeOK, Requests
    <2> QED
      BY <2>1, <2>2, <2>3 DEF NameAfter
  <1>5. ASSUME NEW c \in Clients, InsertDesign(c)
        PROVE  Goal
    <2>1. PICK d \in Designs, name \in Names :
             designs' = [designs EXCEPT ![d] =
                            [version |-> 1, name |-> name, deleted |-> FALSE]]
      BY <1>5 DEF InsertDesign
    <2>2. [version |-> 1, name |-> name, deleted |-> FALSE] \in Envelopes
      BY DEF Envelopes
    <2> HIDE DEF Goal
    <2> QED
      BY <1>3, <2>1, <2>2
  <1>6. ASSUME NEW c \in Clients, CommitRevision(c)
        PROVE  Goal
    <2> DEFINE d == req[c].design
               e == [[designs[d] EXCEPT !.version = VersionAfter(c)]
                                 EXCEPT !.name = NameAfter(c)]
    <2>1. d \in Designs /\ designs[d] \in Envelopes /\ NameAfter(c) \in Names
      BY <1>4, <1>6 DEF CommitRevision
    <2>2. VersionAfter(c) \in Nat
      BY <1>6 DEF VersionAfter, CommitRevision, Inv, RequestInv, Writing, Snapshots
    <2>3. e \in Envelopes
      BY <2>1, <2>2, EnvelopeUpdates
    <2>4. designs' = [designs EXCEPT ![d] = e]
      BY <1>6, <2>1, <1>1 DEF CommitRevision
    <2> HIDE DEF Goal, e, d
    <2> QED
      BY <1>3, <2>1, <2>3, <2>4
  <1>7. ASSUME NEW c \in Clients, CommitEnvelope(c)
        PROVE  Goal
    <2> DEFINE d == req[c].design
               e == [designs[d] EXCEPT !.name = NameAfter(c)]
    <2>1. d \in Designs /\ designs[d] \in Envelopes /\ NameAfter(c) \in Names
      BY <1>4, <1>7 DEF CommitEnvelope
    <2>2. 0 \in Nat
      OBVIOUS
    <2>3. e \in Envelopes
      BY <2>1, <2>2, EnvelopeUpdates
    <2>4. designs' = [designs EXCEPT ![d] = e]
      BY <1>7 DEF CommitEnvelope
    <2> HIDE DEF Goal, e, d
    <2> QED
      BY <1>3, <2>1, <2>3, <2>4
  <1>8. ASSUME NEW d \in Designs, DeleteDesign(d)
        PROVE  Goal
    <2>1. designs[d] \in Envelopes /\ designs[d].name \in Names
      BY <1>2, <1>8 DEF DeleteDesign, Visible, Envelopes
    <2>2. [designs[d] EXCEPT !.deleted = TRUE] \in Envelopes
      BY <2>1 DEF Envelopes
    <2> HIDE DEF Goal
    <2> QED
      BY <1>3, <1>8, <2>2 DEF DeleteDesign
  <1>9. CASE UNCHANGED designs
    BY <1>1, <1>2, <1>9
  <1> QED
    BY <1>5, <1>6, <1>7, <1>8, <1>9 DEF Next, Step, CountDesigns, OpenDesign,
       SendDesign, LoadForUpdate, ReadLatest, Unchanged, ReadOldest, Respond, Abort

LEMMA RevisionsTyped ==
    ASSUME Inv, Next
    PROVE  revisions' \in [Designs -> SUBSET Rows]
  <1>1. revisions \in [Designs -> SUBSET Rows]
    BY DEF Inv, TypeOK
  <1>2. ASSUME NEW c \in Clients, InsertDesign(c)
        PROVE  revisions' \in [Designs -> SUBSET Rows]
    BY <1>1, <1>2 DEF InsertDesign, Rows
  <1>3. ASSUME NEW c \in Clients, CommitRevision(c)
        PROVE  revisions' \in [Designs -> SUBSET Rows]
    <2>1. req[c].design \in Designs /\ Exists(req[c].design)
      BY <1>3 DEF Inv, RequestInv, Writing, CommitRevision
    <2>2. PICK m \in revisions[req[c].design] : IsNewest(req[c].design, m)
      BY <2>1 DEF Inv, HistoryInv
    <2>3. NewRow(c) \in Rows
      BY <1>3, <2>2, CommitKeepsNewest
    <2>4. Kept(c) \subseteq Rows
      BY <1>1, <2>1 DEF Kept
    <2> QED
      BY <1>1, <1>3, <2>1, <2>3, <2>4 DEF CommitRevision
  <1>4. CASE UNCHANGED revisions
    BY <1>1, <1>4
  <1> QED
    BY <1>2, <1>3, <1>4 DEF Next, Step, CountDesigns, OpenDesign, SendDesign,
       LoadForUpdate, ReadLatest, Unchanged, ReadOldest, CommitEnvelope, Respond, Abort,
       DeleteDesign

LEMMA RequestsTyped ==
    ASSUME Inv, Next
    PROVE  req' \in [Clients -> Requests]
  <1>1. req \in [Clients -> Requests]
    BY DEF Inv, TypeOK
  <1>2. NoReq \in Requests
    BY DEF NoReq, Requests, Stages
  <1>3. ASSUME NEW c \in Clients, NEW q \in Requests, req' = [req EXCEPT ![c] = q]
        PROVE  req' \in [Clients -> Requests]
    BY <1>1, <1>3
  <1>4. \A d \in Live : d \in Designs /\ Snapshot(d) \in Snapshots
    BY DEF Inv, TypeOK, Live, Visible, Exists, Snapshot, Snapshots, Envelopes
  <1>5. ASSUME NEW c \in Clients, Step(c)
        PROVE  req' \in [Clients -> Requests]
    <2> DEFINE d == req[c].design
    <2>1. req[c] \in Requests
      BY <1>1
    <2>2. CASE CountDesigns(c)
      BY <1>1, <2>2 DEF CountDesigns, NoReq, Requests, Stages
    <2>3. CASE InsertDesign(c)
      <3>1. PICK e \in Designs, doc \in Docs :
               req' = [req EXCEPT ![c] =
                          [NoReq EXCEPT !.pc = "committed", !.design = e,
                                        !.latest = [nr |-> 1, doc |-> doc]]]
        BY <2>3 DEF InsertDesign
      <3> QED
        BY <1>1, <3>1 DEF NoReq, Requests, Stages, Rows
    <2>4. CASE OpenDesign(c)
      <3>1. PICK e \in Live :
               req' = [req EXCEPT ![c] = [NoReq EXCEPT !.pc = "opening", !.design = e,
                                                       !.row = Snapshot(e)]]
        BY <2>4 DEF OpenDesign
      <3> QED
        BY <1>1, <1>4, <3>1 DEF NoReq, Requests, Stages
    <2>5. CASE LoadForUpdate(c)
      <3>1. PICK e \in Live, name \in Names \union {None}, doc \in Docs \union {None} :
               req' = [req EXCEPT ![c] =
                          [NoReq EXCEPT
                              !.pc = IF doc = None THEN "renaming" ELSE "loaded",
                              !.design = e, !.name = name, !.doc = doc,
                              !.row = Snapshot(e)]]
        BY <2>5 DEF LoadForUpdate
      <3> QED
        BY <1>1, <1>4, <3>1 DEF NoReq, Requests, Stages
    <2>6. CASE ReadLatest(c)
      <3>1. PICK r \in revisions[d] :
               req' = [req EXCEPT
                  ![c].latest = r,
                  ![c].pc = IF r.doc = req[c].doc THEN "renaming"
                            ELSE IF HistoryFull(r) THEN "trimming"
                            ELSE "writing"]
        BY <2>6 DEF ReadLatest, Unchanged
      <3>2. r \in Rows
        BY <2>6 DEF ReadLatest, Unchanged, Inv, RequestInv, TypeOK
      <3> QED
        BY <1>1, <2>1, <3>1, <3>2 DEF Requests, Stages
    <2>7. CASE ReadOldest(c)
      <3>1. PICK r \in revisions[d] :
               req' = [req EXCEPT ![c].pc = "writing", ![c].oldest = r]
        BY <2>7 DEF ReadOldest
      <3>2. r \in Rows
        BY <2>7 DEF ReadOldest, Inv, RequestInv, TypeOK
      <3> QED
        BY <1>1, <2>1, <3>1, <3>2 DEF Requests, Stages
    <2>8. CASE CommitRevision(c)
      <3>1. PICK m \in revisions[d] : IsNewest(d, m)
        BY <2>8 DEF Inv, HistoryInv, RequestInv, CommitRevision
      <3>2. NewRow(c) \in Rows /\ d \in Designs
        BY <2>8, <3>1, CommitKeepsNewest
      <3> QED
        BY <1>1, <2>8, <3>2 DEF CommitRevision, NoReq, Requests, Stages
    <2>9. CASE CommitEnvelope(c)
      BY <1>1, <2>1, <2>9 DEF CommitEnvelope, NoReq, Requests, Stages
    <2>10. CASE SendDesign(c) \/ Respond(c) \/ Abort(c)
      BY <1>2, <1>3, <2>10 DEF SendDesign, Respond, Abort
    <2> QED
      BY <1>5, <2>2, <2>3, <2>4, <2>5, <2>6, <2>7, <2>8, <2>9, <2>10 DEF Step
  <1>6. ASSUME NEW d \in Designs, DeleteDesign(d)
        PROVE  req' \in [Clients -> Requests]
    BY <1>1, <1>6 DEF DeleteDesign
  <1> QED
    BY <1>5, <1>6 DEF Next

LEMMA TabsTyped ==
    ASSUME Inv, Next
    PROVE  tab' \in [Clients -> [design : Designs, version : Nat, nr : Nat] \union {None}]
  <1> DEFINE Tabs == [design : Designs, version : Nat, nr : Nat] \union {None}
  <1>1. tab \in [Clients -> Tabs]
    BY DEF Inv, TypeOK
  <1>2. ASSUME NEW c \in Clients, SendDesign(c)
        PROVE  tab' \in [Clients -> Tabs]
    <2>1. PICK r \in revisions[req[c].design] :
             tab' = [tab EXCEPT ![c] = [design |-> req[c].design,
                                        version |-> req[c].row.version, nr |-> r.nr]]
      BY <1>2 DEF SendDesign
    <2>2. req[c].design \in Designs /\ req[c].row \in Snapshots
      BY <1>2 DEF SendDesign, Inv, RequestInv
    <2>3. r \in Rows
      BY <2>2 DEF Inv, TypeOK
    <2> QED
      BY <1>1, <2>1, <2>2, <2>3 DEF Snapshots, Rows
  <1>3. ASSUME NEW c \in Clients, Respond(c)
        PROVE  tab' \in [Clients -> Tabs]
    <2>1. req[c].design \in Designs /\ designs[req[c].design] \in Envelopes
      BY <1>3 DEF Respond, Inv, RequestInv, TypeOK, Exists
    <2>2. req[c].latest \in Rows \union {None}
      BY DEF Inv, TypeOK, Requests
    <2> QED
      BY <1>1, <1>3, <2>1, <2>2 DEF Respond, Envelopes, Rows
  <1>4. CASE UNCHANGED tab
    BY <1>1, <1>4
  <1> QED
    BY <1>2, <1>3, <1>4 DEF Next, Step, CountDesigns, InsertDesign, OpenDesign,
       LoadForUpdate, ReadLatest, Unchanged, ReadOldest, CommitRevision, CommitEnvelope,
       Abort, DeleteDesign

\* A save leaves its design a newest revision, numbers that are all different
\* and at least two rows, and a version no higher than the row it wrote.
LEMMA CommitKeepsHistory ==
    ASSUME Inv, NEW c \in Clients, CommitRevision(c),
           NEW d \in Designs, d = req[c].design
    PROVE  HistoryInv(d)'
  <1> DEFINE n == NewRow(c)
  <1>1. d \in Designs /\ Exists(d) /\ designs[d] \in Envelopes
    BY DEF CommitRevision, Inv, RequestInv, Writing, TypeOK, Exists
  <1>2. PICK m \in revisions[d] : IsNewest(d, m)
    BY <1>1 DEF Inv, HistoryInv
  <1>3. /\ n \in Rows /\ m \in Rows /\ n.nr # m.nr
        /\ n.nr = req[c].latest.nr + 1
        /\ m \in revisions'[d] /\ n \in revisions'[d]
        /\ revisions'[d] \subseteq revisions[d] \union {n}
        /\ \A r \in revisions'[d] : r.nr = n.nr => r = n
    BY <1>2, CommitKeepsNewest
  <1>4. \A r, s \in revisions[d] : r.nr = s.nr => r = s
    BY <1>1 DEF Inv, HistoryInv
  <1>5. \A r \in revisions[d] : r \in Rows /\ r.nr <= m.nr
    BY <1>1, <1>2 DEF IsNewest, Inv, TypeOK
  <1>6. \E r \in revisions'[d] : \A s \in revisions'[d] : s.nr <= r.nr
    <2>1. CASE n.nr < m.nr
      BY <1>3, <1>5, <2>1 DEF Rows
    <2>2. CASE m.nr < n.nr
      BY <1>3, <1>5, <2>2 DEF Rows
    <2> QED
      BY <1>3, <2>1, <2>2 DEF Rows
  <1>7. designs'[d].version <= n.nr
    <2>1. NameAfter(c) \in Names
      <3>1. designs[d].name \in Names
        BY <1>1 DEF Envelopes
      <3>2. req[c].name \in Names \union {None}
        BY DEF Inv, TypeOK, Requests
      <3> QED
        BY <3>1, <3>2 DEF NameAfter
    <2>2. /\ req[c].row \in Snapshots /\ req[c].latest \in Rows
          /\ req[c].row.version <= req[c].latest.nr
      BY DEF CommitRevision, Inv, RequestInv, Writing
    <2>3. VersionAfter(c) \in Nat /\ VersionAfter(c) <= n.nr
      BY <1>3, <2>2 DEF VersionAfter, Snapshots, Rows
    <2>4. designs'[d] = [[designs[d] EXCEPT !.version = VersionAfter(c)]
                                     EXCEPT !.name = NameAfter(c)]
      BY <1>1 DEF CommitRevision, Inv, TypeOK
    <2>5. designs'[d].version = VersionAfter(c)
      BY <1>1, <2>4 DEF Envelopes
    <2> QED
      BY <2>3, <2>5
  <1>8. Exists(d)'
    <2>1. Next
      BY DEF Next, Step
    <2>2. designs'[d] \in Envelopes
      BY <1>1, <2>1, EnvelopesKept
    <2>3. None \notin Envelopes
      BY NoneAssumption DEF Envelopes
    <2> QED
      BY <2>2, <2>3 DEF Exists
  <1>9. \A r, s \in revisions'[d] : r.nr = s.nr => r = s
    BY <1>3, <1>4
  <1>10. \E r, s \in revisions'[d] : r.nr < s.nr
    BY <1>3 DEF Rows
  <1> HIDE DEF n
  <1> QED
    BY <1>3, <1>6, <1>7, <1>8, <1>9, <1>10 DEF HistoryInv, Reached, IsNewest

LEMMA HistoryKept ==
    ASSUME Inv, Next, NEW d \in Designs
    PROVE  HistoryInv(d)'
  <1>1. ASSUME NEW c \in Clients, InsertDesign(c)
        PROVE  HistoryInv(d)'
    <2>1. PICK e \in Designs, name \in Names, doc \in Docs :
             /\ ~Exists(e)
             /\ designs' = [designs EXCEPT ![e] =
                               [version |-> 1, name |-> name, deleted |-> FALSE]]
             /\ revisions' = [revisions EXCEPT ![e] = {[nr |-> 1, doc |-> doc]}]
      BY <1>1 DEF InsertDesign
    <2>2. CASE d = e
      <3>1. designs'[d].version = 1 /\ revisions'[d] = {[nr |-> 1, doc |-> doc]}
        BY <2>1, <2>2 DEF Inv, TypeOK
      <3>2. [version |-> 1, name |-> name, deleted |-> FALSE] # None
        <4>1. [version |-> 1, name |-> name, deleted |-> FALSE] \in
                 [version : Nat, name : Names, deleted : BOOLEAN]
          OBVIOUS
        <4> QED
          BY <4>1, NoneAssumption
      <3>3. designs'[d] # None
        BY <2>1, <2>2, <3>2 DEF Inv, TypeOK
      <3>4. \A r \in revisions'[d] : r = [nr |-> 1, doc |-> doc] /\ r.nr = 1
        BY <3>1
      <3>5. PICK r \in revisions'[d] : r.nr = 1
        BY <3>1, <3>4
      <3>6. IsNewest(d, r)' /\ Reached(d, designs[d].version)' /\ ~Reached(d, 2)'
        BY <3>1, <3>4, <3>5 DEF IsNewest, Reached
      <3> QED
        BY <3>3, <3>4, <3>5, <3>6 DEF HistoryInv, Exists
    <2>3. CASE d # e
      BY <2>1, <2>3 DEF Inv, TypeOK, HistoryInv, Exists, Reached, IsNewest
    <2> QED
      BY <2>2, <2>3
  <1>2. ASSUME NEW c \in Clients, CommitRevision(c)
        PROVE  HistoryInv(d)'
    <2>1. CASE d = req[c].design
      BY <1>2, <2>1, CommitKeepsHistory
    <2>2. CASE d # req[c].design
      BY <1>2, <2>2 DEF CommitRevision, Inv, TypeOK, HistoryInv, Exists, Reached,
         IsNewest
    <2> QED
      BY <2>1, <2>2
  <1>3. ASSUME revisions' = revisions, Exists(d)' <=> Exists(d),
               Exists(d) => designs'[d].version = designs[d].version
        PROVE  HistoryInv(d)'
    BY <1>3 DEF Inv, HistoryInv, Exists, Reached, IsNewest
  <1>4. designs[d] \in Envelopes \union {None} /\ None \notin Envelopes
    BY NoneAssumption DEF Inv, TypeOK, Envelopes
  <1>5. Exists(d) => Exists(d)' /\ designs[d] \in Envelopes
    BY <1>4, EnvelopesKept DEF Exists
  <1>6. ASSUME NEW c \in Clients, CommitEnvelope(c)
        PROVE  HistoryInv(d)'
    <2>1. CASE d = req[c].design
      <3>1. Exists(d)
        BY <1>6, <2>1 DEF CommitEnvelope, Inv, RequestInv
      <3>2. designs'[d].version = designs[d].version
        BY <1>4, <1>5, <1>6, <2>1, <3>1 DEF CommitEnvelope, Inv, TypeOK, Envelopes
      <3> QED
        BY <1>3, <1>5, <1>6, <3>1, <3>2 DEF CommitEnvelope
    <2>2. CASE d # req[c].design
      BY <1>3, <1>6, <2>2 DEF CommitEnvelope, Exists, Inv, TypeOK
    <2> QED
      BY <2>1, <2>2
  <1>7. ASSUME NEW e \in Designs, DeleteDesign(e)
        PROVE  HistoryInv(d)'
    <2>1. CASE d = e
      <3>1. Exists(d)
        BY <1>7, <2>1 DEF DeleteDesign, Visible
      <3>2. designs'[d].version = designs[d].version
        BY <1>5, <1>7, <2>1, <3>1 DEF DeleteDesign, Inv, TypeOK, Envelopes
      <3> QED
        BY <1>3, <1>5, <1>7, <3>1, <3>2 DEF DeleteDesign
    <2>2. CASE d # e
      BY <1>3, <1>7, <2>2 DEF DeleteDesign, Exists, Inv, TypeOK
    <2> QED
      BY <2>1, <2>2
  <1>8. CASE UNCHANGED <<designs, revisions>>
    BY <1>3, <1>8 DEF Exists
  <1> QED
    BY <1>1, <1>2, <1>6, <1>7, <1>8 DEF Next, Step, CountDesigns, OpenDesign,
       SendDesign, LoadForUpdate, ReadLatest, Unchanged, ReadOldest, Respond, Abort

\* A row disappears only below a newer one.
LEMMA RowStaysOrIsPassed ==
    ASSUME Inv, Next, NEW d \in Designs, NEW r \in revisions[d]
    PROVE  r \in revisions'[d] \/ \E s \in revisions'[d] : r.nr < s.nr
  <1>1. ASSUME NEW c \in Clients, InsertDesign(c)
        PROVE  r \in revisions'[d]
    BY <1>1 DEF InsertDesign, Inv, TypeOK, HistoryInv
  <1>2. ASSUME NEW c \in Clients, CommitRevision(c)
        PROVE  r \in revisions'[d] \/ \E s \in revisions'[d] : r.nr < s.nr
    <2>1. CASE d = req[c].design
      <3>1. PICK m \in revisions[d] : IsNewest(d, m)
        BY <1>2, <2>1 DEF Inv, HistoryInv, RequestInv, CommitRevision
      <3>2. m \in revisions'[d] /\ m \in Rows
        BY <1>2, <2>1, <3>1, CommitKeepsNewest
      <3>3. r \in Rows /\ r.nr <= m.nr /\ (r.nr = m.nr => r = m)
        BY <3>1 DEF IsNewest, Inv, TypeOK, HistoryInv
      <3> QED
        BY <3>2, <3>3 DEF Rows
    <2>2. CASE d # req[c].design
      BY <1>2, <2>2 DEF CommitRevision, Inv, TypeOK
    <2> QED
      BY <2>1, <2>2
  <1>3. CASE UNCHANGED revisions
    BY <1>3
  <1> QED
    BY <1>1, <1>2, <1>3 DEF Next, Step, CountDesigns, OpenDesign, SendDesign,
       LoadForUpdate, ReadLatest, Unchanged, ReadOldest, CommitEnvelope, Respond, Abort,
       DeleteDesign

\* A request that takes no step of its own keeps what it knows: what others do
\* only raises the numbers it has read.
LEMMA WaitingKept ==
    ASSUME Inv, Next, NEW c \in Clients, req'[c] = req[c]
    PROVE  RequestInv(c)'
  <1>1. RequestInv(c) /\ req[c] \in Requests
    BY DEF Inv, TypeOK
  <1>2. PICK q \in Requests : q = req[c]
    BY <1>1
  <1>3. q.pc \notin {"idle", "counted"} => q.design \in Designs /\ Exists(q.design)
    BY <1>1, <1>2 DEF RequestInv
  <1>4. q.pc \notin {"idle", "counted"} => Exists(q.design)'
    <2>1. None \notin Envelopes
      BY NoneAssumption DEF Envelopes
    <2> QED
      BY <1>3, <2>1, EnvelopesKept DEF Exists
  <1>5. q.pc \in {"loaded"} \union Writing => Reached(q.design, q.row.version)'
    <2>1. SUFFICES ASSUME q.pc \in {"loaded"} \union Writing
                   PROVE  Reached(q.design, q.row.version)'
      OBVIOUS
    <2>2. Reached(q.design, q.row.version) /\ q.row.version \in Nat
      BY <1>1, <1>2, <2>1 DEF RequestInv, Writing, Snapshots
    <2>3. q.design \in Designs
      BY <1>3, <2>1 DEF Writing
    <2> QED
      BY <2>2, <2>3, RanksKept
  <1>6. q.pc \in Writing =>
            q.latest \in revisions'[q.design] \/ Passed(q.design, q.latest.nr)'
    <2>1. SUFFICES ASSUME q.pc \in Writing
                   PROVE  q.latest \in revisions'[q.design]
                            \/ Passed(q.design, q.latest.nr)'
      OBVIOUS
    <2>2. /\ q.latest \in revisions[q.design] \/ Passed(q.design, q.latest.nr)
          /\ q.latest.nr \in Nat
      BY <1>1, <1>2, <2>1 DEF RequestInv, Writing, Rows
    <2>3. q.design \in Designs
      BY <1>3, <2>1 DEF Writing
    <2>4. CASE q.latest \in revisions[q.design]
      BY <2>3, <2>4, RowStaysOrIsPassed DEF Passed
    <2>5. CASE Passed(q.design, q.latest.nr)
      BY <2>2, <2>3, <2>5, RanksKept
    <2> QED
      BY <2>2, <2>4, <2>5
  <1>7. q.pc \in Writing /\ q.oldest # None => Passed(q.design, q.oldest.nr)'
    <2>1. SUFFICES ASSUME q.pc \in Writing, q.oldest # None
                   PROVE  Passed(q.design, q.oldest.nr)'
      OBVIOUS
    <2>2. Passed(q.design, q.oldest.nr) /\ q.oldest.nr \in Nat
      BY <1>1, <1>2, <2>1 DEF RequestInv, Rows
    <2>3. q.design \in Designs
      BY <1>3, <2>1 DEF Writing
    <2> QED
      BY <2>2, <2>3, RanksKept
  <1> QED
    BY <1>1, <1>2, <1>3, <1>4, <1>5, <1>6, <1>7 DEF RequestInv, Reached, Passed,
       Exists

\* What a request learns in a step of its own is true when it learns it.
LEMMA ActingKept ==
    ASSUME Inv, Next, NEW c \in Clients, Step(c)
    PROVE  RequestInv(c)'
  <1> DEFINE d == req[c].design
  <1>1. req \in [Clients -> Requests] /\ req[c] \in Requests /\ RequestInv(c)
    BY DEF Inv, TypeOK
  <1>2. \A e \in Designs : Exists(e) => Exists(e)'
    <2>1. None \notin Envelopes
      BY NoneAssumption DEF Envelopes
    <2> QED
      BY <2>1, EnvelopesKept DEF Exists
  <1>3. \A e \in Live : /\ e \in Designs /\ Exists(e) /\ Snapshot(e) \in Snapshots
                        /\ Reached(e, designs[e].version)
    BY DEF Inv, TypeOK, HistoryInv, Live, Visible, Exists, Snapshot, Snapshots, Envelopes
  <1>4. CASE CountDesigns(c)
    BY <1>1, <1>4 DEF CountDesigns, NoReq, RequestInv, Writing
  <1>5. CASE InsertDesign(c)
    <2>1. PICK e \in Designs, name \in Names, doc \in Docs :
             /\ ~Exists(e)
             /\ designs' = [designs EXCEPT ![e] =
                               [version |-> 1, name |-> name, deleted |-> FALSE]]
             /\ revisions' = [revisions EXCEPT ![e] = {[nr |-> 1, doc |-> doc]}]
             /\ req' = [req EXCEPT ![c] =
                           [NoReq EXCEPT !.pc = "committed", !.design = e,
                                         !.latest = [nr |-> 1, doc |-> doc]]]
      BY <1>5 DEF InsertDesign
    <2>2. [version |-> 1, name |-> name, deleted |-> FALSE] # None
      <3>1. [version |-> 1, name |-> name, deleted |-> FALSE] \in
               [version : Nat, name : Names, deleted : BOOLEAN]
        OBVIOUS
      <3> QED
        BY <3>1, NoneAssumption
    <2>3. Exists(e)'
      BY <2>1, <2>2 DEF Exists, Inv, TypeOK
    <2>4. req'[c].pc = "committed" /\ req'[c].design = e
      BY <1>1, <2>1 DEF NoReq
    <2> QED
      BY <2>3, <2>4 DEF RequestInv, Writing, Exists
  <1>6. CASE OpenDesign(c)
    <2>1. PICK e \in Live :
             req' = [req EXCEPT ![c] = [NoReq EXCEPT !.pc = "opening", !.design = e,
                                                     !.row = Snapshot(e)]]
      BY <1>6 DEF OpenDesign
    <2>2. req'[c].pc = "opening" /\ req'[c].design = e /\ req'[c].row = Snapshot(e)
      BY <1>1, <2>1 DEF NoReq
    <2> QED
      BY <1>2, <1>3, <2>2 DEF RequestInv, Writing, Exists
  <1>7. CASE LoadForUpdate(c)
    <2>1. PICK e \in Live, name \in Names \union {None}, doc \in Docs \union {None} :
             req' = [req EXCEPT ![c] =
                        [NoReq EXCEPT
                            !.pc = IF doc = None THEN "renaming" ELSE "loaded",
                            !.design = e, !.name = name, !.doc = doc,
                            !.row = Snapshot(e)]]
      BY <1>7 DEF LoadForUpdate
    <2>2. /\ req'[c].pc = IF doc = None THEN "renaming" ELSE "loaded"
          /\ req'[c].design = e /\ req'[c].row = Snapshot(e) /\ req'[c].doc = doc
          /\ req'[c].oldest = None
      BY <1>1, <2>1 DEF NoReq
    <2>3. Reached(e, Snapshot(e).version)
      BY <1>3 DEF Snapshot
    <2>4. revisions' = revisions
      BY <1>7 DEF LoadForUpdate
    <2>5. CASE doc = None
      BY <1>2, <1>3, <2>2, <2>5 DEF RequestInv, Writing, Exists
    <2>6. CASE doc \in Docs
      <3>1. doc # None
        BY <2>6, NoneAssumption
      <3> QED
        BY <1>2, <1>3, <2>2, <2>3, <2>4, <2>6, <3>1 DEF RequestInv, Writing, Exists,
           Reached
    <2> QED
      BY <2>5, <2>6
  <1>8. CASE ReadLatest(c)
    <2>1. PICK r \in revisions[d] :
             /\ IsNewest(d, r)
             /\ req' = [req EXCEPT
                  ![c].latest = r,
                  ![c].pc = IF r.doc = req[c].doc THEN "renaming"
                            ELSE IF HistoryFull(r) THEN "trimming"
                            ELSE "writing"]
      BY <1>8 DEF ReadLatest, Unchanged
    <2>2. UNCHANGED <<designs, revisions>> /\ req[c].pc = "loaded"
      BY <1>8 DEF ReadLatest, Unchanged
    <2>3. /\ d \in Designs /\ Exists(d) /\ req[c].row \in Snapshots
          /\ req[c].doc \in Docs /\ Reached(d, req[c].row.version)
      BY <1>1, <2>2 DEF RequestInv
    <2>4. r \in Rows /\ \A s \in revisions[d] : s \in Rows /\ s.nr <= r.nr
      BY <2>1, <2>3 DEF IsNewest, Inv, TypeOK
    <2>5. req[c].row.version <= r.nr
      BY <2>3, <2>4 DEF Reached, Rows, Snapshots
    <2>6. req[c].oldest = None
      BY <1>1, <2>2 DEF RequestInv
    <2>7. /\ req'[c].pc = IF r.doc = req[c].doc THEN "renaming"
                          ELSE IF HistoryFull(r) THEN "trimming"
                          ELSE "writing"
          /\ req'[c].latest = r /\ req'[c].oldest = None /\ req'[c].design = d
          /\ req'[c].row = req[c].row /\ req'[c].doc = req[c].doc
      BY <1>1, <2>1, <2>6 DEF Requests
    <2>8. HistoryFull(r) => r.nr >= 2
      BY <2>4, LimitsAssumption DEF HistoryFull, Rows
    <2> QED
      BY <2>2, <2>3, <2>4, <2>5, <2>7, <2>8 DEF RequestInv, Writing, Exists, Reached
  <1>9. CASE ReadOldest(c)
    <2>1. PICK r \in revisions[d] :
             /\ IsOldest(d, r)
             /\ req' = [req EXCEPT ![c].pc = "writing", ![c].oldest = r]
      BY <1>9 DEF ReadOldest
    <2>2. UNCHANGED <<designs, revisions>> /\ req[c].pc = "trimming"
      BY <1>9 DEF ReadOldest
    <2>3. d \in Designs /\ Exists(d) /\ req[c].latest \in Rows /\ req[c].latest.nr >= 2
      BY <1>1, <2>2 DEF RequestInv, Writing
    <2>4. \A s \in revisions[d] : s \in Rows /\ r.nr <= s.nr
      BY <2>1, <2>3 DEF IsOldest, Inv, TypeOK
    <2>5. Reached(d, 2)
      BY <1>1, <2>2, <2>3, <2>4 DEF RequestInv, Writing, Reached, Passed, Rows
    <2>6. \E s, t \in revisions[d] : s.nr < t.nr
      BY <2>3, <2>5 DEF Inv, HistoryInv
    <2>7. Passed(d, r.nr)
      BY <2>1, <2>4, <2>6 DEF Passed, Rows
    <2>8. /\ req'[c].pc = "writing" /\ req'[c].oldest = r
          /\ req'[c].latest = req[c].latest /\ req'[c].design = d
          /\ req'[c].row = req[c].row /\ req'[c].doc = req[c].doc
      BY <1>1, <2>1 DEF Requests
    <2> QED
      BY <1>1, <2>1, <2>2, <2>4, <2>7, <2>8 DEF RequestInv, Writing, Exists, Reached,
         Passed
  <1>10. CASE CommitRevision(c) \/ CommitEnvelope(c)
    <2>1. d \in Designs /\ Exists(d)
      BY <1>1, <1>10 DEF CommitRevision, CommitEnvelope, RequestInv, Writing
    <2>2. req'[c].pc = "committed" /\ req'[c].design = d
      BY <1>1, <1>10 DEF CommitRevision, CommitEnvelope, NoReq
    <2> QED
      BY <1>2, <2>1, <2>2 DEF RequestInv, Writing, Exists
  <1>11. CASE SendDesign(c) \/ Respond(c) \/ Abort(c)
    BY <1>1, <1>11 DEF SendDesign, Respond, Abort, NoReq, RequestInv, Writing
  <1> QED
    BY <1>4, <1>5, <1>6, <1>7, <1>8, <1>9, <1>10, <1>11 DEF Step

LEMMA OthersWait ==
    ASSUME Inv, NEW c \in Clients, Step(c), NEW o \in Clients, o # c
    PROVE  req'[o] = req[o]
  <1>1. req \in [Clients -> Requests]
    BY DEF Inv, TypeOK
  <1> QED
    BY <1>1 DEF Step, CountDesigns, InsertDesign, OpenDesign, SendDesign,
       LoadForUpdate, ReadLatest, Unchanged, ReadOldest, CommitRevision, CommitEnvelope,
       Respond, Abort

LEMMA InvInit == Init => Inv
  <1> SUFFICES ASSUME Init
               PROVE  Inv
    OBVIOUS
  <1>1. NoReq \in Requests
    BY DEF NoReq, Requests, Stages
  <1>2. TypeOK
    BY <1>1 DEF Init, TypeOK
  <1>3. \A d \in Designs : HistoryInv(d)
    BY DEF Init, HistoryInv, Exists, Reached
  <1>4. \A c \in Clients : RequestInv(c)
    BY DEF Init, NoReq, RequestInv, Writing
  <1> QED
    BY <1>2, <1>3, <1>4 DEF Inv

LEMMA InvNext == Inv /\ [Next]_vars => Inv'
  <1> SUFFICES ASSUME Inv, [Next]_vars
               PROVE  Inv'
    OBVIOUS
  <1>1. CASE Next
    <2>1. TypeOK'
      BY <1>1, EnvelopesKept, RevisionsTyped, RequestsTyped, TabsTyped DEF TypeOK
    <2>2. ASSUME NEW d \in Designs
          PROVE  HistoryInv(d)'
      BY <1>1, HistoryKept
    <2>3. ASSUME NEW c \in Clients
          PROVE  RequestInv(c)'
      <3>1. CASE Step(c)
        BY <1>1, <3>1, ActingKept
      <3>2. ASSUME NEW a \in Clients, Step(a), a # c
            PROVE  RequestInv(c)'
        BY <1>1, <3>2, OthersWait, WaitingKept
      <3>3. ASSUME NEW d \in Designs, DeleteDesign(d)
            PROVE  RequestInv(c)'
        BY <1>1, <3>3, WaitingKept DEF DeleteDesign
      <3> QED
        BY <1>1, <3>1, <3>2, <3>3 DEF Next
    <2> QED
      BY <2>1, <2>2, <2>3 DEF Inv
  <1>2. CASE UNCHANGED vars
    BY <1>2 DEF vars, Inv, TypeOK, HistoryInv, RequestInv, Exists, Reached, Passed,
       IsNewest
  <1> QED
    BY <1>1, <1>2

LEMMA Invariance == Spec => []Inv
  BY InvInit, InvNext, PTL DEF Spec

\* Whatever requests race, the tables and what the requests have read keep
\* their types (rows of designs.py's two tables, a version that stays a number).
THEOREM TypeCorrect == Spec => []TypeOK
  <1>1. Inv => TypeOK
    BY DEF Inv
  <1> QED
    BY <1>1, Invariance, PTL

\* update_design never lets the version a client compares with If-Match run
\* ahead of the newest revision, nor leaves a design without a revision, for any
\* number of concurrent saves and any length of history.
THEOREM VersionNeverAheadHolds == Spec => []VersionNeverAhead
  <1>1. Inv => VersionNeverAhead
    BY DEF Inv, HistoryInv, Reached, VersionNeverAhead
  <1> QED
    BY <1>1, Invariance, PTL

\* update_design writes the columns it changed and no others: a save never puts
\* back a name that a concurrent rename has replaced.
THEOREM NameChangesOnlyOnRequestHolds == Spec => NameChangesOnlyOnRequest
  <1> DEFINE Asked(d) == \E c \in Clients : /\ req[c].design = d
                                            /\ req[c].name = designs'[d].name
                                            /\ req'[c].pc = "committed"
             Renamed(d) == Exists(d) /\ designs'[d].name # designs[d].name
  <1>1. ASSUME Inv, [Next]_vars, NEW d \in Designs, Renamed(d)
        PROVE  Asked(d)
    <2>1. designs \in [Designs -> Envelopes \union {None}] /\ designs[d] \in Envelopes
      BY <1>1 DEF Inv, TypeOK, Exists
    <2>2. req \in [Clients -> Requests]
      BY <1>1 DEF Inv, TypeOK
    <2>3. ASSUME NEW c \in Clients, CommitRevision(c) \/ CommitEnvelope(c)
          PROVE  Asked(d)
      <3>1. d = req[c].design
        BY <1>1, <2>1, <2>3 DEF CommitRevision, CommitEnvelope
      <3>2. designs'[d].name = NameAfter(c)
        BY <2>1, <2>3, <3>1 DEF CommitRevision, CommitEnvelope, Envelopes
      <3>3. NameAfter(c) = req[c].name
        BY <1>1, <3>1, <3>2 DEF NameAfter
      <3>4. req'[c].pc = "committed"
        BY <2>2, <2>3 DEF CommitRevision, CommitEnvelope, NoReq
      <3> QED
        BY <3>1, <3>2, <3>3, <3>4
    <2>4. ASSUME NEW c \in Clients, InsertDesign(c)
          PROVE  FALSE
      BY <1>1, <2>1, <2>4 DEF InsertDesign
    <2>5. ASSUME NEW e \in Designs, DeleteDesign(e)
          PROVE  FALSE
      BY <1>1, <2>1, <2>5 DEF DeleteDesign, Envelopes
    <2>6. ~UNCHANGED designs
      BY <1>1
    <2> QED
      BY <1>1, <2>3, <2>4, <2>5, <2>6 DEF Next, Step, CountDesigns, OpenDesign,
         SendDesign, LoadForUpdate, ReadLatest, Unchanged, ReadOldest, Respond, Abort, vars
  <1>2. Inv /\ [Next]_vars => RenamesOnRequest
    BY <1>1 DEF RenamesOnRequest
  <1> QED
    BY <1>2, Invariance, PTL DEF Spec, NameChangesOnlyOnRequest

LEMMA SetsFinite ==
    /\ IsFiniteSet(Live) /\ IsFiniteSet(Counted) /\ IsFiniteSet(InFlight)
    /\ Cardinality(Live) \in Nat /\ Cardinality(Counted) \in Nat
    /\ Cardinality(InFlight) \in Nat
    /\ Cardinality(Counted) <= Cardinality(InFlight)
  <1>1. Live \subseteq Designs /\ InFlight \subseteq Clients /\ Counted \subseteq InFlight
    BY DEF Live, InFlight, Counted
  <1>2. IsFiniteSet(Live) /\ IsFiniteSet(InFlight)
    BY <1>1, IdentifiersAssumption, FS_Subset
  <1>3. IsFiniteSet(Counted) /\ Cardinality(Counted) <= Cardinality(InFlight)
    BY <1>1, <1>2, FS_Subset
  <1> QED
    BY <1>2, <1>3, FS_CardinalityType

\* The owner's designs and the requests that may still add one, together.
LEMMA QuotaStep ==
    ASSUME Inv, QuotaInv, Next
    PROVE  QuotaInv'
  <1>1. req \in [Clients -> Requests]
    BY DEF Inv, TypeOK
  <1>2. ASSUME NEW c \in Clients, CountDesigns(c)
        PROVE  QuotaInv'
    <2>1. Live' = Live
      BY <1>2 DEF CountDesigns, Live, Visible, Exists
    <2>2. InFlight' = InFlight \union {c} /\ c \notin InFlight
      BY <1>1, <1>2 DEF CountDesigns, CanStart, InFlight, NoReq
    <2>3. Cardinality(InFlight') <= MaxInFlight
      <3>1. Cardinality(InFlight') = Cardinality(InFlight) + 1
        BY <2>2, SetsFinite, FS_AddElement
      <3>2. Cardinality(InFlight) < MaxInFlight
        BY <1>2 DEF CountDesigns, CanStart
      <3> QED
        BY <3>1, <3>2, SetsFinite, LimitsAssumption
    <2>4. Counted' \subseteq InFlight'
      BY DEF Counted, InFlight
    <2>5. IsFiniteSet(InFlight')
      BY <2>2, SetsFinite, FS_AddElement
    <2>6. /\ Cardinality(Counted') <= Cardinality(InFlight')
          /\ Cardinality(Counted') \in Nat /\ Cardinality(InFlight') \in Nat
      BY <2>4, <2>5, FS_Subset, FS_CardinalityType
    <2> QED
      BY <1>2, <2>1, <2>3, <2>6, SetsFinite, LimitsAssumption DEF CountDesigns,
         LimitReached, QuotaInv, QuotaOvershootBounded
  <1>3. ASSUME NEW c \in Clients, InsertDesign(c)
        PROVE  QuotaInv'
    <2>1. PICK d \in Designs, name \in Names :
             /\ ~Exists(d)
             /\ designs' = [designs EXCEPT ![d] =
                               [version |-> 1, name |-> name, deleted |-> FALSE]]
      BY <1>3 DEF InsertDesign
    <2>2. Live' \subseteq Live \union {d}
      BY <2>1 DEF Live, Visible, Exists, Inv, TypeOK
    <2>3. InFlight' = InFlight /\ Counted' = Counted \ {c} /\ c \in Counted
      BY <1>1, <1>3 DEF InsertDesign, InFlight, Counted, NoReq
    <2>4. /\ IsFiniteSet(Live \union {d})
          /\ Cardinality(Live \union {d}) <= Cardinality(Live) + 1
      <3>1. /\ IsFiniteSet(Live \union {d})
            /\ Cardinality(Live \union {d}) =
                  IF d \in Live THEN Cardinality(Live) ELSE Cardinality(Live) + 1
        BY SetsFinite, FS_AddElement
      <3> QED
        BY <3>1, SetsFinite
    <2>5. Cardinality(Live') <= Cardinality(Live) + 1 /\ Cardinality(Live') \in Nat
      BY <2>2, <2>4, SetsFinite, FS_Subset, FS_CardinalityType
    <2>6. Cardinality(Counted') = Cardinality(Counted) - 1
      BY <2>3, SetsFinite, FS_RemoveElement
    <2> QED
      BY <2>3, <2>5, <2>6, SetsFinite, LimitsAssumption DEF QuotaInv, QuotaOvershootBounded
  <1>4. ASSUME Live' \subseteq Live, Counted' \subseteq Counted,
               Cardinality(InFlight') <= MaxInFlight
        PROVE  QuotaInv'
    <2>1. /\ Cardinality(Live') <= Cardinality(Live) /\ Cardinality(Live') \in Nat
          /\ Cardinality(Counted') <= Cardinality(Counted) /\ Cardinality(Counted') \in Nat
      BY <1>4, SetsFinite, FS_Subset, FS_CardinalityType
    <2> QED
      BY <1>4, <2>1, SetsFinite, LimitsAssumption DEF QuotaInv, QuotaOvershootBounded
  <1>5. \A d \in Designs : Exists(d) => designs[d] \in Envelopes
    BY DEF Inv, TypeOK, Exists
  <1>6. ASSUME NEW c \in Clients, OpenDesign(c) \/ LoadForUpdate(c)
        PROVE  QuotaInv'
    <2>1. Live' = Live
      BY <1>6 DEF OpenDesign, LoadForUpdate, Live, Visible, Exists
    <2>2. InFlight' = InFlight \union {c} /\ c \notin InFlight /\ Counted' \subseteq Counted
      BY <1>1, <1>6, ZenonT(60) DEF OpenDesign, LoadForUpdate, CanStart, InFlight, Counted, NoReq
    <2>3. Cardinality(InFlight) < MaxInFlight
      BY <1>6 DEF OpenDesign, LoadForUpdate, CanStart
    <2>4. Cardinality(InFlight') <= MaxInFlight
      <3>1. Cardinality(InFlight') = Cardinality(InFlight) + 1
        BY <2>2, SetsFinite, FS_AddElement
      <3> QED
        BY <2>3, <3>1, SetsFinite, LimitsAssumption
    <2> QED
      BY <1>4, <2>1, <2>2, <2>4
  <1>7. ASSUME InFlight' \subseteq InFlight
        PROVE  Cardinality(InFlight') <= MaxInFlight
    <2>1. Cardinality(InFlight') <= Cardinality(InFlight) /\ Cardinality(InFlight') \in Nat
      BY <1>7, SetsFinite, FS_Subset, FS_CardinalityType
    <2> QED
      BY <2>1, SetsFinite, LimitsAssumption DEF QuotaInv, QuotaOvershootBounded
  <1>8. ASSUME NEW c \in Clients,
               \/ SendDesign(c) \/ ReadLatest(c) \/ ReadOldest(c)
               \/ CommitRevision(c) \/ CommitEnvelope(c) \/ Respond(c) \/ Abort(c)
        PROVE  QuotaInv'
    <2>1. InFlight' \subseteq InFlight /\ Counted' \subseteq Counted
      <3>1. req[c].pc # "idle" /\ req'[c].pc # "counted"
        <4>1. CASE SendDesign(c) \/ Respond(c) \/ Abort(c)
          BY <1>1, <4>1 DEF SendDesign, Respond, Abort, NoReq
        <4>2. CASE CommitRevision(c) \/ CommitEnvelope(c)
          BY <1>1, <4>2 DEF CommitRevision, CommitEnvelope, NoReq
        <4>3. CASE ReadLatest(c)
          BY <1>1, <4>3 DEF ReadLatest, Unchanged, Requests
        <4>4. CASE ReadOldest(c)
          BY <1>1, <4>4 DEF ReadOldest, Requests
        <4> QED
          BY <1>8, <4>1, <4>2, <4>3, <4>4
      <3>2. \A o \in Clients : o # c => req'[o] = req[o]
        BY <1>8, OthersWait DEF Step
      <3> QED
        BY <3>1, <3>2 DEF InFlight, Counted
    <2>2. Live' \subseteq Live
      <3>1. CASE UNCHANGED designs
        BY <3>1 DEF Live, Visible, Exists
      <3>2. CASE CommitRevision(c) \/ CommitEnvelope(c)
        <4> DEFINE d == req[c].design
        <4>1. d \in Designs /\ Exists(d)
          BY <3>2 DEF CommitRevision, CommitEnvelope, Inv, RequestInv, Writing
        <4>2. designs'[d].deleted = designs[d].deleted
          BY <1>5, <3>2, <4>1 DEF CommitRevision, CommitEnvelope, Envelopes, Inv, TypeOK
        <4>3. \A e \in Designs \ {d} : designs'[e] = designs[e]
          BY <3>2, <4>1 DEF CommitRevision, CommitEnvelope, Inv, TypeOK
        <4> QED
          BY <4>1, <4>2, <4>3 DEF Live, Visible, Exists
      <3> QED
        BY <1>8, <3>1, <3>2 DEF SendDesign, ReadLatest, Unchanged, ReadOldest, Respond, Abort
    <2> QED
      BY <1>4, <1>7, <2>1, <2>2
  <1>9. ASSUME NEW d \in Designs, DeleteDesign(d)
        PROVE  QuotaInv'
    <2>1. InFlight' = InFlight /\ Counted' = Counted
      BY <1>9 DEF DeleteDesign, InFlight, Counted
    <2>2. Live' \subseteq Live
      BY <1>5, <1>9 DEF DeleteDesign, Live, Visible, Exists, Inv, TypeOK
    <2> QED
      BY <1>4, <1>7, <2>1, <2>2
  <1> QED
    BY <1>2, <1>3, <1>6, <1>8, <1>9 DEF Next, Step

\* create_design's check and insert are two steps, so the limit on designs can
\* be overshot, but by no more than the requests that run at once: with a pool
\* of 10 connections an owner never has more than MAX_DESIGNS_PER_USER + 9.
THEOREM QuotaOvershootBoundedHolds == Spec => []QuotaOvershootBounded
  <1>1. Init => QuotaInv
    <2> SUFFICES ASSUME Init
                 PROVE  QuotaInv
      OBVIOUS
    <2>1. Live = {} /\ Counted = {} /\ InFlight = {}
      BY DEF Init, Live, Visible, Exists, Counted, InFlight, NoReq
    <2> QED
      BY <2>1, FS_EmptySet, LimitsAssumption DEF QuotaInv, QuotaOvershootBounded
  <1>2. Inv /\ QuotaInv /\ [Next]_vars => QuotaInv'
    <2>1. UNCHANGED vars => (QuotaInv <=> QuotaInv')
      BY DEF vars, QuotaInv, QuotaOvershootBounded, Live, Visible, Exists, Counted, InFlight
    <2> QED
      BY <2>1, QuotaStep
  <1>3. QuotaInv => QuotaOvershootBounded
    BY SetsFinite, LimitsAssumption DEF QuotaInv, QuotaOvershootBounded
  <1> QED
    BY <1>1, <1>2, <1>3, Invariance, PTL DEF Spec

--------------------------------------------------------------------------------
(* The store implements the log. *)

LEMMA ChooseNewest ==
    ASSUME NEW S, S \subseteq Rows, \A r, s \in S : r.nr = s.nr => r = s,
           NEW m \in S, \A s \in S : s.nr <= m.nr
    PROVE  (CHOOSE r \in S : r \in S /\ \A s \in S : s.nr <= r.nr) = m
  <1> DEFINE Top(r) == r \in S /\ \A s \in S : s.nr <= r.nr
  <1>1. Top(m)
    OBVIOUS
  <1>2. ASSUME NEW r \in S, Top(r)
        PROVE  r = m
    <2>1. r.nr <= m.nr /\ m.nr <= r.nr /\ r \in Rows /\ m \in Rows
      BY <1>2
    <2>2. r.nr = m.nr
      BY <2>1 DEF Rows
    <2> QED
      BY <2>2
  <1> HIDE DEF Top
  <1>3. (CHOOSE r \in S : Top(r)) = m
    BY <1>1, <1>2
  <1> QED
    BY <1>3 DEF Top

LEMMA HeadIsNewest ==
    ASSUME TypeOK, NEW d \in Designs, HistoryInv(d), NEW m, IsNewest(d, m)
    PROVE  Head(d) = m
  <1>1. revisions[d] \subseteq Rows /\ revisions[d] # {} /\ m \in revisions[d]
    BY DEF TypeOK, IsNewest
  <1>2. \A r, s \in revisions[d] : r.nr = s.nr => r = s
    BY DEF HistoryInv
  <1>3. \A s \in revisions[d] : s.nr <= m.nr
    BY DEF IsNewest
  <1> QED
    BY <1>1, <1>2, <1>3, ChooseNewest DEF Head, IsNewest

LEMMA NextHeadIsNewest ==
    ASSUME TypeOK', NEW d \in Designs, HistoryInv(d)', NEW m, IsNewest(d, m)'
    PROVE  Head(d)' = m
  <1>1. revisions'[d] \subseteq Rows /\ revisions'[d] # {} /\ m \in revisions'[d]
    BY DEF TypeOK, IsNewest
  <1>2. \A r, s \in revisions'[d] : r.nr = s.nr => r = s
    BY DEF HistoryInv
  <1>3. \A s \in revisions'[d] : s.nr <= m.nr
    BY DEF IsNewest
  <1> QED
    BY <1>1, <1>2, <1>3, ChooseNewest DEF Head, IsNewest

\* The only designs a step can add to or take from the live ones are those it
\* creates or deletes.
LEMMA LiveKept ==
    ASSUME Inv, NEW c \in Clients, CommitRevision(c) \/ CommitEnvelope(c)
    PROVE  Live' = Live
  <1>1. PICK d \in Designs : d = req[c].design /\ Exists(d)
    BY DEF CommitRevision, CommitEnvelope, Inv, RequestInv, Writing
  <1>2. designs[d] \in Envelopes
    BY <1>1 DEF Inv, TypeOK, Exists
  <1>3. designs'[d].deleted = designs[d].deleted
    <2>1. CASE CommitRevision(c)
      BY <1>1, <1>2, <2>1 DEF CommitRevision, Envelopes, Inv, TypeOK
    <2>2. CASE CommitEnvelope(c)
      BY <1>1, <1>2, <2>2 DEF CommitEnvelope, Envelopes, Inv, TypeOK
    <2> QED
      BY <2>1, <2>2
  <1>4. Exists(d)'
    <2>1. Next
      BY DEF Next, Step
    <2>2. None \notin Envelopes
      BY NoneAssumption DEF Envelopes
    <2> QED
      BY <1>1, <2>1, <2>2, EnvelopesKept DEF Exists
  <1>5. \A e \in Designs \ {d} : designs'[e] = designs[e]
    BY <1>1 DEF CommitRevision, CommitEnvelope, Inv, TypeOK
  <1> QED
    BY <1>1, <1>3, <1>4, <1>5 DEF Live, Visible, Exists

\* A save appends to the log, unless it was lapped: then the log stays as it is.
LEMMA SaveAppends ==
    ASSUME Inv, Inv', NEW c \in Clients, CommitRevision(c)
    PROVE  \/ \E d \in Designs : Log!Append(d)
           \/ \A d \in Designs : Head(d)' = Head(d)
  <1>1. PICK d \in Designs : d = req[c].design /\ Exists(d)
    BY DEF CommitRevision, Inv, RequestInv, Writing
  <1>2. PICK m \in revisions[d] : IsNewest(d, m)
    BY <1>1 DEF Inv, HistoryInv
  <1>3. /\ NewRow(c) \in Rows /\ m \in Rows /\ NewRow(c).nr # m.nr
        /\ NewRow(c).nr = req[c].latest.nr + 1
        /\ m \in revisions'[d] /\ NewRow(c) \in revisions'[d]
        /\ revisions'[d] \subseteq revisions[d] \union {NewRow(c)}
    BY <1>1, <1>2, CommitKeepsNewest
  <1>4. \A r \in revisions[d] : r \in Rows /\ r.nr <= m.nr
    BY <1>2 DEF IsNewest, Inv, TypeOK
  <1>5. Head(d) = m
    BY <1>2, HeadIsNewest DEF Inv
  <1>6. \A e \in Designs \ {d} : Head(e)' = Head(e)
    <2>1. \A e \in Designs \ {d} : revisions'[e] = revisions[e]
      BY <1>1 DEF CommitRevision, Inv, TypeOK
    <2>2. ASSUME NEW e \in Designs, revisions'[e] = revisions[e]
          PROVE  Head(e)' = Head(e)
      BY <2>2 DEF Head, IsNewest
    <2> QED
      BY <2>1, <2>2
  <1>7. CASE NewRow(c).nr < m.nr
    <2>1. IsNewest(d, m)'
      BY <1>3, <1>4, <1>7 DEF IsNewest, Rows
    <2>2. Head(d)' = m
      BY <2>1, NextHeadIsNewest DEF Inv
    <2> QED
      BY <1>5, <1>6, <2>2
  <1>8. CASE m.nr < NewRow(c).nr
    <2>1. /\ req[c].latest \in Rows /\ req[c].doc \in Docs
          /\ req[c].latest.doc # req[c].doc
          /\ req[c].latest \in revisions[d] \/ Passed(d, req[c].latest.nr)
      BY <1>1 DEF CommitRevision, Inv, RequestInv, Writing
    <2>2. req[c].latest.nr <= m.nr
      BY <1>4, <2>1 DEF Passed, Rows
    <2>3. req[c].latest.nr = m.nr
      BY <1>3, <1>8, <2>1, <2>2 DEF Rows
    <2>4. ~Passed(d, req[c].latest.nr)
      BY <1>3, <1>4, <2>3 DEF Passed, Rows
    <2>5. req[c].latest = m
      BY <2>1, <2>3, <2>4 DEF Inv, HistoryInv
    <2>6. PICK n : n = NewRow(c)
      OBVIOUS
    <2>7. IsNewest(d, n)'
      BY <1>3, <1>4, <1>8, <2>6 DEF IsNewest, Rows
    <2>8. Head(d)' = n
      BY <2>7, NextHeadIsNewest DEF Inv
    <2>9. n = [nr |-> m.nr + 1, doc |-> req[c].doc] /\ m.doc # req[c].doc
      BY <1>3, <2>1, <2>3, <2>5, <2>6 DEF NewRow
    <2>10. Live' = Live
      BY LiveKept
    <2>11. m # None
      BY <1>3, NoneAssumption DEF Rows
    <2>12. [e \in Designs |-> Head(e)'] =
              [[e \in Designs |-> Head(e)] EXCEPT ![d] = n]
      BY <1>6, <2>8
    <2> QED
      BY <1>5, <2>1, <2>9, <2>10, <2>11, <2>12 DEF Log!Append
  <1> QED
    BY <1>3, <1>7, <1>8 DEF Rows

\* What the log shows of a step: an entry of its own, or nothing.
LEMMA StepImplementsLog ==
    ASSUME Inv, Inv', [Next]_vars
    PROVE  [Log!Next]_<<[d \in Designs |-> Head(d)], Live>>
  <1> DEFINE heads == [d \in Designs |-> Head(d)]
  <1>1. ASSUME revisions' = revisions
        PROVE  heads' = heads
    <2>1. \A d \in Designs : Head(d)' = Head(d)
      BY <1>1 DEF Head, IsNewest
    <2> QED
      BY <2>1
  <1>2. ASSUME NEW c \in Clients, InsertDesign(c)
        PROVE  \E d \in Designs : Log!Create(d)
    <2>1. PICK d \in Designs, name \in Names, doc \in Docs :
             /\ ~Exists(d)
             /\ designs' = [designs EXCEPT ![d] =
                               [version |-> 1, name |-> name, deleted |-> FALSE]]
             /\ revisions' = [revisions EXCEPT ![d] = {[nr |-> 1, doc |-> doc]}]
      BY <1>2 DEF InsertDesign
    <2>2. PICK n \in Rows : n = [nr |-> 1, doc |-> doc]
      BY DEF Rows
    <2>3. revisions'[d] = {n}
      BY <2>1, <2>2 DEF Inv, TypeOK
    <2>4. IsNewest(d, n)'
      BY <2>2, <2>3 DEF IsNewest, Rows
    <2>5. Head(d)' = n
      BY <2>4, NextHeadIsNewest DEF Inv
    <2>6. Head(d) = None
      BY <2>1 DEF Head, Inv, HistoryInv
    <2>7. ASSUME NEW e \in Designs, e # d
          PROVE  Head(e)' = Head(e)
      <3>1. revisions'[e] = revisions[e]
        BY <2>1, <2>7 DEF Inv, TypeOK
      <3> QED
        BY <3>1 DEF Head, IsNewest
    <2>8. heads' = [heads EXCEPT ![d] = n]
      BY <2>5, <2>7
    <2>9. Live' = Live \union {d}
      <3>1. designs'[d] = [version |-> 1, name |-> name, deleted |-> FALSE]
        BY <2>1 DEF Inv, TypeOK
      <3>2. [version |-> 1, name |-> name, deleted |-> FALSE] \in Envelopes
        BY DEF Envelopes
      <3>3. Visible(d)'
        BY <3>1, <3>2, NoneAssumption DEF Visible, Exists, Envelopes
      <3>4. \A e \in Designs \ {d} : designs'[e] = designs[e]
        BY <2>1 DEF Inv, TypeOK
      <3> QED
        BY <3>3, <3>4 DEF Live, Visible, Exists
    <2> QED
      BY <2>2, <2>6, <2>8, <2>9 DEF Log!Create
  <1>3. ASSUME NEW c \in Clients, CommitRevision(c)
        PROVE  (\E d \in Designs : Log!Append(d)) \/ UNCHANGED <<heads, Live>>
    <2>1. CASE \E d \in Designs : Log!Append(d)
      BY <2>1
    <2>2. CASE \A d \in Designs : Head(d)' = Head(d)
      BY <1>3, <2>2, LiveKept
    <2> QED
      BY <1>3, <2>1, <2>2, SaveAppends
  <1>4. ASSUME NEW c \in Clients, CommitEnvelope(c)
        PROVE  UNCHANGED <<heads, Live>>
    BY <1>1, <1>4, LiveKept DEF CommitEnvelope
  <1>5. ASSUME NEW d \in Designs, DeleteDesign(d)
        PROVE  Log!Delete(d)
    <2>1. designs[d] \in Envelopes
      BY <1>5 DEF DeleteDesign, Visible, Exists, Inv, TypeOK
    <2>2. designs'[d].deleted = TRUE
      BY <1>5, <2>1 DEF DeleteDesign, Envelopes, Inv, TypeOK
    <2>3. \A e \in Designs \ {d} : designs'[e] = designs[e]
      BY <1>5 DEF DeleteDesign, Inv, TypeOK
    <2>4. Live' = Live \ {d}
      BY <2>2, <2>3 DEF Live, Visible, Exists
    <2> QED
      BY <1>1, <1>5, <2>4 DEF DeleteDesign, Log!Delete
  <1>6. ASSUME UNCHANGED <<designs, revisions>>
        PROVE  UNCHANGED <<heads, Live>>
    <2>1. Live' = Live
      BY <1>6 DEF Live, Visible, Exists
    <2> QED
      BY <1>1, <1>6, <2>1
  <1> HIDE DEF heads
  <1>7. (\E d \in Designs : Log!Create(d) \/ Log!Append(d) \/ Log!Delete(d))
           \/ UNCHANGED <<heads, Live>>
    <2>1. ASSUME ~UNCHANGED <<designs, revisions>>
          PROVE  \/ \E c \in Clients : \/ InsertDesign(c)
                                     \/ CommitRevision(c)
                                     \/ CommitEnvelope(c)
                 \/ \E d \in Designs : DeleteDesign(d)
      BY <2>1 DEF Next, Step, CountDesigns, OpenDesign, SendDesign, LoadForUpdate,
         ReadLatest, Unchanged, ReadOldest, Respond, Abort, vars
    <2> QED
      BY <1>2, <1>3, <1>4, <1>5, <1>6, <2>1
  <1> QED
    BY <1>7 DEF Log!Next, heads

\* Seen through their newest revisions, the racing handlers of designs.py are a
\* log of documents for each design: no save is applied to another head than
\* the one it was compared with, none is repeated or skipped, and whatever a
\* rotated history lets through leaves the head alone.
THEOREM ImplementsLogHolds == Spec => ImplementsLog
  <1>1. Init => Log!Init
    BY DEF Init, Log!Init, Head, Live, Visible, Exists
  <1>2. Inv /\ Inv' /\ [Next]_vars
           => [Log!Next]_<<[d \in Designs |-> Head(d)], Live>>
    BY StepImplementsLog
  <1> QED
    BY <1>1, <1>2, Invariance, PTL DEF Spec, ImplementsLog, Log!Spec

--------------------------------------------------------------------------------
(* Histories that no save has lapped *)

\* A window has at most as many rows as its newest one counts.
WindowInv(d) ==
    /\ IsWindow(d)
    /\ \A r \in revisions[d] : IsNewest(d, r) => Cardinality(revisions[d]) <= r.nr

\* As long as what a request compares with is the newest revision, the row it read
\* as the oldest is the oldest.
TrimInv(c) ==
    LET q == req[c] IN
    q.pc \in Writing /\ IsNewest(q.design, q.latest) =>
        /\ q.pc = "trimming" => q.latest.nr >= MaxRevisions
        /\ q.pc = "writing" =>
              IF q.latest.nr >= MaxRevisions
              THEN q.oldest # None /\ IsOldest(q.design, q.oldest)
              ELSE q.oldest = None

LappedInv ==
    /\ \A d \in Designs : IsFiniteSet(revisions[d])
    /\ \A d \in Designs \ lapped : WindowInv(d)
    /\ \A c \in Clients : req[c].design \notin lapped => TrimInv(c)

\* A save that was not lapped: it compared with the newest revision, which is still
\* the newest, and it adds the next one.
LEMMA UnlappedSave ==
    ASSUME Inv, HistoryNext, NEW c \in Clients, CommitRevision(c),
           req[c].design \notin lapped'
    PROVE  IsNewest(req[c].design, req[c].latest)
  <1> DEFINE d == req[c].design
  <1>1. d \in Designs /\ req[c].pc = "writing" /\ req'[c].pc = "committed"
    BY DEF CommitRevision, Inv, TypeOK, RequestInv, Writing, NoReq
  <1>2. ~Laps(d)
    BY <1>1 DEF HistoryNext
  <1> QED
    BY <1>1, <1>2 DEF Laps, Saves

LEMMA WindowMoves ==
    ASSUME Inv, LappedInv, NEW c \in Clients, CommitRevision(c),
           NEW d \in Designs \ lapped, req[c].design = d, IsNewest(d, req[c].latest)
    PROVE  /\ WindowInv(d)'
           /\ \A r \in revisions[d] : r.nr < NewRow(c).nr
  <1>1. d = req[c].design /\ Exists(d)
    BY DEF CommitRevision, Inv, RequestInv, Writing
  <1>2. PICK m \in revisions[d] : m = req[c].latest /\ IsNewest(d, m)
    BY <1>1 DEF IsNewest
  <1>3. PICK n : n = NewRow(c)
    OBVIOUS
  <1>4. /\ n \in Rows /\ m \in Rows /\ n.nr = m.nr + 1
        /\ m \in revisions'[d] /\ n \in revisions'[d]
    BY <1>1, <1>2, <1>3, CommitKeepsNewest
  <1>5. \A r \in revisions[d] : r \in Rows /\ r.nr <= m.nr
    BY <1>2 DEF IsNewest, Inv, TypeOK
  <1>6. /\ revisions'[d] = Kept(c) \union {n}
        /\ WindowInv(d) /\ IsFiniteSet(revisions[d]) /\ TrimInv(c)
        /\ \A r, s \in revisions[d] : r.nr = s.nr => r = s
    BY <1>1, <1>3 DEF CommitRevision, Inv, TypeOK, HistoryInv, LappedInv
  <1>7. n \notin revisions[d] /\ \A r \in revisions[d] : r.nr < n.nr
    BY <1>4, <1>5 DEF Rows
  <1>8. Kept(c) \subseteq revisions[d] /\ n \notin Kept(c)
        /\ \A r \in revisions'[d] : IsNewest(d, r)' => r = n
    <2>1. Kept(c) \subseteq revisions[d]
      BY <1>1 DEF Kept
    <2>2. \A r \in Kept(c) : ~(n.nr <= r.nr)
      BY <1>4, <1>5, <1>7, <2>1 DEF Rows
    <2> QED
      BY <1>4, <1>6, <1>7, <2>1, <2>2 DEF IsNewest
  <1>9. CASE m.nr >= MaxRevisions
    <2>1. PICK o \in revisions[d] : o = req[c].oldest /\ IsOldest(d, o) /\ o # None
      BY <1>1, <1>2, <1>6, <1>9 DEF TrimInv, Writing, CommitRevision, IsOldest
    <2>2. Kept(c) = revisions[d] \ {o}
      BY <1>1, <1>6, <2>1 DEF Kept
    <2>3. /\ IsFiniteSet(Kept(c))
          /\ Cardinality(Kept(c)) = Cardinality(revisions[d]) - 1
          /\ Cardinality(revisions[d]) \in Nat
      <3>1. Cardinality(revisions[d]) \in Nat
        BY <1>6, FS_CardinalityType
      <3>2. /\ IsFiniteSet(revisions[d] \ {o})
            /\ Cardinality(revisions[d] \ {o}) = Cardinality(revisions[d]) - 1
        BY <1>6, FS_RemoveElement
      <3> QED
        BY <2>2, <3>1, <3>2
    <2>5. Cardinality(revisions'[d]) = Cardinality(revisions[d])
      <3>1. Cardinality(Kept(c) \union {n}) = Cardinality(Kept(c)) + 1
        BY <1>8, <2>3, FS_AddElement
      <3> QED
        BY <1>6, <2>3, <3>1
    <2>6. \A r \in revisions'[d] : o.nr < r.nr
      <3>1. o.nr < n.nr /\ o \in Rows
        BY <1>5, <1>7, <2>1
      <3>2. \A r \in Kept(c) : r \in revisions[d] /\ r # o /\ o.nr <= r.nr /\ r \in Rows
        BY <1>5, <2>1, <2>2 DEF IsOldest
      <3>3. \A r \in Kept(c) : o.nr < r.nr
        BY <1>6, <2>1, <3>1, <3>2 DEF Rows
      <3> QED
        BY <1>6, <3>1, <3>3
    <2>7. ASSUME NEW a \in Nrs(d)', NEW b \in Nrs(d)', NEW k \in a..b PROVE k \in Nrs(d)'
      <3>1. a \in Nat /\ b \in Nat /\ o.nr \in Nat /\ o.nr < a /\ b <= n.nr /\ n.nr \in Nat
        <4>1. PICK r \in revisions'[d], s \in revisions'[d] : a = r.nr /\ b = s.nr
          BY <2>7 DEF Nrs
        <4>2. \A t \in revisions'[d] : t \in Rows /\ t.nr <= n.nr
          BY <1>4, <1>5, <1>6, <1>7, <1>8 DEF Rows
        <4> QED
          BY <1>4, <1>5, <2>1, <2>6, <4>1, <4>2 DEF Rows
      <3>2. CASE k = n.nr
        BY <1>4, <3>2 DEF Nrs
      <3>3. CASE k # n.nr
        <4>1. k \in o.nr..m.nr /\ k # o.nr
          BY <1>4, <2>7, <3>1, <3>3 DEF Rows
        <4>2. k \in Nrs(d)
          BY <1>2, <1>6, <2>1, <4>1 DEF WindowInv, IsWindow, Nrs
        <4>3. PICK r \in revisions[d] : r.nr = k
          BY <4>2 DEF Nrs
        <4> QED
          BY <1>6, <2>2, <4>1, <4>3 DEF Nrs
      <3> QED
        BY <3>2, <3>3
    <2>8. Cardinality(revisions[d]) <= MaxRevisions /\ Cardinality(revisions[d]) <= m.nr
      BY <1>2, <1>6 DEF WindowInv, IsWindow
    <2>9. Cardinality(revisions'[d]) <= n.nr
      BY <1>4, <2>3, <2>5, <2>8 DEF Rows
    <2>10. WindowInv(d)'
      BY <1>8, <2>5, <2>7, <2>8, <2>9 DEF WindowInv, IsWindow
    <2> QED
      BY <1>1, <1>3, <1>7, <2>10
  <1>10. CASE ~(m.nr >= MaxRevisions)
    <2>1. Kept(c) = revisions[d]
      BY <1>1, <1>2, <1>6, <1>10 DEF TrimInv, Writing, CommitRevision, Kept
    <2>2. /\ Cardinality(revisions'[d]) = Cardinality(revisions[d]) + 1
          /\ Cardinality(revisions[d]) \in Nat
      BY <1>6, <1>7, <2>1, FS_AddElement, FS_CardinalityType
    <2>3. Cardinality(revisions[d]) <= m.nr
      BY <1>2, <1>6 DEF WindowInv
    <2>4. Cardinality(revisions'[d]) <= n.nr /\ n.nr <= MaxRevisions
      BY <1>4, <1>10, <2>2, <2>3, LimitsAssumption DEF Rows
    <2>5. ASSUME NEW a \in Nrs(d)', NEW b \in Nrs(d)', NEW k \in a..b PROVE k \in Nrs(d)'
      <3>1. /\ a \in Nat /\ b \in Nat /\ a <= n.nr /\ b <= n.nr /\ n.nr \in Nat
            /\ a \in Nrs(d) \union {n.nr}
        BY <1>4, <1>5, <1>6, <1>7, <2>1 DEF Nrs, Rows
      <3>2. CASE k = n.nr
        BY <1>4, <3>2 DEF Nrs
      <3>3. CASE k # n.nr
        <4>1. a \in Nrs(d) /\ k \in a..m.nr
          BY <1>4, <2>5, <3>1, <3>3 DEF Rows
        <4>2. k \in Nrs(d)
          BY <1>2, <1>6, <4>1 DEF WindowInv, IsWindow, Nrs
        <4> QED
          BY <1>6, <2>1, <4>2 DEF Nrs
      <3> QED
        BY <3>2, <3>3
    <2>6. Cardinality(revisions'[d]) <= MaxRevisions
      BY <1>4, <2>2, <2>4, LimitsAssumption DEF Rows
    <2>7. WindowInv(d)'
      BY <1>8, <2>4, <2>5, <2>6 DEF WindowInv, IsWindow
    <2> QED
      BY <1>1, <1>3, <1>7, <2>7
  <1> QED
    BY <1>9, <1>10

LEMMA LappedInvNext ==
    ASSUME Inv, LappedInv, HistoryNext
    PROVE  LappedInv'
  <1>1. /\ Next /\ lapped \subseteq lapped'
        /\ req \in [Clients -> Requests] /\ revisions \in [Designs -> SUBSET Rows]
    BY DEF HistoryNext, Inv, TypeOK
  <1>2. ASSUME revisions' = revisions, NEW c \in Clients,
               \A o \in Clients \ {c} : req'[o] = req[o],
               req'[c].design \notin lapped' => TrimInv(c)'
        PROVE  LappedInv'
    <2>1. \A d \in Designs : WindowInv(d) => WindowInv(d)'
      BY <1>2 DEF WindowInv, IsWindow, Nrs, IsNewest
    <2>2. \A o \in Clients \ {c} : TrimInv(o) => TrimInv(o)'
      BY <1>2 DEF TrimInv, IsNewest, IsOldest
    <2> QED
      BY <1>1, <1>2, <2>1, <2>2 DEF LappedInv
  <1>3. ASSUME NEW c \in Clients, ReadLatest(c) PROVE LappedInv'
    <2> DEFINE d == req[c].design
    <2>1. PICK r \in revisions[d] :
             /\ IsNewest(d, r)
             /\ req' = [req EXCEPT
                   ![c].latest = r,
                   ![c].pc = IF r.doc = req[c].doc THEN "renaming"
                             ELSE IF r.nr >= MaxRevisions THEN "trimming"
                             ELSE "writing"]
      BY <1>3 DEF ReadLatest, Unchanged, HistoryFull
    <2>2. req[c].oldest = None /\ req[c] \in Requests
      BY <1>1, <1>3 DEF ReadLatest, Inv, RequestInv
    <2>3. /\ req'[c].latest = r /\ req'[c].oldest = None
          /\ req'[c].pc = "trimming" => r.nr >= MaxRevisions
          /\ req'[c].pc = "writing" => ~(r.nr >= MaxRevisions)
      BY <1>1, <2>1, <2>2 DEF Requests
    <2>4. TrimInv(c)'
      BY <2>3 DEF TrimInv
    <2> QED
      BY <1>1, <1>2, <1>3, <2>1, <2>4 DEF ReadLatest
  <1>4. ASSUME NEW c \in Clients, ReadOldest(c) PROVE LappedInv'
    <2>1. PICK r \in revisions[req[c].design] :
             /\ IsOldest(req[c].design, r)
             /\ req' = [req EXCEPT ![c].pc = "writing", ![c].oldest = r]
      BY <1>4 DEF ReadOldest
    <2>2. /\ req'[c].design = req[c].design /\ req'[c].latest = req[c].latest
          /\ req'[c].oldest = r /\ req'[c].pc = "writing"
      BY <1>1, <2>1 DEF Requests
    <2>3. req[c].design \in Designs /\ r # None /\ revisions' = revisions
          /\ req[c].pc = "trimming"
      BY <1>1, <1>4, NoneAssumption DEF ReadOldest, Inv, RequestInv, Rows
    <2>4. req[c].design \notin lapped => TrimInv(c)'
      BY <2>1, <2>2, <2>3 DEF LappedInv, TrimInv, IsNewest, IsOldest, Writing
    <2> QED
      BY <1>1, <1>2, <2>1, <2>2, <2>3, <2>4
  <1>5. ASSUME NEW c \in Clients,
               \/ CountDesigns(c) \/ OpenDesign(c) \/ SendDesign(c) \/ LoadForUpdate(c)
               \/ CommitEnvelope(c) \/ Respond(c) \/ Abort(c)
        PROVE  LappedInv'
    <2>1. req'[c].pc \notin Writing
      <3>1. CASE CountDesigns(c) \/ OpenDesign(c)
        BY <1>1, <3>1 DEF CountDesigns, OpenDesign, NoReq, Writing
      <3>2. CASE LoadForUpdate(c)
        BY <1>1, <3>2 DEF LoadForUpdate, NoReq, Writing
      <3>3. CASE CommitEnvelope(c)
        BY <1>1, <3>3 DEF CommitEnvelope, NoReq, Writing
      <3>4. CASE SendDesign(c) \/ Respond(c) \/ Abort(c)
        BY <1>1, <3>4 DEF SendDesign, Respond, Abort, NoReq, Writing
      <3> QED
        BY <1>5, <3>1, <3>2, <3>3, <3>4
    <2>2. \A o \in Clients \ {c} : req'[o] = req[o]
      BY <1>5, OthersWait DEF Step
    <2>3. revisions' = revisions
      BY <1>5 DEF CountDesigns, OpenDesign, SendDesign, LoadForUpdate, CommitEnvelope,
         Respond, Abort
    <2> QED
      BY <1>2, <2>1, <2>2, <2>3 DEF TrimInv
  <1>6. ASSUME NEW c \in Clients, InsertDesign(c) PROVE LappedInv'
    <2>1. PICK d \in Designs, doc \in Docs :
             /\ ~Exists(d)
             /\ revisions' = [revisions EXCEPT ![d] = {[nr |-> 1, doc |-> doc]}]
             /\ req'[c].pc = "committed"
      BY <1>1, <1>6 DEF InsertDesign, NoReq
    <2>2. /\ IsFiniteSet(revisions'[d]) /\ Cardinality(revisions'[d]) = 1
          /\ \A r \in revisions'[d] : r.nr = 1
      <3>1. PICK row : row = [nr |-> 1, doc |-> doc]
        OBVIOUS
      <3>2. revisions'[d] = {row} /\ row.nr = 1
        BY <1>1, <2>1, <3>1
      <3>3. IsFiniteSet({row}) /\ Cardinality({row}) = 1
        BY FS_Singleton
      <3> QED
        BY <3>2, <3>3
    <2>3. WindowInv(d)'
      BY <2>2, LimitsAssumption DEF WindowInv, IsWindow, Nrs, IsNewest
    <2>4. \A e \in Designs \ {d} : /\ revisions'[e] = revisions[e]
                                   /\ WindowInv(e) => WindowInv(e)'
      BY <1>1, <2>1 DEF WindowInv, IsWindow, Nrs, IsNewest
    <2>5. ASSUME NEW o \in Clients, req'[o].design \notin lapped' PROVE TrimInv(o)'
      <3>1. CASE o = c
        BY <2>1, <3>1 DEF TrimInv, Writing
      <3>2. CASE o # c
        <4>1. req'[o] = req[o]
          BY <1>6, <3>2, OthersWait DEF Step
        <4>2. CASE req[o].pc \in Writing
          <5>1. req[o].design \in Designs \ {d}
            BY <2>1, <4>2 DEF Inv, RequestInv, Writing
          <5> QED
            BY <1>1, <2>4, <2>5, <4>1, <5>1 DEF LappedInv, TrimInv, IsNewest, IsOldest
        <4> QED
          BY <4>1, <4>2 DEF TrimInv
      <3> QED
        BY <3>1, <3>2
    <2> QED
      BY <1>1, <2>2, <2>3, <2>4, <2>5 DEF LappedInv
  <1>7. ASSUME NEW c \in Clients, CommitRevision(c) PROVE LappedInv'
    <2>1. PICK d \in Designs : d = req[c].design /\ Exists(d)
      BY <1>7 DEF CommitRevision, Inv, RequestInv, Writing
    <2>2. /\ \A e \in Designs \ {d} : revisions'[e] = revisions[e]
          /\ revisions'[d] = Kept(c) \union {NewRow(c)}
          /\ req'[c].pc = "committed"
      BY <1>1, <1>7, <2>1 DEF CommitRevision, NoReq
    <2>3. IsFiniteSet(revisions'[d])
      <3>1. IsFiniteSet(revisions[d]) /\ Kept(c) \subseteq revisions[d]
        BY <2>1 DEF LappedInv, Kept
      <3> QED
        BY <2>2, <3>1, FS_Subset, FS_AddElement
    <2>4. \A e \in Designs \ {d} : WindowInv(e) => WindowInv(e)'
      BY <2>2 DEF WindowInv, IsWindow, Nrs, IsNewest
    <2>5. ASSUME d \notin lapped'
          PROVE  /\ IsNewest(d, req[c].latest) /\ WindowInv(d)'
                 /\ \A r \in revisions[d] : r.nr < NewRow(c).nr
      BY <1>1, <1>7, <2>1, <2>5, UnlappedSave, WindowMoves
    <2>6. ASSUME NEW o \in Clients, req'[o].design \notin lapped' PROVE TrimInv(o)'
      <3>1. CASE o = c
        BY <2>2, <3>1 DEF TrimInv, Writing
      <3>2. CASE o # c
        <4>1. req'[o] = req[o]
          BY <1>7, <3>2, OthersWait DEF Step
        <4>2. CASE req[o].pc \in Writing /\ req[o].design # d
          <5>1. req[o].design \in Designs \ {d}
            BY <4>2 DEF Inv, RequestInv, Writing
          <5> QED
            BY <1>1, <2>2, <2>6, <4>1, <5>1 DEF LappedInv, TrimInv, IsNewest, IsOldest
        <4>3. CASE req[o].pc \in Writing /\ req[o].design = d
          <5>1. PICK m \in revisions[d] : IsNewest(d, m)
            BY <2>1 DEF Inv, HistoryInv
          <5>2. m \in Rows /\ NewRow(c) \in Rows /\ m.nr < NewRow(c).nr
            BY <1>1, <1>7, <2>1, <2>5, <2>6, <4>1, <4>3, <5>1, CommitKeepsNewest
          <5>3. req[o].latest \in Rows /\ req[o].latest.nr <= m.nr
            <6>1. /\ req[o].latest \in Rows
                  /\ \E r \in revisions[d] : req[o].latest.nr <= r.nr
              BY <1>1, <4>3 DEF Inv, RequestInv, Writing, Passed, Rows
            <6> QED
              BY <1>1, <5>1, <5>2, <6>1 DEF IsNewest, Rows
          <5>4. ~(NewRow(c).nr <= req[o].latest.nr)
            BY <5>2, <5>3 DEF Rows
          <5>5. ~IsNewest(d, req[o].latest)'
            BY <2>2, <4>1, <5>4 DEF IsNewest
          <5> QED
            BY <4>1, <4>3, <5>5 DEF TrimInv
        <4> QED
          BY <4>1, <4>2, <4>3 DEF TrimInv
      <3> QED
        BY <3>1, <3>2
    <2> QED
      BY <1>1, <2>2, <2>3, <2>4, <2>5, <2>6 DEF LappedInv
  <1>8. ASSUME NEW d \in Designs, DeleteDesign(d) PROVE LappedInv'
    <2>1. UNCHANGED <<revisions, req>>
      BY <1>8 DEF DeleteDesign
    <2> QED
      BY <1>1, <2>1 DEF LappedInv, WindowInv, IsWindow, Nrs, TrimInv, IsNewest, IsOldest
  <1> QED
    BY <1>1, <1>3, <1>4, <1>5, <1>6, <1>7, <1>8 DEF Next, Step

LEMMA HistoryInvariance == HistorySpec => []Inv
  <1>1. HistoryInit => Init
    BY DEF HistoryInit
  <1>2. [HistoryNext]_HistoryVars => [Next]_vars
    BY DEF HistoryNext, HistoryVars, vars
  <1> QED
    BY <1>1, <1>2, InvInit, InvNext, PTL DEF HistorySpec

\* However saves interleave in update_design, and whatever is trimmed by rows read
\* before others committed: the history is a window of consecutive revisions, at most
\* MAX_REVISIONS_PER_DESIGN, unless a save has committed behind the newest one.
THEOREM WindowUnlessLappedHolds == HistorySpec => []WindowUnlessLapped
  <1>1. HistoryInit => LappedInv
    <2> SUFFICES ASSUME HistoryInit PROVE LappedInv
      OBVIOUS
    <2>1. \A d \in Designs : revisions[d] = {}
      BY DEF HistoryInit, Init
    <2>2. \A c \in Clients : req[c].pc = "idle"
      BY DEF HistoryInit, Init, NoReq
    <2>3. \A d \in Designs : IsFiniteSet(revisions[d]) /\ Cardinality(revisions[d]) = 0
      BY <2>1, FS_EmptySet
    <2>4. \A d \in Designs : WindowInv(d)
      BY <2>1, <2>3, LimitsAssumption DEF WindowInv, IsWindow, Nrs, IsNewest
    <2> QED
      BY <2>2, <2>3, <2>4 DEF LappedInv, TrimInv, Writing
  <1>2. Inv /\ LappedInv /\ [HistoryNext]_HistoryVars => LappedInv'
    <2>1. ASSUME LappedInv, UNCHANGED HistoryVars PROVE LappedInv'
      BY <2>1 DEF HistoryVars, vars, LappedInv, WindowInv, IsWindow, Nrs, TrimInv,
         IsNewest, IsOldest
    <2> QED
      BY <2>1, LappedInvNext
  <1>3. LappedInv => WindowUnlessLapped
    BY DEF LappedInv, WindowInv, WindowUnlessLapped
  <1> QED
    BY <1>1, <1>2, <1>3, HistoryInvariance, PTL DEF HistorySpec

--------------------------------------------------------------------------------
(* Requests that come one at a time *)

\* A tab whose version is current shows the newest revision.
TabTrue(c) ==
    tab[c] # None =>
        LET d == tab[c].design IN
        /\ Exists(d)
        /\ tab[c].version <= designs[d].version
        /\ tab[c].version = designs[d].version =>
              \A r \in revisions[d] : IsNewest(d, r) => r.nr = tab[c].nr

\* What the one request under way has read, and checked, is still so.
RequestTrue(c) ==
    LET q == req[c] IN
    /\ q.pc \in {"opening", "loaded", "renaming"} \union Writing =>
          q.row.version = designs[q.design].version
    /\ q.pc \in {"loaded"} \union Writing =>
          tab[c] # None /\ tab[c].design = q.design /\ tab[c].version = q.row.version
    /\ q.pc \in {"renaming", "committed"} \union Writing =>
          q.latest = None \/ IsNewest(q.design, q.latest)

AloneInv ==
    alone => /\ \A c, o \in InFlight : c = o
             /\ \A c \in Clients : TabTrue(c) /\ RequestTrue(c)

LEMMA AtMostOne ==
    ASSUME NEW S, IsFiniteSet(S), Cardinality(S) <= 1, NEW x \in S, NEW y \in S
    PROVE  x = y
  <1>1. Cardinality(S) \in Nat /\ Cardinality(S \ {x}) \in Nat /\ IsFiniteSet(S \ {x})
    BY FS_RemoveElement, FS_CardinalityType
  <1>2. Cardinality(S \ {x}) = Cardinality(S) - 1
    BY FS_RemoveElement
  <1>3. Cardinality(S \ {x}) = 0
    BY <1>1, <1>2
  <1> QED
    BY <1>1, <1>3, FS_EmptySet

\* Tabs see versions, existence and newest revisions, and nothing else.
LEMMA TabsStayTrue ==
    ASSUME TypeOK, NEW o \in Clients, TabTrue(o), tab'[o] = tab[o],
           NEW S \in SUBSET Designs, tab[o] # None => tab[o].design \in S,
           \A d \in S : /\ revisions'[d] = revisions[d]
                        /\ Exists(d) => Exists(d)' /\ designs'[d].version = designs[d].version
    PROVE  TabTrue(o)'
  BY DEF TabTrue, IsNewest

LEMMA AloneInvNext ==
    ASSUME Inv, AloneInv, HistoryNext
    PROVE  AloneInv'
  <1> SUFFICES ASSUME alone'
               PROVE  /\ \A c, o \in InFlight' : c = o
                      /\ \A c \in Clients : TabTrue(c)' /\ RequestTrue(c)'
    BY DEF AloneInv
  <1>1. /\ Next /\ Inv' /\ TypeOK /\ TypeOK'
        /\ \A c, o \in InFlight : c = o
        /\ \A c \in Clients : TabTrue(c) /\ RequestTrue(c)
        /\ Cardinality(InFlight') <= 1
    BY InvNext DEF HistoryNext, AloneInv, Inv
  <1>2. \A c, o \in InFlight' : c = o
    <2>1. InFlight' \subseteq Clients
      BY DEF InFlight
    <2>2. IsFiniteSet(InFlight')
      BY <2>1, IdentifiersAssumption, FS_Subset
    <2> QED
      BY <1>1, <2>2, AtMostOne
  <1>3. \A d \in Designs : Exists(d) => designs[d] \in Envelopes /\ Exists(d)'
    <2>1. None \notin Envelopes
      BY NoneAssumption DEF Envelopes
    <2> QED
      BY <1>1, <2>1, EnvelopesKept DEF Exists, TypeOK
  <1>4. \A o \in Clients : tab[o] # None => /\ tab[o] \in [design : Designs, version : Nat, nr : Nat]
                                            /\ Exists(tab[o].design)
    BY <1>1 DEF TypeOK, TabTrue
  <1>5. ASSUME revisions' = revisions, tab' = tab,
               \A d \in Designs : Exists(d) => designs'[d].version = designs[d].version
        PROVE  \A o \in Clients : TabTrue(o)'
    BY <1>1, <1>3, <1>4, <1>5, TabsStayTrue
  <1>6. ASSUME NEW d \in Designs, NEW r, NEW s, IsNewest(d, r), IsNewest(d, s)
        PROVE  r.nr = s.nr
    <2>1. r.nr \in Nat /\ s.nr \in Nat
      BY <1>1, <1>6 DEF TypeOK, IsNewest, Rows
    <2>2. r.nr <= s.nr /\ s.nr <= r.nr
      BY <1>6 DEF IsNewest
    <2> QED
      BY <2>1, <2>2
  <1>7. ASSUME NEW c \in Clients, Step(c)
        PROVE  \A o \in Clients \ {c} : req'[o].pc = "idle"
    <2>1. req[c].pc # "idle" \/ req'[c].pc # "idle"
      <3>1. CASE CountDesigns(c) \/ OpenDesign(c)
        BY <1>1, <3>1 DEF CountDesigns, OpenDesign, TypeOK, NoReq
      <3>2. CASE LoadForUpdate(c)
        BY <1>1, <3>2 DEF LoadForUpdate, TypeOK, NoReq
      <3> QED
        BY <1>7, <3>1, <3>2 DEF Step, InsertDesign, SendDesign, ReadLatest, ReadOldest,
           CommitRevision, CommitEnvelope, Respond, Abort
    <2> QED
      BY <1>1, <1>2, <1>7, <2>1, OthersWait DEF InFlight
  <1>8. ASSUME NEW c \in Clients, Step(c), RequestTrue(c)', \A o \in Clients : TabTrue(o)'
        PROVE  \A o \in Clients : TabTrue(o)' /\ RequestTrue(o)'
    BY <1>7, <1>8 DEF RequestTrue, Writing
  <1>9. ASSUME NEW c \in Clients, CountDesigns(c) \/ Abort(c)
        PROVE  \A o \in Clients : TabTrue(o)' /\ RequestTrue(o)'
    <2>1. req'[c].pc \in {"counted", "idle"}
      BY <1>1, <1>9 DEF CountDesigns, Abort, TypeOK, NoReq
    <2>2. \A o \in Clients : TabTrue(o)'
      BY <1>5, <1>9 DEF CountDesigns, Abort
    <2> QED
      BY <1>8, <1>9, <2>1, <2>2 DEF Step, RequestTrue, Writing
  <1>10. ASSUME NEW c \in Clients, InsertDesign(c)
         PROVE  \A o \in Clients : TabTrue(o)' /\ RequestTrue(o)'
    <2>1. PICK d \in Designs, name \in Names, doc \in Docs :
             /\ ~Exists(d)
             /\ designs' = [designs EXCEPT ![d] =
                               [version |-> 1, name |-> name, deleted |-> FALSE]]
             /\ revisions' = [revisions EXCEPT ![d] = {[nr |-> 1, doc |-> doc]}]
             /\ req' = [req EXCEPT ![c] =
                           [NoReq EXCEPT !.pc = "committed", !.design = d,
                                         !.latest = [nr |-> 1, doc |-> doc]]]
      BY <1>10 DEF InsertDesign
    <2>2. /\ req'[c].pc = "committed" /\ req'[c].design = d
          /\ req'[c].latest = [nr |-> 1, doc |-> doc]
      BY <1>1, <2>1 DEF TypeOK, NoReq
    <2>3. revisions'[d] = {[nr |-> 1, doc |-> doc]}
      BY <1>1, <2>1 DEF TypeOK
    <2>4. RequestTrue(c)'
      BY <2>2, <2>3 DEF RequestTrue, Writing, IsNewest
    <2>5. \A e \in Designs \ {d} : revisions'[e] = revisions[e] /\ designs'[e] = designs[e]
      BY <1>1, <2>1 DEF TypeOK
    <2>6. ASSUME NEW o \in Clients PROVE TabTrue(o)'
      <3>1. tab[o] # None => tab[o].design \in Designs \ {d}
        BY <1>4, <2>1
      <3>2. tab'[o] = tab[o]
        BY <1>10 DEF InsertDesign
      <3>3. \A e \in Designs \ {d} :
               /\ revisions'[e] = revisions[e]
               /\ Exists(e) => Exists(e)' /\ designs'[e].version = designs[e].version
        BY <1>3, <2>5
      <3> HIDE DEF TabTrue
      <3> QED
        BY <1>1, <3>1, <3>2, <3>3, TabsStayTrue
    <2> QED
      BY <1>8, <1>10, <2>4, <2>6 DEF Step
  <1>11. ASSUME NEW c \in Clients, OpenDesign(c)
         PROVE  \A o \in Clients : TabTrue(o)' /\ RequestTrue(o)'
    <2>1. PICK d \in Live :
             req' = [req EXCEPT ![c] = [NoReq EXCEPT !.pc = "opening", !.design = d,
                                                     !.row = Snapshot(d)]]
      BY <1>11 DEF OpenDesign
    <2>2. req'[c].pc = "opening" /\ req'[c].row.version = designs'[req'[c].design].version
      BY <1>1, <1>11, <2>1 DEF OpenDesign, TypeOK, NoReq, Snapshot
    <2>3. \A o \in Clients : TabTrue(o)'
      BY <1>5, <1>11 DEF OpenDesign
    <2> QED
      BY <1>8, <1>11, <2>2, <2>3 DEF Step, RequestTrue, Writing
  <1>12. ASSUME NEW c \in Clients, LoadForUpdate(c)
         PROVE  \A o \in Clients : TabTrue(o)' /\ RequestTrue(o)'
    <2>1. PICK d \in Live, name \in Names \union {None}, doc \in Docs \union {None} :
             /\ doc # None => IfMatchPasses(c, d)
             /\ req' = [req EXCEPT ![c] =
                           [NoReq EXCEPT
                               !.pc = IF doc = None THEN "renaming" ELSE "loaded",
                               !.design = d, !.name = name, !.doc = doc,
                               !.row = Snapshot(d)]]
      BY <1>12 DEF LoadForUpdate
    <2>2. UNCHANGED <<designs, revisions, tab>>
      BY <1>12 DEF LoadForUpdate
    <2>3. /\ req'[c].pc = IF doc = None THEN "renaming" ELSE "loaded"
          /\ req'[c].design = d /\ req'[c].latest = None
          /\ req'[c].row.version = designs[d].version
      BY <1>1, <2>1 DEF TypeOK, NoReq, Snapshot
    <2>4. RequestTrue(c)'
      BY <2>1, <2>2, <2>3 DEF RequestTrue, Writing, IfMatchPasses
    <2>5. \A o \in Clients : TabTrue(o)'
      BY <1>5, <2>2
    <2> QED
      BY <1>8, <1>12, <2>4, <2>5 DEF Step
  <1>13. ASSUME NEW c \in Clients, ReadLatest(c) \/ ReadOldest(c)
         PROVE  \A o \in Clients : TabTrue(o)' /\ RequestTrue(o)'
    <2>1. UNCHANGED <<designs, revisions, tab>> /\ req[c] \in Requests /\ RequestTrue(c)
          /\ req[c].pc \in {"loaded", "trimming"}
      BY <1>1, <1>13 DEF ReadLatest, ReadOldest, TypeOK, Unchanged
    <2>2. /\ req'[c].design = req[c].design /\ req'[c].row = req[c].row
          /\ req'[c].pc \in {"renaming"} \union Writing
          /\ req'[c].latest = None \/ IsNewest(req[c].design, req'[c].latest)
      <3>1. CASE ReadLatest(c)
        BY <1>1, <2>1, <3>1 DEF ReadLatest, TypeOK, Unchanged, HistoryFull, Writing, Requests
      <3>2. CASE ReadOldest(c)
        BY <1>1, <2>1, <3>2 DEF ReadOldest, TypeOK, RequestTrue, Writing, Requests
      <3> QED
        BY <1>13, <3>1, <3>2
    <2>3. RequestTrue(c)'
      BY <2>1, <2>2 DEF RequestTrue, Writing, IsNewest
    <2>4. \A o \in Clients : TabTrue(o)'
      BY <1>5, <2>1
    <2> QED
      BY <1>8, <1>13, <2>3, <2>4 DEF Step
  <1>14. ASSUME NEW c \in Clients, SendDesign(c) \/ Respond(c)
         PROVE  \A o \in Clients : TabTrue(o)' /\ RequestTrue(o)'
    <2>1. PICK d \in Designs : d = req[c].design /\ Exists(d)
      BY <1>14 DEF SendDesign, Respond, Inv, RequestInv
    <2>2. UNCHANGED <<designs, revisions>> /\ req'[c].pc = "idle"
      BY <1>1, <1>14 DEF SendDesign, Respond, TypeOK, NoReq
    <2>3. \A o \in Clients \ {c} : tab'[o] = tab[o]
      BY <1>1, <1>14 DEF SendDesign, Respond, TypeOK
    <2>4. \/ tab'[c] = tab[c]
          \/ \E r : /\ IsNewest(d, r)
                    /\ tab'[c] = [design |-> d, version |-> designs[d].version, nr |-> r.nr]
      <3>1. CASE SendDesign(c)
        <4>1. req[c].row.version = designs[d].version
          BY <1>1, <2>1, <3>1 DEF SendDesign, RequestTrue
        <4> QED
          BY <1>1, <2>1, <3>1, <4>1 DEF SendDesign, TypeOK
      <3>2. CASE Respond(c)
        BY <1>1, <2>1, <3>2 DEF Respond, TypeOK, RequestTrue
      <3> QED
        BY <1>14, <3>1, <3>2
    <2>5. ASSUME NEW o \in Clients, tab'[o] = tab[o] PROVE TabTrue(o)'
      BY <1>1, <1>4, <1>3, <2>2, <2>5, TabsStayTrue
    <2>6. ASSUME NEW r, IsNewest(d, r),
                 tab'[c] = [design |-> d, version |-> designs[d].version, nr |-> r.nr]
          PROVE  TabTrue(c)'
      <3>1. designs[d].version \in Nat /\ Exists(d)'
        BY <1>3, <2>1 DEF Envelopes
      <3>2. \A s \in revisions'[d] : IsNewest(d, s) => s.nr = r.nr
        BY <1>6, <2>2, <2>6
      <3>3. tab'[c].design = d /\ tab'[c].version = designs'[d].version /\ tab'[c].nr = r.nr
        BY <2>2, <2>6
      <3> QED
        BY <2>2, <3>1, <3>2, <3>3 DEF TabTrue, IsNewest
    <2>7. \A o \in Clients : TabTrue(o)'
      BY <2>3, <2>4, <2>5, <2>6
    <2> QED
      BY <1>8, <1>14, <2>2, <2>7 DEF Step, RequestTrue, Writing
  <1>15. ASSUME NEW c \in Clients, CommitRevision(c)
         PROVE  \A o \in Clients : TabTrue(o)' /\ RequestTrue(o)'
    <2>1. PICK d \in Designs : d = req[c].design /\ Exists(d)
      BY <1>15 DEF CommitRevision, Inv, RequestInv, Writing
    <2>2. /\ RequestTrue(c) /\ req[c].pc = "writing" /\ req[c].latest \in Rows
          /\ req[c].latest # None
      BY <1>1, <1>15, NoneAssumption DEF CommitRevision, Inv, RequestInv, Writing, Rows
    <2>3. PICK m \in revisions[d] : m = req[c].latest /\ IsNewest(d, m)
      BY <2>1, <2>2 DEF RequestTrue, Writing, IsNewest
    <2>4. PICK n : n = NewRow(c)
      OBVIOUS
    <2>5. /\ n \in Rows /\ m \in Rows /\ n.nr = m.nr + 1 /\ n \in revisions'[d]
          /\ revisions'[d] \subseteq revisions[d] \union {n}
      BY <1>15, <2>1, <2>3, <2>4, CommitKeepsNewest
    <2>6. IsNewest(d, n)'
      <3>1. \A r \in revisions[d] : r \in Rows /\ r.nr <= m.nr
        BY <1>1, <2>3 DEF IsNewest, TypeOK
      <3> QED
        BY <2>5, <3>1 DEF IsNewest, Rows
    <2>7. req'[c].pc = "committed" /\ req'[c].design = d /\ req'[c].latest = n
      BY <1>1, <1>15, <2>1, <2>4 DEF CommitRevision, TypeOK, NoReq
    <2>8. RequestTrue(c)'
      BY <2>6, <2>7 DEF RequestTrue, Writing
    <2>9. /\ designs'[d].version = designs[d].version + 1
          /\ designs[d].version \in Nat
          /\ \A e \in Designs \ {d} : revisions'[e] = revisions[e] /\ designs'[e] = designs[e]
          /\ tab' = tab
      BY <1>1, <1>3, <1>15, <2>1, <2>2
      DEF CommitRevision, VersionAfter, RequestTrue, Writing, TypeOK, Envelopes
    <2>10. ASSUME NEW o \in Clients PROVE TabTrue(o)'
      <3>1. CASE tab[o] # None /\ tab[o].design = d
        BY <1>1, <1>3, <1>4, <2>1, <2>9, <3>1 DEF TabTrue
      <3>2. CASE tab[o] # None => tab[o].design \in Designs \ {d}
        BY <1>1, <1>3, <2>9, <3>2, TabsStayTrue
      <3> QED
        BY <1>4, <3>1, <3>2
    <2> QED
      BY <1>8, <1>15, <2>8, <2>10 DEF Step
  <1>16. ASSUME NEW c \in Clients, CommitEnvelope(c)
         PROVE  \A o \in Clients : TabTrue(o)' /\ RequestTrue(o)'
    <2>1. PICK d \in Designs : d = req[c].design /\ Exists(d)
      BY <1>16 DEF CommitEnvelope, Inv, RequestInv
    <2>2. \A e \in Designs : Exists(e) => designs'[e].version = designs[e].version
      BY <1>1, <1>3, <1>16, <2>1 DEF CommitEnvelope, TypeOK, Envelopes
    <2>3. /\ req'[c].pc = "committed" /\ req'[c].design = d /\ req'[c].latest = req[c].latest
          /\ revisions' = revisions /\ tab' = tab
      BY <1>1, <1>16, <2>1 DEF CommitEnvelope, TypeOK, NoReq
    <2>4. req[c].latest = None \/ IsNewest(d, req[c].latest)
      BY <1>1, <1>16, <2>1 DEF CommitEnvelope, RequestTrue
    <2>5. RequestTrue(c)'
      BY <2>3, <2>4 DEF RequestTrue, Writing, IsNewest
    <2>6. \A o \in Clients : TabTrue(o)'
      BY <1>5, <2>2, <2>3
    <2> QED
      BY <1>8, <1>16, <2>5, <2>6 DEF Step
  <1>17. ASSUME NEW d \in Designs, DeleteDesign(d)
         PROVE  \A o \in Clients : TabTrue(o)' /\ RequestTrue(o)'
    <2>1. UNCHANGED <<revisions, req, tab>>
      BY <1>17 DEF DeleteDesign
    <2>2. \A e \in Designs : Exists(e) => designs'[e].version = designs[e].version
      BY <1>1, <1>3, <1>17 DEF DeleteDesign, TypeOK, Envelopes
    <2>3. ASSUME NEW o \in Clients PROVE RequestTrue(o)'
      <3>1. req[o].pc \in {"opening", "loaded", "renaming"} \union Writing =>
               req[o].design \in Designs /\ Exists(req[o].design)
        BY DEF Inv, RequestInv, Writing
      <3> QED
        BY <1>1, <2>1, <2>2, <3>1 DEF RequestTrue, IsNewest
    <2> QED
      BY <1>5, <2>1, <2>2, <2>3
  <1> QED
    BY <1>1, <1>2, <1>9, <1>10, <1>11, <1>12, <1>13, <1>14, <1>15, <1>16, <1>17
    DEF Next, Step

\* If requests come one at a time, the If-Match protocol of update_design keeps what
\* designs.py promises of it, for any number of tabs and designs: no save replaces a
\* document its client has not been shown.
THEOREM NoOverwriteAloneHolds == HistorySpec => NoOverwriteAlone
  <1>1. HistoryInit => AloneInv
    BY DEF HistoryInit, Init, AloneInv, InFlight, TabTrue, RequestTrue, NoReq, Writing
  <1>2. Inv /\ AloneInv /\ [HistoryNext]_HistoryVars => AloneInv'
    <2>1. ASSUME AloneInv, UNCHANGED HistoryVars PROVE AloneInv'
      BY <2>1 DEF HistoryVars, vars, AloneInv, InFlight, TabTrue, RequestTrue, Exists,
         IsNewest
    <2> QED
      BY <2>1, AloneInvNext
  <1>3. Inv /\ AloneInv /\ [HistoryNext]_HistoryVars
           => [alone' => \A c \in Clients : Saves(c) => SavesWhatItSaw(c)]_HistoryVars
    <2> SUFFICES ASSUME Inv, AloneInv, HistoryNext, alone', NEW c \in Clients, Saves(c)
                 PROVE  SavesWhatItSaw(c)
      OBVIOUS
    <2>1. RequestTrue(c) /\ TabTrue(c) /\ req[c].pc = "writing"
      BY DEF HistoryNext, AloneInv, Saves
    <2> QED
      BY <2>1 DEF RequestTrue, TabTrue, Writing, SavesWhatItSaw
  <1> QED
    BY <1>1, <1>2, <1>3, HistoryInvariance, PTL DEF HistorySpec, NoOverwriteAlone
================================================================================
