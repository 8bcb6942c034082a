------------------------------ MODULE DesignStore ------------------------------
(***************************************************************************)
(* The designs of one owner: app/backend/accounts/routers/designs.py over  *)
(* the tables designs and design_revisions.                                *)
(*                                                                         *)
(* Handlers are plain functions, so requests run at the same time in a     *)
(* thread pool, each with a database session of its own under READ         *)
(* COMMITTED and without a SELECT ... FOR UPDATE.  A request is therefore  *)
(* a sequence of steps, one per query it sends; what it has read so far is *)
(* in req[c].  The ORM keeps its writes until the commit, so a commit is   *)
(* one step.  A violated primary key, a deadlock victim, a dropped         *)
(* connection or a crash rolls the transaction back: Abort.                *)
(***************************************************************************)
EXTENDS Naturals, FiniteSets

CONSTANTS
    Designs,        \* identifiers handed out by gen_random_uuid()
    Clients,        \* browser tabs, each with at most one request under way
    Docs,           \* MAS documents, told apart by _canonical_hash
    Names,          \* design names that are not empty after strip()
    None,           \* absent value
    MaxDesigns,     \* MAX_DESIGNS_PER_USER
    MaxRevisions,   \* MAX_REVISIONS_PER_DESIGN
    MaxInFlight,    \* connections of the pool: pool_size + max_overflow
    RevisionBound   \* the model's cap on revision numbers

ASSUME IdentifiersAssumption ==
    /\ IsFiniteSet(Designs)
    /\ IsFiniteSet(Clients)
ASSUME LimitsAssumption ==
    /\ MaxDesigns \in Nat \ {0}
    /\ MaxRevisions \in Nat \ {0, 1}
    /\ MaxInFlight \in Nat \ {0}
    /\ RevisionBound \in Nat
ASSUME NoneAssumption ==
    /\ None \notin [version : Nat, name : Names, deleted : BOOLEAN]
    /\ None \notin [version : Nat, name : Names]
    /\ None \notin [nr : Nat, doc : Docs]
    /\ None \notin Docs
    /\ None \notin Names
    /\ None \notin Designs

VARIABLES
    designs,    \* table designs: envelope by id, None when there is no row
    revisions,  \* table design_revisions: the rows of each design
    req,        \* the request each client has under way
    tab         \* what each client shows: design, its version, its revision

vars == <<designs, revisions, req, tab>>

Envelopes == [version : Nat, name : Names, deleted : BOOLEAN]
Snapshots == [version : Nat, name : Names]
Rows == [nr : Nat, doc : Docs]

Stages == {"idle", "counted", "opening", "loaded", "trimming", "writing",
           "renaming", "committed"}

Requests == [pc : Stages, design : Designs \union {None},
             name : Names \union {None}, doc : Docs \union {None},
             row : Snapshots \union {None},
             latest : Rows \union {None}, oldest : Rows \union {None}]

NoReq == [pc |-> "idle", design |-> None, name |-> None, doc |-> None,
          row |-> None, latest |-> None, oldest |-> None]

--------------------------------------------------------------------------------
(* Queries *)

Exists(d) == designs[d] # None

Visible(d) == Exists(d) /\ ~designs[d].deleted

Live == {d \in Designs : Visible(d)}

Nrs(d) == {r.nr : r \in revisions[d]}

IsNewest(d, r) == r \in revisions[d] /\ \A s \in revisions[d] : s.nr <= r.nr

IsOldest(d, r) == r \in revisions[d] /\ \A s \in revisions[d] : s.nr >= r.nr

Snapshot(d) == [version |-> designs[d].version, name |-> designs[d].name]

InFlight == {c \in Clients : req[c].pc # "idle"}

\* A request takes a connection from the pool at its first query and holds it
\* until the session is closed.
CanStart(c) ==
    /\ req[c].pc = "idle"
    /\ Cardinality(InFlight) < MaxInFlight

--------------------------------------------------------------------------------
(* POST /designs *)

\* Mutant: the limit is tested with > instead of >=.
LimitReached_OffByOne == Cardinality(Live) > MaxDesigns

LimitReached == Cardinality(Live) >= MaxDesigns

CountDesigns(c) ==
    /\ CanStart(c)
    /\ ~LimitReached
    /\ req' = [req EXCEPT ![c] = [NoReq EXCEPT !.pc = "counted"]]
    /\ UNCHANGED <<designs, revisions, tab>>

InsertDesign(c) ==
    /\ req[c].pc = "counted"
    /\ \E d \in Designs, name \in Names, doc \in Docs :
          /\ ~Exists(d)
          /\ designs' = [designs EXCEPT ![d] =
                            [version |-> 1, name |-> name, deleted |-> FALSE]]
          /\ revisions' = [revisions EXCEPT ![d] = {[nr |-> 1, doc |-> doc]}]
          /\ req' = [req EXCEPT ![c] =
                        [NoReq EXCEPT !.pc = "committed", !.design = d,
                                      !.latest = [nr |-> 1, doc |-> doc]]]
    /\ UNCHANGED tab

--------------------------------------------------------------------------------
(* GET /designs/{id}: the envelope and then, in a query of its own, the    *)
(* newest revision.                                                        *)

OpenDesign(c) ==
    /\ CanStart(c)
    /\ \E d \in Live :
          req' = [req EXCEPT ![c] =
                     [NoReq EXCEPT !.pc = "opening", !.design = d,
                                   !.row = Snapshot(d)]]
    /\ UNCHANGED <<designs, revisions, tab>>

SendDesign(c) ==
    /\ req[c].pc = "opening"
    /\ \E r \in revisions[req[c].design] :
          /\ IsNewest(req[c].design, r)
          /\ tab' = [tab EXCEPT ![c] =
                        [design |-> req[c].design, version |-> req[c].row.version,
                         nr |-> r.nr]]
    /\ req' = [req EXCEPT ![c] = NoReq]
    /\ UNCHANGED <<designs, revisions>>

--------------------------------------------------------------------------------
(* PUT /designs/{id} *)

\* Mutant: the header is required but not compared.
IfMatchPasses_Unchecked(c, d) ==
    /\ tab[c] # None
    /\ tab[c].design = d

\* The header If-Match carries the version the tab shows.  A request that finds
\* another version in the row ends here with a 409 and changes nothing.
IfMatchPasses(c, d) ==
    /\ tab[c] # None
    /\ tab[c].design = d
    /\ tab[c].version = designs[d].version

\* Reads the design's row and checks If-Match against it.  A body without a
\* document is a rename and needs no If-Match.
LoadForUpdate(c) ==
    /\ CanStart(c)
    /\ \E d \in Live, name \in Names \union {None}, doc \in Docs \union {None} :
          /\ doc # None => IfMatchPasses(c, d)
          /\ req' = [req EXCEPT ![c] =
                        [NoReq EXCEPT
                            !.pc = IF doc = None THEN "renaming" ELSE "loaded",
                            !.design = d, !.name = name, !.doc = doc,
                            !.row = Snapshot(d)]]
    /\ UNCHANGED <<designs, revisions, tab>>

\* Mutant: the history is trimmed one revision too late.
HistoryFull_OffByOne(r) == r.nr > MaxRevisions

HistoryFull(r) == r.nr >= MaxRevisions

\* Mutant: documents are compared as they came, not by their canonical hash.
Unchanged_Raw(r, doc) == FALSE

\* The content hashes are equal.
Unchanged(r, doc) == r.doc = doc

\* Reads the newest revision: an identical document leaves only the envelope
\* to write, a full history makes the request look for its oldest row as well.
ReadLatest(c) ==
    LET d == req[c].design IN
    /\ req[c].pc = "loaded"
    /\ \E r \in revisions[d] :
          /\ IsNewest(d, r)
          /\ req' = [req EXCEPT
                ![c].latest = r,
                ![c].pc = IF Unchanged(r, req[c].doc) THEN "renaming"
                          ELSE IF HistoryFull(r) THEN "trimming"
                          ELSE "writing"]
    /\ UNCHANGED <<designs, revisions, tab>>

ReadOldest(c) ==
    /\ req[c].pc = "trimming"
    /\ \E r \in revisions[req[c].design] :
          /\ IsOldest(req[c].design, r)
          /\ req' = [req EXCEPT ![c].pc = "writing", ![c].oldest = r]
    /\ UNCHANGED <<designs, revisions, tab>>

NewRow(c) == [nr |-> req[c].latest.nr + 1, doc |-> req[c].doc]

\* Mutant: the whole row that was loaded is written back.
NameAfter_WholeRow(c) ==
    IF req[c].name = None THEN req[c].row.name ELSE req[c].name

\* The ORM updates the columns whose value differs from the one it loaded.
NameAfter(c) ==
    IF req[c].name \in {None, req[c].row.name}
    THEN designs[req[c].design].name
    ELSE req[c].name

\* Mutant: the version is incremented by the database, not from the row loaded.
VersionAfter_InDatabase(c) == designs[req[c].design].version + 1

VersionAfter(c) == req[c].row.version + 1

\* An INSERT needs a free primary key.  When the row to delete has the key of
\* the row to insert, the ORM updates that row in place, which must still exist.
KeyAccepted(c) ==
    LET nr == NewRow(c).nr IN
    IF req[c].oldest # None /\ req[c].oldest.nr = nr
    THEN nr \in Nrs(req[c].design)
    ELSE nr \notin Nrs(req[c].design)

\* The row read as oldest is deleted by its key; finding it gone is no error.
Kept(c) ==
    {r \in revisions[req[c].design] :
        req[c].oldest # None => r.nr # req[c].oldest.nr}

CommitRevision(c) ==
    LET d == req[c].design IN
    /\ req[c].pc = "writing"
    /\ req[c].latest.nr < RevisionBound
    /\ KeyAccepted(c)
    /\ revisions' = [revisions EXCEPT ![d] = Kept(c) \union {NewRow(c)}]
    /\ designs' = [designs EXCEPT ![d].version = VersionAfter(c),
                                  ![d].name = NameAfter(c)]
    /\ req' = [req EXCEPT ![c] = [NoReq EXCEPT !.pc = "committed", !.design = d,
                                               !.latest = NewRow(c)]]
    /\ UNCHANGED tab

\* A rename, or a save of the document the newest revision already has.
CommitEnvelope(c) ==
    LET d == req[c].design IN
    /\ req[c].pc = "renaming"
    /\ designs' = [designs EXCEPT ![d].name = NameAfter(c)]
    /\ req' = [req EXCEPT ![c] = [NoReq EXCEPT !.pc = "committed", !.design = d,
                                               !.latest = req[c].latest]]
    /\ UNCHANGED <<revisions, tab>>

\* db.refresh reads the row again after the commit and the response carries
\* what it finds.  The client goes on from there, except after a rename, whose
\* response says nothing about the document it shows.
Respond(c) ==
    LET d == req[c].design IN
    /\ req[c].pc = "committed"
    /\ tab' = IF req[c].latest = None THEN tab
              ELSE [tab EXCEPT ![c] = [design |-> d, version |-> designs[d].version,
                                       nr |-> req[c].latest.nr]]
    /\ req' = [req EXCEPT ![c] = NoReq]
    /\ UNCHANGED <<designs, revisions>>

--------------------------------------------------------------------------------
(* DELETE /designs/{id}, and failures *)

\* The row is read and marked; nothing read before the commit matters to it.
DeleteDesign(d) ==
    /\ Visible(d)
    /\ designs' = [designs EXCEPT ![d].deleted = TRUE]
    /\ UNCHANGED <<revisions, req, tab>>

\* An exception, a lost connection or a crash: what the request had not
\* committed is rolled back and the client sees an error, or nothing.
Abort(c) ==
    /\ req[c].pc # "idle"
    /\ req' = [req EXCEPT ![c] = NoReq]
    /\ UNCHANGED <<designs, revisions, tab>>

--------------------------------------------------------------------------------

Init ==
    /\ designs = [d \in Designs |-> None]
    /\ revisions = [d \in Designs |-> {}]
    /\ req = [c \in Clients |-> NoReq]
    /\ tab = [c \in Clients |-> None]

Step(c) ==
    \/ CountDesigns(c)
    \/ InsertDesign(c)
    \/ OpenDesign(c)
    \/ SendDesign(c)
    \/ LoadForUpdate(c)
    \/ ReadLatest(c)
    \/ ReadOldest(c)
    \/ CommitRevision(c)
    \/ CommitEnvelope(c)
    \/ Respond(c)
    \/ Abort(c)

Next ==
    \/ \E c \in Clients : Step(c)
    \/ \E d \in Designs : DeleteDesign(d)

Spec == Init /\ [][Next]_vars

--------------------------------------------------------------------------------
(* Properties *)

\* Every variable has its type.
TypeOK ==
    /\ designs \in [Designs -> Envelopes \union {None}]
    /\ revisions \in [Designs -> SUBSET Rows]
    /\ req \in [Clients -> Requests]
    /\ tab \in [Clients -> [design : Designs, version : Nat, nr : Nat] \union {None}]

\* The version clients compare with If-Match never runs ahead of the history:
\* whatever saves race in update_design, some revision is numbered at least as
\* high, so a design always has a document to show (the "data integrity error"
\* of _latest_revision cannot happen).
VersionNeverAhead ==
    \A d \in Designs : Exists(d) =>
        \E r \in revisions[d] : designs[d].version <= r.nr

Counted == {c \in Clients : req[c].pc = "counted"}

\* create_design counts and inserts in two steps, so requests that counted
\* together pass the limit together.  Designs and requests let through overshoot
\* it by no more than the requests the connection pool lets run at once.
QuotaOvershootBounded ==
    Cardinality(Live) + Cardinality(Counted) <= MaxDesigns - 1 + MaxInFlight

\* A design's name changes only in the commit of a request for that name.
RenamesOnRequest ==
    \A d \in Designs :
        Exists(d) /\ designs'[d].name # designs[d].name
            => \E c \in Clients : /\ req[c].design = d
                                 /\ req[c].name = designs'[d].name
                                 /\ req'[c].pc = "committed"

\* A save takes the row it loaded through the whole handler, yet it never puts
\* back a name another request has replaced meanwhile: a name changes only to
\* the name the committing request asked for.
NameChangesOnlyOnRequest == [][RenamesOnRequest]_vars

\* The head of a design: its newest revision.
Head(d) ==
    IF revisions[d] = {} THEN None ELSE CHOOSE r \in revisions[d] : IsNewest(d, r)

Log == INSTANCE DesignLog WITH head <- [d \in Designs |-> Head(d)], live <- Live

\* The store implements the log: the newest revision is only ever replaced by
\* the next one, with a different document, whatever saves race, rotate the
\* history or fail half way.
ImplementsLog == Log!Spec

\* A request commits a new revision of its design.
Saves(c) == req[c].pc = "writing" /\ req'[c].pc = "committed"

\* The newest revision at the commit is the one in the client's tab.
SavesWhatItSaw(c) ==
    \A r \in revisions[req[c].design] :
        IsNewest(req[c].design, r) => r.nr = tab[c].nr

\* "PUT requires If-Match: <version>; a stale version gets 409 with the current
\* version so the client can offer reload/overwrite": a save that wins no race
\* (nobody has committed to the design since the request checked If-Match)
\* replaces the document its client was shown.
NoSilentOverwrite ==
    [][\A c \in Clients :
          LET d == req[c].design IN
          Saves(c) /\ req[c].row = Snapshot(d) /\ IsNewest(d, req[c].latest)
              => SavesWhatItSaw(c)]_vars

\* The history is a rolling window: consecutive numbers, MaxRevisions at most.
IsWindow(d) ==
    /\ Cardinality(revisions[d]) <= MaxRevisions
    /\ \A m, n \in Nrs(d) : m..n \subseteq Nrs(d)
================================================================================
