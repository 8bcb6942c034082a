------------------------------- MODULE Inventory --------------------------------
(***************************************************************************)
(* The parts of one organization: app/backend/accounts/routers/            *)
(* inventory.py over the table inventory_parts.  A personal inventory is   *)
(* the special case of one user who is always a librarian.                 *)
(*                                                                         *)
(* POST and the ndjson import run the same upsert, over one line or many,  *)
(* in one transaction.  A request takes one step per query and one for its *)
(* commit; a check that fails ends it with an HTTP error: Abort.  A part's *)
(* document stands for its MAS record or catalog reference, a name for its *)
(* type and name.                                                          *)
(***************************************************************************)
EXTENDS Naturals, Sequences, FiniteSets

CONSTANTS
    Users,          \* users who may be members
    Roles,          \* the roles they are given; none: not a member
    Ids,            \* identifiers of parts
    Names,          \* types and names of parts
    Docs,           \* what a part may contain
    Workers,        \* requests that can run at the same time
    MaxParts,       \* MAX_PARTS_PER_OWNER
    MaxLines,       \* bound of the model: lines of an import
    Ops,            \* the routes clients call
    Asked,          \* the lifecycles they ask for
    None            \* absent value

RANK == [none |-> 0, viewer |-> 1, member |-> 2, librarian |-> 3]

Lifecycles == {"draft", "approved", "deprecated", "obsolete"}

ASSUME SetsAssumption ==
    /\ IsFiniteSet(Ids) /\ IsFiniteSet(Workers)
    /\ Ops \subseteq {"create", "import", "update", "delete"}
    /\ Roles \subseteq DOMAIN RANK /\ Asked \subseteq Lifecycles
ASSUME NumbersAssumption == MaxParts \in Nat \ {0} /\ MaxLines \in Nat \ {0}

VARIABLES
    orgLive,        \* the organization is not deleted
    role,           \* the role of each user in it
    parts,          \* table inventory_parts: row by id
    req             \* the request each worker handles

vars == <<orgLive, role, parts, req>>

Rows == [name : Names, doc : Docs, lifecycle : Lifecycles, deleted : BOOLEAN]

Lines == [name : Names, doc : Docs]

\* What an upsert will write: a new row, or a document into a row.
Writes == [name : Names, doc : Docs, new : BOOLEAN]

ASSUME AbsentAssumption == None \notin Rows \union Writes

Stages == {"idle", "owner", "import_quota", "find", "quota", "get", "access", "commit"}

\* role is the role the request was let through with, row what it loaded.
Requests == [pc : Stages, op : {"create", "import", "update", "delete", "none"},
             user : Users \union {None}, role : Roles \union {"none"},
             lines : Seq(Lines), writes : [Ids -> Writes \union {None}],
             part : Ids \union {None}, row : Rows \union {None},
             doc : Docs \union {None}, lifecycle : Lifecycles \union {None}]

NoReq == [pc |-> "idle", op |-> "none", user |-> None, role |-> "none",
          lines |-> <<>>, writes |-> [i \in Ids |-> None],
          part |-> None, row |-> None, doc |-> None, lifecycle |-> None]

--------------------------------------------------------------------------------

Live == {i \in Ids : parts[i] # None /\ ~parts[i].deleted}

Named(name) == {i \in Live : parts[i].name = name}

AtLeast(r, minimum) == RANK[r] >= RANK[minimum]

\* The rows a request has added or changed and not yet committed.
Written(w) == {i \in Ids : req[w].writes[i] # None}

Added(w) == {i \in Written(w) : req[w].writes[i].new}

Start(w, request) ==
    /\ req[w].pc = "idle"
    /\ request.op \in Ops
    /\ req' = [req EXCEPT ![w] = request]
    /\ UNCHANGED <<orgLive, role, parts>>

At(w, stage) == req[w].pc = stage

Go(w, stage) ==
    /\ req' = [req EXCEPT ![w].pc = stage]
    /\ UNCHANGED <<orgLive, role, parts>>

Finish(w) == req' = [req EXCEPT ![w] = NoReq]

--------------------------------------------------------------------------------
(* POST /inventory, POST /inventory/import *)

StartCreate(w) ==
    \E u \in Users, line \in Lines :
        Start(w, [NoReq EXCEPT !.pc = "owner", !.op = "create", !.user = u,
                               !.lines = <<line>>])

StartImport(w) ==
    \E u \in Users, n \in 1..MaxLines : \E lines \in [1..n -> Lines] :
        Start(w, [NoReq EXCEPT !.pc = "owner", !.op = "import", !.user = u,
                               !.lines = lines])

\* resolve_owner
ResolveOwner(w) ==
    LET r == role[req[w].user] IN
    /\ At(w, "owner")
    /\ orgLive
    /\ AtLeast(r, "member")
    /\ req' = [req EXCEPT ![w].role = r,
                          ![w].pc = IF req[w].op = "import" THEN "import_quota"
                                    ELSE "find"]
    /\ UNCHANGED <<orgLive, role, parts>>

\* Mutant: the part to be added is not counted.
Fits_OffByOne(w, adding) ==
    Cardinality(Live \union Added(w)) + adding <= MaxParts + 1

\* _check_quota; a query sees what its own transaction has added.
Fits(w, adding) == Cardinality(Live \union Added(w)) + adding <= MaxParts

\* import_ndjson is a coroutine that never awaits once it has the body, so one
\* import at a time is past that point.
LoopIsFree(w) ==
    \A v \in Workers \ {w} :
        req[v].op = "import" => req[v].pc \in {"owner", "import_quota"}

CheckImport(w) ==
    /\ At(w, "import_quota")
    /\ LoopIsFree(w)
    /\ Fits(w, Len(req[w].lines))
    /\ Go(w, "find")

\* The line is dealt with: on to the next one, or to the commit.
NextLine(w, writes) ==
    /\ req' = [req EXCEPT ![w].lines = Tail(@), ![w].writes = writes,
                          ![w].pc = IF Len(req[w].lines) = 1 THEN "commit" ELSE "find"]
    /\ UNCHANGED <<orgLive, role, parts>>

\* _upsert_part finds the part of that name, among those this transaction has
\* added too.  Only a document that differs is written.
FindPart(w) ==
    LET line == Head(req[w].lines)
        writes == req[w].writes
        own == {i \in Added(w) : writes[i].name = line.name}
    IN  /\ At(w, "find")
        /\ \/ \E i \in own :
                 NextLine(w, [writes EXCEPT ![i].doc = line.doc])
           \/ /\ own = {}
              /\ \E i \in Named(line.name) :
                    IF parts[i].doc = line.doc /\ i \notin Written(w)
                    THEN NextLine(w, writes)
                    ELSE NextLine(w, [writes EXCEPT ![i] =
                             [name |-> line.name, doc |-> line.doc, new |-> FALSE]])
           \/ /\ own = {}
              /\ Named(line.name) = {}
              /\ Go(w, "quota")

\* A line beyond the limit fails a POST; an import reports it and goes on.
AddPart(w) ==
    LET line == Head(req[w].lines) IN
    /\ At(w, "quota")
    /\ \/ /\ Fits(w, 1)
          /\ \E i \in Ids :
                /\ parts[i] = None
                /\ \A v \in Workers : i \notin Written(v)
                /\ NextLine(w, [req[w].writes EXCEPT ![i] =
                       [name |-> line.name, doc |-> line.doc, new |-> TRUE]])
       \/ /\ ~Fits(w, 1)
          /\ req[w].op = "import"
          /\ NextLine(w, req[w].writes)

\* Mutant: no unique index on the name.
NamesAreFree_NoIndex(w) == TRUE

\* The indexes inv_org_name and inv_user_name span the rows not deleted.
NamesAreFree(w) == \A i \in Added(w) : Named(req[w].writes[i].name) = {}

FirstLifecycle(r) == IF AtLeast(r, "librarian") THEN "approved" ELSE "draft"

Upserted(w, i) ==
    LET write == req[w].writes[i] IN
    IF write.new
    THEN [name |-> write.name, doc |-> write.doc,
          lifecycle |-> FirstLifecycle(req[w].role), deleted |-> FALSE]
    ELSE [parts[i] EXCEPT !.doc = write.doc]

CommitUpserts(w) ==
    /\ At(w, "commit")
    /\ req[w].op \in {"create", "import"}
    /\ NamesAreFree(w)
    /\ parts' = [i \in Ids |-> IF i \in Written(w) THEN Upserted(w, i) ELSE parts[i]]
    /\ Finish(w)
    /\ UNCHANGED <<orgLive, role>>

--------------------------------------------------------------------------------
(* PATCH /inventory/{id}, DELETE /inventory/{id} *)

StartUpdate(w) ==
    \E u \in Users, i \in Live, doc \in Docs \union {None},
       lifecycle \in Asked \union {None} :
        Start(w, [NoReq EXCEPT !.pc = "get", !.op = "update", !.user = u,
                               !.part = i, !.doc = doc, !.lifecycle = lifecycle])

StartDelete(w) ==
    \E u \in Users, i \in Live :
        Start(w, [NoReq EXCEPT !.pc = "get", !.op = "delete", !.user = u, !.part = i])

\* _get_own_part
GetPart(w) ==
    /\ At(w, "get")
    /\ req[w].part \in Live
    /\ role[req[w].user] # "none"
    /\ req' = [req EXCEPT ![w].row = parts[req[w].part], ![w].pc = "access"]
    /\ UNCHANGED <<orgLive, role, parts>>

\* Mutant: editing an approved part takes no more than editing a draft.
NeedsLibrarian_Lifecycle(w) == req[w].lifecycle # None

NeedsLibrarian(w) ==
    \/ req[w].lifecycle # None
    \/ /\ req[w].row.lifecycle = "approved"
       /\ req[w].op = "delete" \/ req[w].doc # None

\* _write_access
CheckAccess(w) ==
    LET r == role[req[w].user] IN
    /\ At(w, "access")
    /\ AtLeast(r, IF NeedsLibrarian(w) THEN "librarian" ELSE "member")
    /\ req' = [req EXCEPT ![w].role = r, ![w].pc = "commit"]
    /\ UNCHANGED <<orgLive, role, parts>>

\* The ORM writes the columns whose value differs from the one it loaded.
New(asked, loaded, current) ==
    IF asked = None \/ asked = loaded THEN current ELSE asked

\* Mutant: the row that was loaded is written back whole.
Updated_WholeRow(w) ==
    LET row == req[w].row IN
    [row EXCEPT !.doc = New(req[w].doc, None, @),
                !.lifecycle = New(req[w].lifecycle, None, @)]

Updated(w) ==
    LET row == req[w].row IN
    [parts[req[w].part] EXCEPT !.doc = New(req[w].doc, row.doc, @),
                               !.lifecycle = New(req[w].lifecycle, row.lifecycle, @)]

CommitUpdate(w) ==
    /\ At(w, "commit")
    /\ req[w].op = "update"
    /\ parts' = [parts EXCEPT ![req[w].part] = Updated(w)]
    /\ Finish(w)
    /\ UNCHANGED <<orgLive, role>>

CommitDelete(w) ==
    /\ At(w, "commit")
    /\ req[w].op = "delete"
    /\ parts' = [parts EXCEPT ![req[w].part].deleted = TRUE]
    /\ Finish(w)
    /\ UNCHANGED <<orgLive, role>>

--------------------------------------------------------------------------------
(* What Organizations does meanwhile *)

SetRole(u) ==
    \E r \in Roles \ {role[u]} :
        /\ role' = [role EXCEPT ![u] = r]
        /\ UNCHANGED <<orgLive, parts, req>>

DeleteOrg ==
    /\ orgLive
    /\ orgLive' = FALSE
    /\ UNCHANGED <<role, parts, req>>

Abort(w) ==
    /\ req[w].pc # "idle"
    /\ Finish(w)
    /\ UNCHANGED <<orgLive, role, parts>>

Init ==
    /\ orgLive = TRUE
    /\ role \in [Users -> Roles]
    /\ parts = [i \in Ids |-> None]
    /\ req = [w \in Workers |-> NoReq]

Step(w) ==
    \/ StartCreate(w) \/ StartImport(w) \/ ResolveOwner(w) \/ CheckImport(w)
    \/ FindPart(w) \/ AddPart(w) \/ CommitUpserts(w)
    \/ StartUpdate(w) \/ StartDelete(w) \/ GetPart(w) \/ CheckAccess(w)
    \/ CommitUpdate(w) \/ CommitDelete(w)
    \/ Abort(w)

Next ==
    \/ \E w \in Workers : Step(w)
    \/ \E u \in Users : SetRole(u)
    \/ DeleteOrg

Spec == Init /\ [][Next]_vars

--------------------------------------------------------------------------------
(* Properties *)

\* Every variable has its type.
TypeOK ==
    /\ orgLive \in BOOLEAN
    /\ role \in [Users -> Roles]
    /\ parts \in [Ids -> Rows \union {None}]
    /\ req \in [Workers -> Requests]

\* The upsert key of the engine is a key: requests that all found a name free,
\* and lines of one import that repeat it, never leave two live parts of one
\* name (_upsert_part fails for good if there are two); and every part is whole.
UniqueNames ==
    /\ TypeOK
    /\ \A i, j \in Live : parts[i].name = parts[j].name => i = j

\* A deleted part stays deleted: no edit or upsert that was under way when it
\* was deleted brings it back.
DeletedForGood ==
    [][\A i \in Ids : parts[i] # None /\ parts[i].deleted => i \notin Live']_vars

Catalogued(i) == [id |-> i, doc |-> parts[i].doc, lifecycle |-> parts[i].lifecycle]

\* The part of a name, if there is one.
PartNamed(name) ==
    LET here == Named(name) IN
    IF here = {} THEN None ELSE Catalogued(CHOOSE i \in here : TRUE)

Known == {i \in Ids : parts[i] # None}

TheCatalog == INSTANCE Catalog WITH
    catalog <- [n \in Names |-> PartNamed(n)], used <- Known

ASSUME PartsAssumption == None \notin TheCatalog!Parts

\* Upserts and imports that overlap each other, edits and deletions still act on a
\* map from names to parts: what a stale upsert or edit writes never brings a
\* removed part back, moves a part to another name or its lifecycle with its
\* document, or is split over two parts.
ImplementsCatalog == TheCatalog!Spec

\* A step that edits, deletes or changes the lifecycle of an approved part, or
\* that approves one.
Touches(i) ==
    /\ i \in Live
    /\ parts[i].lifecycle = "approved" \/ parts'[i].lifecycle = "approved"
    /\ parts'[i] # parts[i]
================================================================================
