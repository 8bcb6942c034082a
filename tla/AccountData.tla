------------------------------- MODULE AccountData -------------------------------
(***************************************************************************)
(* What an account holds, as rows of the tables of Schema: its settings,   *)
(* its export and its deletion (app/backend/accounts/routers/me.py), while *)
(* designs are saved and other requests of the same account run.           *)
(*                                                                         *)
(* The other routes that write rows have modules of their own; here the    *)
(* save of a design stands for them, without the trim of a full history,   *)
(* which is in DesignStore.  Deletion goes through the keys of the schema. *)
(***************************************************************************)
EXTENDS Schema, Absent, Naturals, FiniteSets

CONSTANTS
    Users,          \* accounts; each has founded an organization, with its own id
    Values,         \* settings a client may put
    Workers,        \* requests served at a time
    RevisionBound   \* bound of the model: that many revisions, and saves bring nothing new

ASSUME UsersAssumption == IsFiniteSet(Users)
ASSUME RowsAssumption ==
    /\ \A u \in Users : None \notin {u, <<u, "own">>, <<u, "org">>, <<u, "inventory">>}
    /\ None # 500

VARIABLES
    rows,           \* the rows of all the tables
    serving         \* what each request is doing

accountVars == <<rows, serving>>

\* refs gives, for each key of the row's table, the id it refers to; data is
\* what else matters: a revision's number, a role, the kind of a link, the settings.
Row(t, id, refs, data) == [table |-> t, id |-> id, refs |-> refs, data |-> data]

RowsOf(rs, t) == {r \in rs : r.table = t}

Keys == OfKind(Metadata, "key")

Exists(rs, t, id) == \E r \in rs : r.table = t /\ r.id = id

--------------------------------------------------------------------------------
(* The database *)

RefersTo(r, k, gone) == r.table = k.table /\ <<k.to, r.refs[k.column]>> \in gone

Names(rs) == {<<r.table, r.id>> : r \in rs}

Cascades == {k \in Keys : k.onDelete = "CASCADE"}

\* The names of the rows to delete, and of those ON DELETE CASCADE adds to them.
Cascaded(rs, gone) ==
    gone \union Names({r \in rs : \E k \in Cascades : RefersTo(r, k, gone)})

\* No chain of keys is longer: a mount, its link, its design, their owner.
WithCascades(rs, first) == Cascaded(rs, Cascaded(rs, Cascaded(rs, first)))

\* ON DELETE SET NULL on what stays.
Released(r, gone) ==
    [r EXCEPT !.refs = [c \in DOMAIN r.refs |->
        IF \E k \in Keys : k.column = c /\ RefersTo(r, k, gone) THEN None ELSE r.refs[c]]]

AfterDelete(rs, first) ==
    LET gone == WithCascades(rs, first)
    IN  {Released(r, gone) : r \in {x \in rs : <<x.table, x.id>> \notin gone}}

NotNulls == OfKind(Metadata, "not_null")

ExactlyOnes == OfKind(Metadata, "exactly_one")

\* The constraints a row has to meet.
Passes(r) ==
    /\ \A c \in NotNulls : c.table = r.table => r.refs[c.column] # None
    /\ \A c \in ExactlyOnes :
          c.table = r.table => Cardinality({x \in c.columns : r.refs[x] = None}) = 1
    /\ r.table = "share_links" =>
          IF r.data = "design" THEN r.refs["design_id"] # None
          ELSE (r.refs["owner_user_id"] = None) # (r.refs["owner_org_id"] = None)

KeysHold(r, rs) ==
    \A k \in Keys : k.table = r.table /\ r.refs[k.column] # None
        => Exists(rs, k.to, r.refs[k.column])

\* Rows that every route may have inserted.
UserRow(u) == Row("users", u, <<>>, None)

MadeFor(u, o, author) == [owner_user_id |-> u, owner_org_id |-> o, created_by |-> author]

DesignRow(id, u, o, author) == Row("designs", id, MadeFor(u, o, author), None)

PartRow(id, u, o, author) == Row("inventory_parts", id, MadeFor(u, o, author), None)

\* A link to design d, or else to the inventory of account u.
LinkRow(id, d, u, author) ==
    Row("share_links", id,
        [design_id |-> d, owner_user_id |-> u, owner_org_id |-> None, created_by |-> author],
        IF d # None THEN "design" ELSE "inventory")

RevisionRow(d, n, author) ==
    Row("design_revisions", <<d, n>>, [design_id |-> d, saved_by |-> author], n)

\* An account that has used everything: it is signed in and was mailed a link; it
\* has a design of its own and one it made for its organization, both saved first
\* by itself, a part in both inventories, a link to each design and one to its
\* inventory, which the others have mounted; and it invited them as viewers.
Holdings(u) ==
    {UserRow(u),
     Row("sessions", u, [user_id |-> u], None),
     Row("email_tokens", u, [user_id |-> u], None),
     Row("organizations", u, <<>>, None),
     DesignRow(<<u, "own">>, u, None, u),
     DesignRow(<<u, "org">>, None, u, u),
     RevisionRow(<<u, "own">>, 1, u),
     RevisionRow(<<u, "org">>, 1, u),
     PartRow(<<u, "own">>, u, None, u),
     PartRow(<<u, "org">>, None, u, u),
     LinkRow(<<u, "design">>, <<u, "own">>, None, u),
     LinkRow(<<u, "org">>, <<u, "org">>, None, u),
     LinkRow(<<u, "inventory">>, None, u, u)}
        \union
    {Row("memberships", <<v, u>>, [org_id |-> u, user_id |-> v, invited_by |-> u],
         IF v = u THEN "owner" ELSE "viewer") : v \in Users}
        \union
    {Row("inventory_mounts", <<v, u>>,
         [share_link_id |-> <<u, "inventory">>, mounter_user_id |-> v,
          mounter_org_id |-> None], None) : v \in Users \ {u}}

RevisionsOf(d) == {r \in RowsOf(rows, "design_revisions") : r.refs.design_id = d}

NewestOf(d) == CHOOSE r \in RevisionsOf(d) : \A s \in RevisionsOf(d) : r.data >= s.data

DesignsOf(u) == {d \in RowsOf(rows, "designs") : d.refs.owner_user_id = u}

\* The designs that _get_own_design lets an account write.
Editable(u) ==
    DesignsOf(u) \union
    {d \in RowsOf(rows, "designs") :
        \E m \in RowsOf(rows, "memberships") :
            /\ m.refs.user_id = u /\ m.refs.org_id = d.refs.owner_org_id
            /\ m.data # "viewer"}

--------------------------------------------------------------------------------
(* Requests *)

Settings(u) == {r \in RowsOf(rows, "user_settings") : r.id = u}

Served(w) == serving[w]

Free == [pc |-> "free", user |-> None, value |-> None, found |-> None, todo |-> {},
         exported |-> {}, answer |-> None]

Step(w, pc) == serving' = [serving EXCEPT ![w].pc = pc]

Reply(w, answer) == serving' = [serving EXCEPT ![w] = [Free EXCEPT !.answer = answer]]

BadRequest == 400  \* any answer that blames the request

At(w, pc) == serving[w].pc = pc

\* What a request comes with: new settings, or the design it means.
Sent(u, pc) ==
    CASE pc = "put"  -> Values
      [] pc = "save" -> {d.id : d \in Editable(u)}
      [] OTHER       -> {None}

\* current_user has found the account.
StartServing(w) ==
    /\ At(w, "free")
    /\ \E u \in Users, pc \in {"put", "save", "export", "delete"} :
          /\ Exists(rows, "users", u)
          /\ \E v \in Sent(u, pc) :
                serving' = [serving EXCEPT ![w] =
                               [Free EXCEPT !.pc = pc, !.user = u, !.value = v]]
    /\ UNCHANGED rows

\* put_settings: more than MAX_SETTINGS_BYTES are refused before anything is
\* read.
ReadSettings(w) ==
    /\ At(w, "put")
    /\ \/ Reply(w, BadRequest)
       \/ serving' = [serving EXCEPT ![w].pc = "write",
                                     ![w].found = Settings(Served(w).user) # {}]
    /\ UNCHANGED rows

SettingsRow(u, v) == Row("user_settings", u, [user_id |-> u], v)

\* An insert meets the primary key, an update has to find its row.
WritesRow(w) == Served(w).found = (Settings(Served(w).user) # {})

WriteSettings(w) ==
    LET u == Served(w).user
        row == SettingsRow(u, Served(w).value)
    IN  /\ At(w, "write")
        /\ IF WritesRow(w) /\ KeysHold(row, rows)
           THEN rows' = (rows \ Settings(u)) \union {row} /\ Step(w, "answer")
           ELSE Reply(w, 500) /\ UNCHANGED rows

\* updated_at was computed by the database: after an update it is read again,
\* after an insert it came back with it.
AnswerSettings(w) ==
    /\ At(w, "answer")
    /\ Reply(w, IF Served(w).found /\ Settings(Served(w).user) = {} THEN 500 ELSE 200)
    /\ UNCHANGED rows

\* update_design looks the design up, and refuses an old If-Match.
FindDesign(w) ==
    /\ At(w, "save")
    /\ \/ /\ \E d \in Editable(Served(w).user) : d.id = Served(w).value
          /\ Step(w, "newest") \/ Reply(w, BadRequest)
       \/ /\ \A d \in Editable(Served(w).user) : d.id # Served(w).value
          /\ Reply(w, BadRequest)
    /\ UNCHANGED rows

\* found is the number of the revision to insert, None when the newest one has the
\* document already.
FindNewest(w) ==
    LET d == Served(w).value
    IN  /\ At(w, "newest")
        /\ IF RevisionsOf(d) = {} THEN Reply(w, 500)
           ELSE \E n \in {None, NewestOf(d).data + 1} :
                    /\ n # None => Cardinality(RowsOf(rows, "design_revisions")) < RevisionBound
                    /\ serving' = [serving EXCEPT ![w].pc = "commit", ![w].found = n]
        /\ UNCHANGED rows

\* The commit updates the design's row and inserts the revision: both need the row
\* to be there, the insert also the account, and that its number is free.
CommitSave(w) ==
    LET d == Served(w).value
        n == Served(w).found
        new == RevisionRow(d, n, Served(w).user)
        added == IF n = None THEN {} ELSE {new}
    IN  /\ At(w, "commit")
        /\ IF /\ Exists(rows, "designs", d)
              /\ \A r \in added : KeysHold(r, rows) /\ ~Exists(rows, r.table, r.id)
           THEN rows' = rows \union added /\ Step(w, "saved")
           ELSE Reply(w, 500) /\ UNCHANGED rows

\* db.refresh.
AnswerSave(w) ==
    /\ At(w, "saved")
    /\ Reply(w, IF Exists(rows, "designs", Served(w).value) THEN 200 ELSE 500)
    /\ UNCHANGED rows

\* The settings, then one query for the designs.
ListExport(w) ==
    /\ At(w, "export")
    /\ serving' = [serving EXCEPT ![w].pc = "revisions",
                                  ![w].todo = {d.id : d \in DesignsOf(Served(w).user)}]
    /\ UNCHANGED rows

\* "has no revisions - data integrity error"
ExportDesign(w) ==
    /\ At(w, "revisions")
    /\ \E d \in Served(w).todo :
          IF RevisionsOf(d) = {} THEN Reply(w, 500)
          ELSE serving' = [serving EXCEPT ![w].todo = @ \ {d},
                                          ![w].exported = @ \union {NewestOf(d).id}]
    /\ UNCHANGED rows

EndExport(w) ==
    /\ At(w, "revisions")
    /\ Served(w).todo = {}
    /\ Reply(w, 200)
    /\ UNCHANGED rows

\* delete_account: a row that is gone already is no error, a constraint that the
\* cascades break is.
DeleteAccount(w) ==
    LET after == AfterDelete(rows, {<<"users", Served(w).user>>})
    IN  /\ At(w, "delete")
        /\ \/ Reply(w, BadRequest) /\ UNCHANGED rows
           \/ IF \A r \in after : Passes(r)
              THEN rows' = after /\ Reply(w, 200)
              ELSE Reply(w, 500) /\ UNCHANGED rows

--------------------------------------------------------------------------------

AccountInit ==
    /\ rows = UNION {Holdings(u) : u \in Users}
    /\ serving = [w \in Workers |-> Free]

AccountNext ==
    \E w \in Workers :
       \/ StartServing(w)
       \/ ReadSettings(w) \/ WriteSettings(w) \/ AnswerSettings(w)
       \/ FindDesign(w) \/ FindNewest(w) \/ CommitSave(w) \/ AnswerSave(w)
       \/ ListExport(w) \/ ExportDesign(w) \/ EndExport(w)
       \/ DeleteAccount(w)

AccountSpec == AccountInit /\ [][AccountNext]_accountVars

--------------------------------------------------------------------------------
(* Properties *)

\* What a column means, whether it is a key or not.
MeansRow ==
    [user_id |-> "users", created_by |-> "users", saved_by |-> "users",
     invited_by |-> "users", owner_user_id |-> "users", mounter_user_id |-> "users",
     org_id |-> "organizations", owner_org_id |-> "organizations",
     mounter_org_id |-> "organizations", design_id |-> "designs",
     share_link_id |-> "share_links"]

\* Whatever is deleted while it is written to, no row speaks of an account, a
\* design or a link that is no longer there, every design has a revision, and
\* no two rows have one name.
Consistent ==
    /\ \A r \in rows : \A c \in DOMAIN r.refs :
          r.refs[c] # None => Exists(rows, MeansRow[c], r.refs[c])
    /\ \A d \in RowsOf(rows, "designs") : RevisionsOf(d.id) # {}
    /\ Cardinality(Names(rows)) = Cardinality(rows)

\* Whose a row is, by what its columns say.
Mine(r, u) ==
    LET owns(x) == x.refs.owner_user_id = u
        design(id) == CHOOSE d \in RowsOf(rows, "designs") : d.id = id
        sharedBy(l) == IF l.data = "design" THEN owns(design(l.refs.design_id)) ELSE owns(l)
    IN  CASE r.table = "users" -> r.id = u
          [] r.table \in {"designs", "inventory_parts"} -> owns(r)
          [] r.table \in {"sessions", "email_tokens", "memberships", "user_settings"} ->
                r.refs.user_id = u
          [] r.table = "design_revisions" -> owns(design(r.refs.design_id))
          [] r.table = "share_links" -> sharedBy(r)
          [] r.table = "inventory_mounts" ->
                r.refs.mounter_user_id = u
                    \/ \E l \in RowsOf(rows, "share_links") :
                          l.id = r.refs.share_link_id /\ sharedBy(l)
          [] OTHER -> FALSE

\* "FK cascades remove sessions, email tokens, settings, designs (and their
\* revisions), inventory, share links and mounts" (delete_account): all of that
\* and nothing of anybody else's.  What the account made or shared for an
\* organization stays, without its author, and so do those it invited.
DeletesItsOwn ==
    [][\A w \in Workers : At(w, "delete") /\ serving'[w].answer = 200
          /\ serving'[w].pc = "free" =>
            Names(rows') = Names({r \in rows : ~Mine(r, Served(w).user)})]_accountVars
================================================================================
