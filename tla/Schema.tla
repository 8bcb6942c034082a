--------------------------------- MODULE Schema ---------------------------------
(***************************************************************************)
(* The accounts schema as app/backend/accounts/models.py declares it to    *)
(* the ORM: tables, foreign keys with what a deletion does to the rows     *)
(* that refer to the deleted one, unique and other indexes, and CHECKs.    *)
(* A column of plain data is left out.                                     *)
(***************************************************************************)

Table(t) == [kind |-> "table", table |-> t]

\* onDelete is what happens to the row when the row it refers to is deleted.
Key(t, column, to, onDelete) ==
    [kind |-> "key", table |-> t, column |-> column, to |-> to, onDelete |-> onDelete]

Index(kind, t, columns, where) ==
    [kind |-> kind, table |-> t, columns |-> columns, where |-> where]

Unique(t, columns) == Index("unique", t, columns, "")

NotNull(t, column) == [kind |-> "not_null", table |-> t, column |-> column]

\* Exactly one of the two columns of the row is null.
ExactlyOne(t, user, org) == [kind |-> "exactly_one", table |-> t, columns |-> {user, org}]

OneOf(t, column, values) ==
    [kind |-> "one_of", table |-> t, column |-> column, values |-> values]

\* A design's link names its design, an inventory's its one owner.
Target(t) == [kind |-> "target", table |-> t]

\* A row that belongs to a user or to an organization, and goes with its owner.
Owned(t, user, org) ==
    {Key(t, user, "users", "CASCADE"), Key(t, org, "organizations", "CASCADE")}

OfUser(t) == {Key(t, "user_id", "users", "CASCADE"), NotNull(t, "user_id")}

--------------------------------------------------------------------------------
(* The classes *)

User == {Table("users"), Unique("users", {"lower(email)"})}

AuthSession ==
    OfUser("sessions")
        \union {Table("sessions"), Unique("sessions", {"token_hash"}),
                Index("index", "sessions", {"user_id"}, "")}

EmailToken ==
    OfUser("email_tokens")
        \union {Table("email_tokens"), Unique("email_tokens", {"token_hash"}),
                Index("index", "email_tokens", {"user_id"}, ""),
                OneOf("email_tokens", "purpose", {"verify", "reset"})}

Organization == {Table("organizations"), Unique("organizations", {"slug"})}

Membership ==
    {Table("memberships"),
     Unique("memberships", {"org_id", "user_id"}),
     OneOf("memberships", "role", {"owner", "admin", "librarian", "member", "viewer"}),
     Key("memberships", "org_id", "organizations", "CASCADE"),
     NotNull("memberships", "org_id"),
     Key("memberships", "user_id", "users", "CASCADE"),
     Key("memberships", "invited_by", "users", "SET NULL")}

\* Mutant: a design goes with whoever made it.
Design_Author ==
    Owned("designs", "owner_user_id", "owner_org_id")
        \union {Table("designs"),
                ExactlyOne("designs", "owner_user_id", "owner_org_id"),
                Index("index", "designs", {"owner_user_id"}, ""),
                Index("index", "designs", {"owner_org_id"}, ""),
                Key("designs", "created_by", "users", "CASCADE")}

Design ==
    Owned("designs", "owner_user_id", "owner_org_id")
        \union {Table("designs"),
                ExactlyOne("designs", "owner_user_id", "owner_org_id"),
                Index("index", "designs", {"owner_user_id"}, ""),
                Index("index", "designs", {"owner_org_id"}, ""),
                Key("designs", "created_by", "users", "SET NULL")}

\* Mutant: whoever saved is no key.
DesignRevision_NoKey ==
    {Table("design_revisions"),
     Unique("design_revisions", {"design_id", "revision"}),
     Key("design_revisions", "design_id", "designs", "CASCADE"),
     NotNull("design_revisions", "design_id")}

DesignRevision ==
    {Table("design_revisions"),
     Unique("design_revisions", {"design_id", "revision"}),
     Key("design_revisions", "design_id", "designs", "CASCADE"),
     NotNull("design_revisions", "design_id"),
     Key("design_revisions", "saved_by", "users", "SET NULL")}

InventoryPart ==
    Owned("inventory_parts", "owner_user_id", "owner_org_id")
        \union {Table("inventory_parts"),
                ExactlyOne("inventory_parts", "owner_user_id", "owner_org_id"),
                OneOf("inventory_parts", "part_type",
                      {"coreShape", "coreMaterial", "core", "bobbin", "wire"}),
                OneOf("inventory_parts", "source", {"catalog", "private"}),
                OneOf("inventory_parts", "lifecycle",
                      {"draft", "approved", "deprecated", "obsolete"}),
                Index("unique", "inventory_parts", {"owner_user_id", "part_type", "name"},
                      "owner_user_id IS NOT NULL AND deleted_at IS NULL"),
                Index("unique", "inventory_parts", {"owner_org_id", "part_type", "name"},
                      "owner_org_id IS NOT NULL AND deleted_at IS NULL"),
                Key("inventory_parts", "created_by", "users", "SET NULL")}

ShareLink ==
    Owned("share_links", "owner_user_id", "owner_org_id")
        \union {Table("share_links"),
                Unique("share_links", {"token"}),
                OneOf("share_links", "kind", {"design", "inventory"}),
                Target("share_links"),
                Key("share_links", "design_id", "designs", "CASCADE"),
                Key("share_links", "created_by", "users", "SET NULL")}

InventoryMount ==
    Owned("inventory_mounts", "mounter_user_id", "mounter_org_id")
        \union {Table("inventory_mounts"),
                ExactlyOne("inventory_mounts", "mounter_user_id", "mounter_org_id"),
                Key("inventory_mounts", "share_link_id", "share_links", "CASCADE"),
                NotNull("inventory_mounts", "share_link_id")}

UserSettings ==
    OfUser("user_settings")
        \union {Table("user_settings"), Unique("user_settings", {"user_id"})}

\* No keys: the log outlives what it is about.
AuditLog == {Table("audit_log")}

\* The metadata that both the ORM and Alembic compare the database with.
Metadata ==
    User \union AuthSession \union EmailToken \union Organization \union Membership
        \union Design \union DesignRevision \union InventoryPart \union ShareLink
        \union InventoryMount \union UserSettings \union AuditLog

OfKind(objects, kind) == {o \in objects : o.kind = kind}
================================================================================
