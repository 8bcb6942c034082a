------------------------------- MODULE Version0001 -------------------------------
(***************************************************************************)
(* The statements of alembic/versions/0001_accounts_accounts_schema.py.    *)
(* The file was generated from the ORM's classes and is edited by hand     *)
(* since: it is translated here on its own, to be compared with them.      *)
(***************************************************************************)
EXTENDS Schema, Sequences

\* A statement creates some objects, or drops some.
Create(t, objects) == [creates |-> {Table(t)} \union objects, drops |-> {}]

CreateIndex(kind, t, columns, where) ==
    [creates |-> {Index(kind, t, columns, where)}, drops |-> {}]

Drop(t) == [creates |-> {}, drops |-> {Table(t)}]

DropIndex(kind, t, columns, where) ==
    [creates |-> {}, drops |-> {Index(kind, t, columns, where)}]

UserParts == "owner_user_id IS NOT NULL AND deleted_at IS NULL"

OrgParts == "owner_org_id IS NOT NULL AND deleted_at IS NULL"

CreateAuditLog == Create("audit_log", {})

CreateOrganizations == Create("organizations", {Unique("organizations", {"slug"})})

CreateUsers == Create("users", {})

IndexUsers == CreateIndex("unique", "users", {"lower(email)"}, "")

CreateDesigns ==
    Create("designs",
           {ExactlyOne("designs", "owner_user_id", "owner_org_id"),
            Key("designs", "created_by", "users", "SET NULL"),
            Key("designs", "owner_org_id", "organizations", "CASCADE"),
            Key("designs", "owner_user_id", "users", "CASCADE")})

IndexDesigns ==
    <<CreateIndex("index", "designs", {"owner_org_id"}, ""),
      CreateIndex("index", "designs", {"owner_user_id"}, "")>>

CreateEmailTokens ==
    Create("email_tokens",
           {NotNull("email_tokens", "user_id"),
            OneOf("email_tokens", "purpose", {"verify", "reset"}),
            Key("email_tokens", "user_id", "users", "CASCADE"),
            Unique("email_tokens", {"token_hash"})})

IndexEmailTokens == CreateIndex("index", "email_tokens", {"user_id"}, "")

CreateInventoryParts ==
    Create("inventory_parts",
           {OneOf("inventory_parts", "lifecycle",
                  {"draft", "approved", "deprecated", "obsolete"}),
            OneOf("inventory_parts", "part_type",
                  {"coreShape", "coreMaterial", "core", "bobbin", "wire"}),
            OneOf("inventory_parts", "source", {"catalog", "private"}),
            ExactlyOne("inventory_parts", "owner_user_id", "owner_org_id"),
            Key("inventory_parts", "created_by", "users", "SET NULL"),
            Key("inventory_parts", "owner_org_id", "organizations", "CASCADE"),
            Key("inventory_parts", "owner_user_id", "users", "CASCADE")})

IndexInventoryParts ==
    <<CreateIndex("unique", "inventory_parts", {"owner_org_id", "part_type", "name"}, OrgParts),
      CreateIndex("unique", "inventory_parts", {"owner_user_id", "part_type", "name"}, UserParts)>>

CreateMemberships ==
    Create("memberships",
           {NotNull("memberships", "org_id"),
            OneOf("memberships", "role", {"owner", "admin", "librarian", "member", "viewer"}),
            Key("memberships", "invited_by", "users", "SET NULL"),
            Key("memberships", "org_id", "organizations", "CASCADE"),
            Key("memberships", "user_id", "users", "CASCADE")})

IndexMemberships == CreateIndex("unique", "memberships", {"org_id", "user_id"}, "")

CreateSessions ==
    Create("sessions",
           {NotNull("sessions", "user_id"),
            Key("sessions", "user_id", "users", "CASCADE"),
            Unique("sessions", {"token_hash"})})

IndexSessions == CreateIndex("index", "sessions", {"user_id"}, "")

CreateUserSettings ==
    Create("user_settings",
           {NotNull("user_settings", "user_id"),
            Key("user_settings", "user_id", "users", "CASCADE"),
            Unique("user_settings", {"user_id"})})

\* Mutant: edited by hand, without ondelete.
CreateDesignRevisions_Plain ==
    Create("design_revisions",
           {NotNull("design_revisions", "design_id"),
            Key("design_revisions", "design_id", "designs", "NO ACTION"),
            Key("design_revisions", "saved_by", "users", "SET NULL"),
            Unique("design_revisions", {"design_id", "revision"})})

CreateDesignRevisions ==
    Create("design_revisions",
           {NotNull("design_revisions", "design_id"),
            Key("design_revisions", "design_id", "designs", "CASCADE"),
            Key("design_revisions", "saved_by", "users", "SET NULL"),
            Unique("design_revisions", {"design_id", "revision"})})

CreateShareLinks ==
    Create("share_links",
           {Target("share_links"),
            OneOf("share_links", "kind", {"design", "inventory"}),
            Key("share_links", "created_by", "users", "SET NULL"),
            Key("share_links", "design_id", "designs", "CASCADE"),
            Key("share_links", "owner_org_id", "organizations", "CASCADE"),
            Key("share_links", "owner_user_id", "users", "CASCADE"),
            Unique("share_links", {"token"})})

CreateInventoryMounts ==
    Create("inventory_mounts",
           {NotNull("inventory_mounts", "share_link_id"),
            ExactlyOne("inventory_mounts", "mounter_user_id", "mounter_org_id"),
            Key("inventory_mounts", "mounter_org_id", "organizations", "CASCADE"),
            Key("inventory_mounts", "mounter_user_id", "users", "CASCADE"),
            Key("inventory_mounts", "share_link_id", "share_links", "CASCADE")})

\* Mutant: in alphabetical order, designs before the users they refer to.
Upgrade_Alphabetical ==
    <<CreateAuditLog, CreateDesigns, CreateOrganizations, CreateUsers>>

Upgrade ==
    <<CreateAuditLog, CreateOrganizations, CreateUsers, IndexUsers, CreateDesigns>>
        \o IndexDesigns
        \o <<CreateEmailTokens, IndexEmailTokens, CreateInventoryParts>>
        \o IndexInventoryParts
        \o <<CreateMemberships, IndexMemberships, CreateSessions, IndexSessions,
             CreateUserSettings, CreateDesignRevisions, CreateShareLinks,
             CreateInventoryMounts>>

Downgrade ==
    <<Drop("inventory_mounts"),
      Drop("share_links"),
      Drop("design_revisions"),
      Drop("user_settings"),
      DropIndex("index", "sessions", {"user_id"}, ""),
      Drop("sessions"),
      DropIndex("unique", "memberships", {"org_id", "user_id"}, ""),
      Drop("memberships"),
      DropIndex("unique", "inventory_parts", {"owner_user_id", "part_type", "name"}, UserParts),
      DropIndex("unique", "inventory_parts", {"owner_org_id", "part_type", "name"}, OrgParts),
      Drop("inventory_parts"),
      DropIndex("index", "email_tokens", {"user_id"}, ""),
      Drop("email_tokens"),
      DropIndex("index", "designs", {"owner_user_id"}, ""),
      DropIndex("index", "designs", {"owner_org_id"}, ""),
      Drop("designs"),
      DropIndex("unique", "users", {"lower(email)"}, ""),
      Drop("users"),
      Drop("organizations"),
      Drop("audit_log")>>
================================================================================
