-------------------------------- MODULE Migration --------------------------------
(***************************************************************************)
(* alembic/env.py, run by hand or by a deployment, perhaps twice at once,  *)
(* to bring the database to version 0001 or back.                          *)
(*                                                                         *)
(* The schema is made in a transaction of its own.  Everything else, the   *)
(* version table included, is one transaction: PostgreSQL takes DDL back   *)
(* when it is rolled back, and a second transaction that touches the same  *)
(* names waits for the first to end.                                       *)
(***************************************************************************)
EXTENDS Version0001, Absent, Naturals

CONSTANTS
    Migrators       \* processes that may run alembic

VARIABLES
    accounts,       \* whether the schema exists
    db,             \* what is in it
    version,        \* the row of alembic_version
    migrators       \* what each process is doing

migrationVars == <<accounts, db, version, migrators>>

Latest == "0001_accounts"

ASSUME VersionsAssumption == None # Latest

\* pending is the database as the process's transaction sees it, next the
\* statement it is to execute.
MigratorStates ==
    [pc : {"idle", "schema", "version", "ddl", "failed"}, to : {Latest, None},
     next : Nat, pending : SUBSET Metadata]

Statements(to) == IF to = Latest THEN Upgrade ELSE Downgrade

Became(p, pc) == migrators' = [migrators EXCEPT ![p].pc = pc]

\* alembic upgrade or downgrade; without the OM_DB_* variables it stops here.
StartMigration(p) ==
    /\ migrators[p].pc \in {"idle", "failed"}
    /\ \E to \in {Latest, None} :
          migrators' = [migrators EXCEPT ![p] = [pc |-> "schema", to |-> to, next |-> 1,
                                                 pending |-> {}]]
    /\ UNCHANGED <<accounts, db, version>>

\* CREATE SCHEMA IF NOT EXISTS, which two processes may find missing together:
\* the name is unique, and one of them fails.
EnsureSchema(p) ==
    /\ migrators[p].pc = "schema"
    /\ \/ accounts' = TRUE /\ Became(p, "version")
       \/ /\ ~accounts
          /\ \E q \in Migrators \ {p} : migrators[q].pc = "schema"
          /\ Became(p, "failed")
          /\ UNCHANGED accounts
    /\ UNCHANGED <<db, version>>

InDdl(p) == migrators[p].pc = "ddl"

\* The transaction begins with the version, as committed.
ReadVersion(p) ==
    /\ migrators[p].pc = "version"
    /\ IF version = migrators[p].to THEN Became(p, "idle")
       ELSE migrators' = [migrators EXCEPT ![p].pc = "ddl", ![p].pending = db]
    /\ UNCHANGED <<accounts, db, version>>

TablesIn(objects) == {o.table : o \in OfKind(objects, "table")}

\* What goes with a table: its constraints and indexes.
Contents(objects, tables) == {o \in objects : o.table \in tables}

\* PostgreSQL refuses what is there already or not there, a key to a table that
\* is not there, and dropping a table that another refers to.
Refused(objects, statement) ==
    LET dropped == TablesIn(statement.drops) IN
    \/ statement.creates \intersect objects # {}
    \/ ~(statement.drops \subseteq objects)
    \/ \E k \in OfKind(statement.creates, "key") :
          k.to \notin TablesIn(objects \union statement.creates)
    \/ \E k \in OfKind(objects, "key") : k.to \in dropped /\ k.table \notin dropped

After(objects, statement) ==
    (objects \union statement.creates)
        \ (statement.drops \union Contents(objects, TablesIn(statement.drops)))

\* A process whose first statement changed something, which nobody else sees.
Locks(p) == InDdl(p) /\ migrators[p].next > 1

\* The first statement waits for the names another transaction holds; the names
\* that transaction left behind are what it then finds.
ExecuteStatement(p) ==
    LET statements == Statements(migrators[p].to)
        i == migrators[p].next
        objects == IF i = 1 THEN db ELSE migrators[p].pending
    IN  /\ InDdl(p)
        /\ i \in DOMAIN statements
        /\ \A q \in Migrators \ {p} : ~Locks(q)
        /\ IF Refused(objects, statements[i])
           THEN Became(p, "failed")
           ELSE migrators' = [migrators EXCEPT ![p].next = i + 1,
                                               ![p].pending = After(objects, statements[i])]
        /\ UNCHANGED <<accounts, db, version>>

\* The version row changes with the schema.
CommitMigration(p) ==
    /\ InDdl(p)
    /\ migrators[p].next > Len(Statements(migrators[p].to))
    /\ db' = migrators[p].pending
    /\ version' = migrators[p].to
    /\ Became(p, "idle")
    /\ UNCHANGED accounts

\* The process is killed, or the connection lost: PostgreSQL rolls back.
MigratorDies(p) ==
    /\ migrators[p].pc \notin {"idle", "failed"}
    /\ Became(p, "idle")
    /\ UNCHANGED <<accounts, db, version>>

--------------------------------------------------------------------------------

MigrationInit ==
    /\ accounts = FALSE
    /\ db = {}
    /\ version = None
    /\ migrators = [p \in Migrators |->
                       [pc |-> "idle", to |-> None, next |-> 1, pending |-> {}]]

MigrationNext ==
    \E p \in Migrators :
        \/ StartMigration(p) \/ EnsureSchema(p) \/ ReadVersion(p)
        \/ ExecuteStatement(p) \/ CommitMigration(p) \/ MigratorDies(p)

MigrationSpec == MigrationInit /\ [][MigrationNext]_migrationVars

--------------------------------------------------------------------------------
(* Properties *)

\* Whatever is killed, repeated or run twice at once, the database is either at
\* version 0001 with every table, key, index and CHECK that the ORM's classes
\* declare, and no other, or empty: the migration and the classes agree, and no
\* half of one is ever committed.
WholeVersions ==
    \/ version = None /\ db = {}
    \/ version = Latest /\ accounts /\ db = Metadata
================================================================================
