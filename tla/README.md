# A specification of WebBackend

WebBackend is the HTTP backend of OpenMagnetics: accounts with designs, inventories,
organizations and share links over PostgreSQL, 3D models and drawings made by a Celery
worker, rate limits and telemetry. This directory holds TLA+ specifications of it, the TLC
configurations that check them on small instances, and theorems checked by TLAPS.

Contents: [the system](#the-system) · [what is hard](#what-is-hard) ·
[modules](#modules) · [how a module relates to the code](#how-a-module-relates-to-the-code) ·
[runs and bounds](#runs-and-bounds) · [fairness and deadlock](#fairness-and-deadlock) ·
[proofs](#proofs) · [findings](#findings) · [not modelled](#not-modelled) · [plan](#plan)

## The system

| part (under `src/`) | state it keeps | operations | talks to |
|---|---|---|---|
| My Designs, `app/backend/accounts/routers/designs.py` | tables `designs` (envelope: name, version, deleted) and `design_revisions` (a rolling window of documents) | create, open, save with `If-Match`, rename, delete, list, read revisions | its owner, or an organization's members by role (`orgs.py`); share links show it |
| Organizations, `routers/organizations.py`, `orgs.py` | `organizations`, `memberships` (a pending invitation is a membership without a user) | create, delete, invite, accept, change role, remove or leave | designs and inventories owned by it; the cascade of account deletion |
| Accounts, sessions and links, `routers/auth.py`, `security.py`, `routers/me.py` | `users`, `sessions`, `email_tokens` | register, log in and out, change password, verify, reset, delete account; the session lookup of every request | emailer; every other router, through `current_user` |
| Settings, export, deletion, `routers/me.py` | `user_settings`; the rows of all tables that belong to an account | read and write settings, zip of everything, deletion through the foreign keys | every table of the schema |
| Rate limits, `ratelimit.py` | `_windows`, a map in memory under a lock | the dependency of every limited route | requests of all routes |
| Inventory, `routers/inventory.py` | `inventory_parts` | upsert one, import many, edit, delete, list, context for the adviser | organizations (role), shares (mounted inventories) |
| Share links, `routers/shares.py` | `share_links`, `inventory_mounts` | share, revoke, open, mount, unmount | designs and their revisions, inventories |
| 3D models and drawings, `api.py`, `plotter.py`, `models.py` | the Celery queue and the tasks of its worker, model files on disk, table `plot_cache` | four routes that send a task and wait for it with retries; three tasks; purge of the queue | the external geometry builder, RabbitMQ, Redis |
| Cache keys, `plotter.py`, `mas_models.py` | none | how a task reads a core and hashes it | the cache of the drawings |
| Database session, `db.py` | `_engine`, `_SessionLocal`, a pool of connections | `get_db`, engine and factory on first use | all of the accounts feature |
| Telemetry, `api.py`, `models.py` | `telemetry.sessions`, `.designs`, `.events` | one transaction per event, in a background task | its own engine |
| Migrations, `src/alembic` | the schema itself, `alembic_version` | upgrade and downgrade | the classes of `accounts/models.py` |
| Bug reports, MAS validation, the other generated classes, emailer, LaTeX, simulation, body-size limit | none, or a row per request | pure functions, library calls, one insert | - |

What makes each of the modelled parts correct:

- **Designs**: a design always has a document; a save either becomes the next revision or is
  refused; nobody replaces a document unseen; the history is a window of at most
  `MAX_REVISIONS_PER_DESIGN` consecutive revisions; a rename is not undone by a save; the
  limit on designs.
- **Organizations**: an owner is left; who may give which role; a revoked membership stays
  revoked; one membership per user; the limit on members.
- **Accounts**: one account per address; no session or link outlives its user; a destroyed
  session stays destroyed; a changed password ends the sessions of the old one; an account
  is verified by a link mailed for that purpose only; a link works once.
- **What an account holds**: keys lead to rows through every deletion; a deletion takes all
  that is the account's and nothing else; an export holds the newest revision of each design.
- **Rate limits**: a bounded map, `Retry-After` that is long enough, a bound on what is let
  through in any span.
- **Inventory**: one live part per name (the key of the upsert), the limit, deleted parts
  stay deleted, librarians' privileges.
- **Shares**: revoked for good, the limit on links, one mount per link.
- **Drawings**: the drawing of the core that was asked for, the one in the cache, no
  truncated model and no failed request unless tasks of one key overlap, an answer to every
  request, a row of the cache for one core only.
- **Database sessions**: connections are given back whatever fails, and every request ends.
- **Telemetry**: one row per document, and a readable log of the events that were posted,
  each with its own document.
- **Migrations**: whole versions only, in agreement with the classes of the ORM.

## What is hard

Handlers declared with `def` run at the same time in a pool of threads, each with a
SQLAlchemy session of its own. The ORM keeps its writes until the commit; PostgreSQL runs
at READ COMMITTED and the code never locks a row it reads. So a handler is a sequence of
atomic steps, one per query and one per commit, and what it has read may be stale when it
commits: requests that check together pass together, and only unique indexes, foreign keys
and updates computed by the database hold under every race. Some routes commit twice and
may stop in between. A request also holds a connection while it waits for a thread, and a
thread while it waits for a connection. Telemetry's upserts lock rows and wait for each
other. The drawing routes are coroutines that block, wait for a task with a
timeout, send it again, and share a cache, a queue and a disk with tasks of earlier tries
that are still running or whose worker was restarted. `PROJECT.json` lists each hazard at
its line, with the properties that would catch it going wrong.

## Modules

| module | models | lines it stands for |
|---|---|---|
| `DesignLog` | what My Designs promises: one log of documents per design, whose head is only ever replaced by its successor | abstract |
| `DesignStore` | create, open, save, rename, delete of designs, and what clients do with the versions they are sent | `designs.py`, `db.py`, `models.py` |
| `MCDesignStore`, `MCDesignHistory` | its instances for TLC; history variables | - |
| `Roster` | what an organization promises about its members: seats that are offered, taken, ranked and closed | abstract |
| `Organizations`, `MCOrganizations` | one organization, its members and invitations | `organizations.py`, `orgs.py`, `me.py` |
| `AccountBook` | what accounts promise: an entry per account, whose sessions, links and verification are its own, and which closes for good | abstract |
| `Sessions`, `MCSessions` | accounts, sessions, verification and reset links | `auth.py`, `security.py`, `me.py` |
| `RateLimit`, `MCRateLimit` | fixed windows under threads | `ratelimit.py` |
| `Drawings` | routes, broker, worker, tasks, files, cache | `api.py`, `plotter.py`, `models.py` |
| `MCDrawings`, `MCDrawingsHistory` | its instances for TLC; history variables | - |
| `MagneticModels` | the classes a core is made of and how each field reads | `mas_models.py` |
| `CoreKeys` | reading JSON into those classes, writing it back, the key that is hashed | `plotter.py`, `mas_models.py` |
| `MCCoreKeys` | the documents of the instance | - |
| `Catalog` | what an inventory promises: a map from names to parts | abstract |
| `Inventory`, `MCInventory` | parts of one organization | `inventory.py`, `orgs.py` |
| `Grants` | what sharing promises: a grant per link, which is withdrawn for good and followed one user at a time | abstract |
| `Shares`, `MCShares` | one user's links and who mounts them | `shares.py` |
| `ConnectionPool` | engine and factory on first use, sessions, threads, the pool and its timeout | `db.py`, `security.py` |
| `TelemetryLog` | what telemetry promises: events are posted, and each is lost, or logged once with what it was posted with; one environment per session | abstract |
| `Telemetry` | the route, the background task, its transaction and row locks | `api.py`, `models.py` |
| `Schema` | tables, keys, indexes and checks as the ORM declares them | `accounts/models.py` |
| `AccountData` | settings, saves, export and deletion over the rows of `Schema` | `me.py`, `designs.py` |
| `Version0001` | the statements of the one migration, up and down | `0001_accounts_accounts_schema.py` |
| `Migration` | two `alembic` processes that run them and may be killed | `alembic/env.py` |
| `Absent` | the value for nothing that the parts of `Service` share | - |
| `Service` | `ConnectionPool`, `Telemetry`, `AccountData` and `Migration`, side by side; history variable | - |
| `MCService` | `Service` and the keys, for TLC | - |
| `DesignStoreProofs`, `OrganizationsProofs`, `SessionsProofs`, `RateLimitProofs`, `InventoryProofs`, `SharesProofs`, `DrawingsProofs` | theorems of the module they are named after; where history variables are needed, of its MC module, whose specification they extend | - |
| `ServiceProofs` | theorems of `Service` and of the parts it puts side by side | - |

Modules meet where the code's parts do: `Inventory` has the role changes and the deletion
of `Organizations` as its environment, `Shares` the saves and the deletion of
`DesignStore`, `Organizations` the account deletion of `Sessions`, `AccountData` the saves
of `DesignStore`, by their queries and their commit, over rows that the other modules' routes
have made. `Migration` and `AccountData` share `Schema`: the one compares the
database it leaves with it, the other deletes through its keys. `Drawings` names a core by
its shape; `CoreKeys` justifies that: a key is of one core, whoever computes it.
`DesignStore` implements `DesignLog` under the mapping `head <- newest revision`,
`live <- designs not deleted`; `Telemetry` implements `TelemetryLog` under
`log <- events joined with sessions and designs`,
`outstanding <- the events background tasks are at work on`; `Organizations` implements `Roster` under
`seats <- user and role of each row not revoked`; `Sessions` implements `AccountBook` under
`book <- each account with its live sessions and what was mailed to it`,
`used <- tokens ever inserted`; `Inventory` implements `Catalog` under
`catalog <- the row not deleted of each name`, `used <- rows ever inserted`; `Shares`
implements `Grants` under `grants <- each link's row with the users who have it mounted`,
visits left out. The abstract
modules have no requests, so what a request does with stale data must come out as one of
their steps, or as none.

## How a module relates to the code

- **A request** is a record in `req` (`handler` and `runners` in `Drawings`, `threads` in
  `RateLimit`): `pc` is the next query or commit, the other fields are what the handler has
  read or was asked for. `Start...`/`Load...` actions begin one, each later action is one
  query or one commit with everything the handler writes in it.
- **A check that fails** raises an `HTTPException` and the session rolls back; so does a
  lost connection or a stopped process. All of them are `Abort`, which may happen at any
  step; guards of the actions are the checks that must pass to go on.
- **A commit** writes only the columns whose value differs from the one loaded, as the ORM
  does, into the row as it is then; constraints of the tables (`KeyAccepted`,
  `UserIsFree`, `EmailIsFree`, `UserExists`, `NamesAreFree`) are guards of the commit.
- **Row identifiers, tokens, documents, names, passwords** are model values: random
  identifiers are never reused, documents are equal when their canonical hashes are.
- **A client** of `DesignStore` is a browser tab: it shows the document it last fetched or
  saved and sends the version of its last `GET` or save response in `If-Match`. The
  frontend is not in the repository; this is what the API's answers are made for.
- **`import_ndjson`** is a coroutine that does not await after it has the body, so one
  import at a time runs past that point (`LoopIsFree`); the other inventory routes run in
  threads beside it.
- **The four drawing routes** are coroutines too and block, so one request at a time is
  served; the shape routes run in threads and purge the queue under it. A shape is
  buildable or not (`Valid`); the builder itself is external.
- **Time**: `RateLimit` counts ticks, two to the second in the runs; a session ages in
  three steps (fresh, due for extension, expired) and a link expires.
- **`ConnectionPool`** follows a request from call to call: it takes a thread, waits for a
  connection, gives the thread back, and closes its session at the end. `Block` and
  `Unblock` are coroutines elsewhere in the server that stop the event loop.
- **`AccountData`** holds rows with their references: of every table that refers to an
  account, the sessions, links and invitations included, each account starts with some. A
  deletion computes what the keys of `Schema` take along, restrict or set to null, in one
  step, as PostgreSQL does. The export reads a design at a time, and a save is its two
  queries and its commit, so all of them come between each other's steps.
- **`Telemetry`** makes an upsert wait until no other transaction holds its row; an aborted
  transaction keeps the ids it drew, as sequences do.
- **`Migration`** executes one statement of `Version0001` per step inside a transaction
  that may be killed; DDL on the same names waits for the transaction before it.
- **`CoreKeys`** has no state. JSON is a value with its kind; a class reads its fields in
  order, a union takes the first type that fits, `.dict()` writes nulls for what is
  missing, and the key is the object that is hashed. Hashes are taken to differ.
- **History variables** live in the MC modules only. `alone` says that every request so far
  ended before the next began: what the code promises and keeps only for requests that do
  not overlap is stated under it, so that one run explores both. `lapped` holds designs
  for which a save has slept through a whole rotation of the history; `outdated` the
  sessions that rest on a replaced password; `admitted` the requests of each client that were
  let through less than a window ago, as records that say when. `disturbed` holds the tasks
  whose model file another task has opened since, `events` what has befallen the drawing
  request that is served: tasks of its key beside the one it waits for, or the API running the
  task itself.

## Runs and bounds

| run | instance | what it checks |
|---|---|---|
| `saves` | 1 design, 2 clients, 2 documents, 2 names, window of 2, 4 revisions | `VersionNeverAhead`, `WindowUnlessLapped`, `QuotaOvershootBounded`, `NameChangesOnlyOnRequest`, `ImplementsLog`; `NoOverwriteAlone` |
| `members` | 2 users who may leave, 3 rows, 2 requests, limit of 2 | `OneMembershipPerUser`, `MembersBounded`, `ImplementsRoster`; `LastOwnerAlone`, `OnlyAllowedAlone` |
| `accounts` | 1 address, 2 accounts, 2 passwords, 2 sessions, 2 links, 2 requests, crashes | `AccountsSeparate`, `VerifiedByLink`, `ImplementsAccountBook`; `OldSessionsKilled`, `LinkUsedOnce` |
| `rate` | 2 clients, 2 threads, room for 1 window, limit 2 in 2 s, 10 half seconds | `MapBounded`, `RetryIsEnough`; `TwiceTheLimit` |
| `drawings_races` | 2 cores, 2 processes and the API, 2 tries, a broker that fails, restarts | `OwnShape`, `AnswerIsCached`, `FailsOnlyByRace`, `TruncatedOnlyIfDisturbed` |
| `drawings_answered` | 2 cores (one not buildable), 1 process, 3 tries, a broker that may be down, restarts, purges | `EveryRequestAnswered` under fairness |
| `inv_parts` | 3 parts, 3 names, 2 documents, 2 requests, imports of 2 lines, limit 2 | `UniqueNames`, `ImplementsCatalog`; `QuotaRespected`, `EditsByLibrarian` |
| `shares_links` | 2 links, 2 mounts, 2 requests, 2 revisions, 2 visits, limit 1 | `LinksBounded`, `ImplementsGrants`; `MountedOnceAlone` |
| `service` | pool: 2 requests, 2 engines, 1 connection, 1 or 2 threads; telemetry: 2 tabs, 2 documents, 2 tasks, 3 posts; account: 2 users, 1 value, 5 revisions in all, 2 requests; migration: 2 processes; keys: 1728 documents of a core | `PoolKept`, `EveryRequestEnds` under fairness; `OneRowPerDocument`, `ImplementsTelemetryLog`; `Consistent`, `DeletesItsOwn`; `WholeVersions`; `AloneNothingFails`; `KeysTellCores` |

`NoOverwriteAlone`, `LastOwnerAlone`, `OnlyAllowedAlone`, `OldSessionsKilled`,
`LinkUsedOnce`, `QuotaRespected`, `EditsByLibrarian`, `MountedOnceAlone` and
`AloneNothingFails` are stated under `alone`. `TwiceTheLimit` rests on the history variable
`admitted`, `WindowUnlessLapped` on `lapped`, `TruncatedOnlyIfDisturbed` on `disturbed`,
`FailsOnlyByRace` on `events`.

Three runs look for a violation; see [findings](#findings): `overwrite`, `last_owner`,
`shares_mounts`.

Three runs explore one behaviour out of several, chosen at the start, so that each is
complete without the product of all. In `accounts` the variable `routes` says whether the
requests are those of a cookie (log in, change password, delete) or those of mails
(request and use verification and reset links, register, delete); sessions age only in the
first, links expire only in the second. In `inv_parts` it says whether creates and imports
overlap each other, over all the rows, or edits and deletions overlap each other and one
create or import of a single name, over two rows; roles change in the second, the
organization is deleted in the first. A `PATCH` of that run changes the document or the
lifecycle; what it does to both is what two of them do. In `service` the variable `part`
says which of the parts moves, or that none does and the keys of the cache, which have no
state, are compared. The parts share nothing in the code but the database server.

The Celery worker is started without `--concurrency` (`BUILD.md:48`), so it forks several
processes: `drawings_races` has two and the API beside them, which is what every race between
tasks takes. In `drawings_answered` one process is enough, since the property assumes nothing of
the worker; what it needs is that every outcome of a try occurs, again and again.

Why these bounds are enough for the cases that matter: two requests reach every race of
the code, since each check-then-write is between two; limits of one or two are reached
while another request is past its check. A limit of two parts is what an import of two lines
needs to be let in at all, and three names are what it takes to pass it. `MaxRevisions = 2` stands for 50: with
`RevisionBound = 4` the history rotates twice and a save can be lapped, which needs a
sleeper and a window's worth of saves. Two account identifiers for one address let an
account be deleted and registered again while requests for the first are under way. Half
seconds make the rounding of `Retry-After` matter, and five window lengths let a span touch
two windows wherever it lies. `Roles` of `inv_parts` are member and librarian: below a
member every write ends in 403, above a librarian nothing changes. One connection and one
thread are what two requests need to wait for each other in a circle; two threads are
what two first requests need to make two engines. Two tabs and two documents let an event
share neither, either or both with the one it waits for, and a third post follows one that
was rolled back. Two users, each in the other's organization by invitation, let a deletion leave a
neighbour's rows, and release those that only name it. Five revisions in all, four of which are there
at the start, let one save come between the queries of an export, of another save or of a
deletion; a save that adds nothing can do so without end.
The constants `RevisionBound`, `VisitBound`, `ClockBound`, `CountBound`, `QueueBound`,
`PostBound` and `MaxLines` are bounds of the model and named so where they are declared. In
`Drawings`, `QueueBound` only holds back new requests.

`KeysTellCores` compares all keys of 1728 documents: two families, two subtypes of one of
them and two sizes of a dimension, which say which core it is; and how it is written: the size
as a number, as a numeral or with a tolerance; a dimension other families have; two orders of
the dimensions; the subtype missing, a number or text; the material by its name, with less or
with more of its data; unknown members and nulls in the places they may stand. A tolerance, an
order or a missing subtype may cost a row of its own, and the property does not say
otherwise; what it says is that a row, of whichever task, is never of two cores, and that what
`clean_dimensions` and the classes are there to remove costs no row. One material with a field
of every class below it and one geometry stand for the others, since a class reads them all
alike. Numerals have one digit.

The properties about limits take requests that have passed the check together with the
rows there are (`Live` and `Counted`, for instance), so that they are exact: the overshoot
is at most the requests in flight, and one comparison off breaks them.

## Fairness and deadlock

Two components have liveness.

`FairSpec` of `Drawings` asks for weak fairness of `Serve`, what the API's
own event loop does with the request it serves: `AsyncResult.get` has a timeout, so the
loop always goes on. Nothing is assumed of broker, queue or worker, which may stop for
good; a request is answered all the same.

`PoolFairness` of `ConnectionPool` asks for weak fairness of `Unblock` (a coroutine that
blocks the loop has timeouts of its own) and of `Works(r)`, what a request does with the
thread it has: its queries end, and a wait for a connection ends in `TimeoutError` after
`pool_timeout`. It asks for strong fairness of `TakeThread(r)` and `Close(r)`: threads are
handed out in the order they were asked for, but come and go, so the step is not enabled
all the time. Without the timeout the circle of waits would be final.

Elsewhere an answer depends on the client or the database, which the code cannot force,
and safety is what is at stake.

`CHECK_DEADLOCK FALSE` stands in the configurations whose identifiers, clocks or counters
are finite: once all rows are used up and no request is under way the instance stops,
the program does not. The two `Drawings` runs, which reuse everything, check deadlock.

## Proofs

| theorem | states |
|---|---|
| `DesignStoreProofs!TypeCorrect` | `Spec => []TypeOK` |
| `DesignStoreProofs!VersionNeverAheadHolds` | the version never passes the newest revision, so a design always has a document |
| `DesignStoreProofs!NameChangesOnlyOnRequestHolds` | a name changes only to what the committing request asked for |
| `DesignStoreProofs!QuotaOvershootBoundedHolds` | the limit on designs is overshot by less than the requests in flight |
| `DesignStoreProofs!ImplementsLogHolds` | `DesignStore` implements `DesignLog` |
| `OrganizationsProofs!OneMembershipPerUserHolds`, `!RevokedForGoodHolds`, `!MembersBoundedHolds` | one membership per user, revoked rows stay revoked, the overshoot of the limit on members |
| `OrganizationsProofs!ImplementsRosterHolds` | `Organizations` implements `Roster` |
| `SessionsProofs!AccountsSeparateHolds`, `!VerifiedByLinkHolds`, `!DestroyedForGoodHolds` | one account per address and nothing without its account; verified only by a spent verification link of its own; destroyed sessions stay destroyed |
| `SessionsProofs!ImplementsAccountBookHolds` | `Sessions` implements `AccountBook` |
| `RateLimitProofs!TypeCorrect`, `!WindowsAreStarted`, `!MapStaysBounded`, `!RetryAlwaysEnough` | types, no window ahead of the clock, the bound on the map, `Retry-After` |
| `InventoryProofs!UniqueNamesHolds`, `!DeletedForGoodHolds` | one live part per name; deleted parts stay deleted |
| `InventoryProofs!ImplementsCatalogHolds` | `Inventory` implements `Catalog` |
| `SharesProofs!RevokedForGoodHolds`, `!LinksBoundedHolds` | revoked links stay revoked; the overshoot of the limit on links |
| `SharesProofs!ImplementsGrantsHolds` | `Shares` implements `Grants` |
| `ServiceProofs!PoolKeptHolds` | what an engine has given out is what running requests hold, and within its limit |
| `ServiceProofs!OneRowPerDocumentHolds`, `!ImplementsTelemetryLogHolds` | one row per document, no event without its row; `Telemetry` implements `TelemetryLog` |
| `ServiceProofs!WholeVersionsHolds` | outside a transaction the database is empty, or at version 0001 and what the ORM declares |
| `ServiceProofs!ConsistentHolds` | no key of an account's rows leads nowhere, no design is without a revision, and a name has one row per table |
| `ServiceProofs!DeletesItsOwnHolds` | the deletion of an account takes its own rows and nobody else's |
| `DrawingsProofs!OwnShapeHolds`, `!AnswerIsCachedHolds` | answers are of the core that was asked for, and what the cache holds |
| `DrawingsProofs!TruncatedOnlyIfDisturbedHolds` | a truncated model is cached only by a task whose file another one opened meanwhile |
| `DrawingsProofs!FailsOnlyByRaceHolds` | a request fails only if tasks of its key overlapped while it waited, or the task of another product answered it |
| `DesignStoreProofs!WindowUnlessLappedHolds` | a history no save of which was lapped is a window of consecutive revisions |

and for requests that come one at a time:

| theorem | states |
|---|---|
| `DesignStoreProofs!NoOverwriteAloneHolds` | no client replaces a document it has not seen |
| `OrganizationsProofs!LastOwnerAloneHolds`, `!OnlyAllowedAloneHolds` | an owner is left; rows change by whom the rules allow |
| `SessionsProofs!OldSessionsKilledHolds`, `!LinkUsedOnceHolds` | a password changed by `change_password` has ended every session but the one that changed it; a link works once |
| `InventoryProofs!QuotaRespectedHolds`, `!EditsByLibrarianHolds` | the limit on parts; only librarians edit or delete an approved part, or approve one |
| `SharesProofs!MountedOnceAloneHolds` | nobody mounts a link twice |
| `RateLimitProofs!TwiceTheLimitHolds` | no span of a window's length lets through more than twice the limit |
| `ServiceProofs!AloneNothingFailsHolds` | one engine is made, the routes of an account answer, an export is complete, no statement of a migration is refused |

They hold for every value of the constants that meets the assumptions named in the
modules: identifiers are finite sets where they are counted, limits positive numbers, the
values for "nothing" and "deleted" are no rows, seats, entries of the book, parts of
the catalog or grants. One theorem has a hypothesis
of its own, on what is deployed: `AnswerIsCached` supposes that the cache's database is up,
and holds of the instance its run checks.

**Designs.** The code has no lock; what saves the history is its primary key. A save
carries the newest revision it saw, `latest`, and the oldest, `oldest`, through two more
steps, while others commit. Type correctness does not say what these stale copies are
worth, so `Inv` adds, for every request past its load, that the version it loaded has been
*reached* by some revision of the design, and that `latest` is still there or has been
*passed* by a higher one. Both are stable because no commit lowers the newest revision
(`CommitKeepsNewest`, `RanksKept`): the row a commit deletes, its `oldest`, was passed,
and the row it inserts has a free key, so the newest row survives. `ImplementsLogHolds`
follows: an insert either comes after the newest revision, a step of the log, or lands below
it, a stutter. The limit has an invariant of its own (`QuotaInv`): at most `MaxInFlight`
requests are in flight, and the live designs with the requests that passed the count stay
within the limit and those.

A save that no other lapped found the newest revision still the newest, and the oldest still
the oldest, when it committed (`TrimInv`); so it adds the next revision and takes one away
when the window is full (`WindowInv`). `LappedInv` says so of every design and request not
in `lapped`; a lapped save may leave anything. `NoOverwriteAlone` needs what a tab shows to
be true: a tab whose version is current shows the newest revision (`TabTrue`), and what a
request under way has read is still so (`RequestTrue`).

**Organizations.** `RowsAfter` says all a step can do to the table: nothing, one row more,
one row changed, or rows deleted with their user. Each property is then a question about
one row. `OneRowPerUser` is stronger than the property it proves, as the unique index is:
it counts revoked rows too. Before the organization exists no invitation can be under way
(`Unborn`).

In the refinement a commit into a row that was revoked meanwhile must show nothing, which
it does because only single columns are written; an acceptance is a seat taken by somebody
without another, which the index and not the query before it sees to; and a deleted account
closes one seat and no more, by `OneRowPerUser`. That the founder comes first and that
nobody is invited as an owner takes `RosterInv`, about requests under way.

**Sessions.** A request acts on what it read some steps ago. Its cookie's session is still
that user's, or gone (`HasCookie`); its link is still there for the purpose it was read
for, or the account is gone (`HasLink`); both because tokens and identifiers are never
used twice. `VerifiedByLink` needs in addition that a link spent is kept, which
`LinksKept` shows of every action.

In the refinement each commit must be one step of one account's entry. `SessionsAfter` says
what a step does to the table of sessions: one row more for an account that is there, one
refreshed, or some of one account's rows destroyed; `OneEntry` then says that only that
account's entry changes. The second commit of `change_password` destroys what it lists then,
so all it needs is that the sessions are of the cookie's account. A link is mailed to an
account that is there at the commit (`UserExists`), and what a spent link verifies is the
account it was mailed to because links are never handed on (`HasLink`, `HasAccount`). Closing
an account takes its rows by the cascades, and no other entry changes (`BookOfDeletions`).

**Rate limits.** `Inv` adds to the types that no thread holds a clock ahead of the real
one, hence no window starts ahead of it. `RetryAlwaysEnough` rests on one lemma about
integer division, `RoundedUp`: `(a \div Ticks + 1) * Ticks > a`.

**Inventory.** The index refuses a name that is live at the commit. That the names one
import adds differ from each other is the request's own doing: it looks among what it has
added first (`NamesDiffer`, `NotAdded`). That the rows it will add are nobody else's holds
because identifiers are drawn once (`Apart`).

The refinement rests on `UniqueNames`: a name has at most one live row, so there is such a
thing as its part (`NamesShown`). An edit or deletion writes into one row, and if that row
has been deleted meanwhile nothing is shown of it (`EditImplementsCatalog`). An upsert may
find rows that are deleted before it commits and names that others have filled; what its
commit does to each name is still one of three things: nothing, a document put into the part
that is there, or a new part (`UpsertsImplementCatalog`).

**Shares.** Rows are updated and never deleted, so what a request found is still a row
when it writes (`RequestKnown`). The limit has an invariant of its own, `Room`.

In the refinement a visit must show nothing and a revocation take only the grant back, which
`LinksAfter` says of every write to a link's row. A mount is a user who follows an
inventory: `GrantsInv` carries the kind of the link from the query that looked at it, over
the count of the visit, to the insert, and says that mounts are of inventories that were
made; a new link therefore has no followers. As a user may mount a link twice (see
[findings](#findings)), removing one mount shows something only if it was the last.

**Connections.** A connection is counted against the engine it came from, so a request must
keep its engine as long as it holds one (`Bound`). Every step of a request is one of three:
it takes a connection, gives one back, or holds what it held; one lemma, `CountsKept`,
does the arithmetic for all of them.

**Telemetry.** A transaction may go by what its upserts returned because they locked what
they looked at: the session stays as seen, and a document found missing stays missing,
until it commits (`Sound`); no two transactions hold one key (`Apart`). The refinement
then needs that a commit appends one joined event, the one its task was given, and changes none
before it: what the task has for a design is the id of its document's row, or will be at the
commit.

**Migrations.** After `n` statements a transaction sees the version it started from with
those applied (`Partial`, `Midway`), and of two transactions one has changed nothing yet
(`Locks`). What makes it a theorem about this schema and not about any is that the
statements of `upgrade` create all that the classes declare and nothing else
(`UpgradeCreates`, table by table), and those of `downgrade` drop every table of it
(`DowngradeDrops`).

**What an account holds.** The proof goes class by class: `Schema` fixes which columns
are keys and where they lead, and `Columns` lists them. `WithCascades` stops after three
rounds, and only `Rank`, which falls along every key that cascades, shows that this is
enough (`CascadesEnd`): what is left refers to nothing that went. `RowsInv` is the inductive
invariant: rows have the columns of their class, keys lead to rows, a design's newest
revision is there and no deletion takes it alone, a name has one row. `GoneIsMine` says
whose rows a cascade reaches, which is `DeletesItsOwn`.

**Drawings.** `TasksOwn` follows a request through queue, worker and retries: while it
waits, whatever can still reply is a task of its own product and shape, or of an earlier
request whose reply is dropped. A reply waiting to be fetched is in the cache
(`ReplyIsCached`), because a task that lost the race for the row returns the row.

A task that opens a file after looking into the cache has it to itself until somebody else
opens it: it is that task's or finished, and what was read from it is whole (`Undisturbed`).
Restarts do not matter, since a task always writes the file before it reads it. For failures the invariant
says that an entry at the key of an awaited task that had missed it was made by another task
beside it (`Overtaken`), which `events` remembers for as long as the request is served
(`MayFailStays`); only then can the primary key refuse its insert (`RunFails`). A gapping
drawing may also be answered by a model: from the cache, or by the API itself (`Misled`).

**One request at a time.** What the code promises only to requests that do not overlap is
proved over the specification with `alone`. Each module's `AloneInv` says that at most one
request is busy and that what this one has read still holds when it writes: the roles and
the count of owners (`RequestTrue` of `Organizations`), an unspent link and sessions that
are about to be destroyed (`Unspent`, `Doomed`), the part as it was loaded and the room that
was counted (`StillLoaded`), the link not mounted. In `RateLimit` the requests let through
in the last window's length lie in the current window or in the one before it
(`TwoWindows`), each of which counted up to the limit.

`AloneNothingFails` is about three parts that share nothing; `ServiceInv` joins their
invariants and `ServiceInvNext` lets one move while the others keep theirs. A request in
`create_engine` finds that nobody has been there (`EngineAlone`). A migration finds the
version it has read (`MigratorAlone`), and every statement finds what it needs: `Made` and
`Unmade` tell which statement makes or drops a table, keys lead to tables made before and
dropped after (`KeysRise`), so at any point what the statements so far have left is enough
for the next (`Accepted`). A request of an account finds the row it looked for as it found it
(`Quiet`), and no row breaks a constraint (`AllPass`): what `ON DELETE SET NULL` touches are
columns that may be NULL, and a row with one of two owners goes with that owner
(`DeletePasses`).

Only model-checked:

- `EveryRequestEnds` and `EveryRequestAnswered`: liveness is out of the prover's reach.
- `KeysTellCores`: the reader of `CoreKeys` is `RECURSIVE`, and what it computes for every
  document would take an induction over data. `Service` is a module of its own, apart from
  `MCService`, so that it can be proved about without that reader.

## Findings

Kept as runs, whose counterexamples TLC prints:

1. `overwrite` (`designs.py:236`). A save answers after its commit, from a refreshed row.
   If another save commits in between, the answer carries that save's version; the client
   sends it in its next `If-Match`, which passes, and replaces a document it never saw.
2. `last_owner` (`organizations.py:217`). A removal reads its target as an admin, so it counts no
   owners; the target is then made an owner, and the other owner is removed with a count of
   two; the first removal commits and nobody is left. Two owners who demote or remove each
   other, both having counted two before either commits, end the same way, one step later.
3. `shares_mounts` (`shares.py:199`). A double click mounts a link twice; from then on each
   mount and unmount of it fails on `one_or_none()`, so it cannot be unmounted.

### Seen in the model

Behaviours of the same modules that disagree with a comment or with the code's own error
message, found while modelling and not kept as runs:

- `designs.py:204`: `If-Match` is compared with a row read before the newest revision is; a
  save overtaken in between is accepted although its version is stale (`:9-10`).
- `me.py:100`: deleting an account cascades to the membership of an organization's only
  owner ("the last owner is protected", `orgs.py:4`).
- `me.py`: the export's docstring says "Everything the account holds"; it leaves out the
  inventory, the shares and the mounts.
- `organizations.py:188`: two people who accept one invitation together both succeed, the
  second replaces the first. A member who was removed and invited again cannot accept: the
  revoked row holds the unique index.
- `organizations.py:114-115` says a deleted organization hides what it owns "everywhere";
  its designs still open by id and its parts still reach the adviser's context.
- `auth.py:152`: a login under way with the old password opens its session after
  `change_password` has ended the others; `:175`: the change commits before it ends them,
  and may stop in between. `:102`: two uses of one link at the same time both pass.
- `inventory.py:138`: two imports that count the parts at once pass the limit together.
- `ratelimit.py:25-26`: fixed windows let through up to twice the limit around the end of a
  window, and more once the map is cleared.
- `api.py:150`: a core whose tries all timed out is answered "Wrong dimensions".
  `plotter.py:54`: the cache key leaves out the format, so STEP may answer with STL.
- `plotter.py:26` and `:40`: a null `familySubtype`, which the class allows, becomes the
  text "None", which `int` refuses; a shape given by its name passes the class and then
  has no fields. In both cases the task raises before it has a key.
- `plotter.py:23`: the order of the dimensions changes the key, which costs a second plot
  and nothing else; so do a subtype left out and a tolerance. A gapping drawing and a
  model share a key when the material is a name and no dimension is foreign: whichever was made
  first answers both (`:54`), and a gapping drawing then reads a model's data as a Python
  literal (`:118`), which raises.
- `api.py:244`: when the broker is down a gapping drawing falls back to the task of the
  core's drawing. `plotter.py:62`: two processes that build one model write one file, and
  a reader may find it short (`TruncatedOnlyIfDisturbed` says that nothing else makes a model
  short). Two tasks of one key that both missed the cache both insert: the second fails on the
  primary key, and its request with it.
- `security.py:99`: requests that hold connections wait for threads held by requests that
  wait for connections, until the pool's timeout fails some of them.
- `db.py:30`: two first requests may make two engines ("one process-wide pooled engine",
  `:3-4`). The legacy tables are said to dispose of their engines per request; bug reports
  never do.
- `models.py:105`: the environment of a tab's first event stands for the session; tabs
  without an id share the session 'unknown', so one frontend's first event decides for all
  of them, against `api.py:275-276`.
- `inventory.py:5-7` says the adviser gets clean parts only, but `context_json` does not ask
  for `schema_valid`; `mas_validation.py:4-5` says invalid documents are never stored, and
  they are, with `schema_valid` false.
- `inventory.py:171`: a member may overwrite an approved part by posting its name, or by an
  edit that overlaps its approval (`:107`, `:205`).
- `shares.py:143`: a pinned revision that left the rolling window answers 404 though the
  link lives.

## Not modelled

| part | why |
|---|---|
| Sending of emails | one SMTP conversation without state; that SMTP may be missing and a link may never arrive is in `Sessions` |
| Validation of MAS documents | pure functions on JSON with an external schema; the modules take documents that passed |
| Classes outside a core | coils, wires, bobbins, circuits and converters: nothing in this repository reads them |
| Generated `from_dict` and `to_dict` | nothing calls them: pydantic reads the classes |
| Bug reports | one insert per request, and no state requests share |
| Stateless endpoints and middleware | body size, CORS, LaTeX, simulation, conversion of materials: functions of the request or calls to a library |

Within modelled parts: a design's access through an
organization, slugs and the number of organizations of a user, stock and order codes of
parts, the offline mode of `alembic`, which prints SQL, and every route that only reads,
unless what it reads decides a later write.

## Plan

Done, in this order, the most shared state and the most races first: `DesignStore` with
`DesignLog` and its proofs; `Organizations`; `Sessions`; `RateLimit` and its proofs;
`Drawings`; `Inventory`; `Shares`; then `ConnectionPool`, `Telemetry` with `TelemetryLog`,
`Schema` with `AccountData` and `Migration`, `CoreKeys`; then the proofs of `Organizations`,
`Sessions`, `Inventory`, `Shares`, `ConnectionPool` and `Telemetry`; then those of `Drawings`
and `Migration`, of the properties stated over history variables, of `AccountData`, and of
`Service`; then `Roster`, `AccountBook`, `Catalog` and `Grants` and the proofs that
`Organizations`, `Sessions`, `Inventory` and `Shares` implement them.

To model next: a composition of `DesignStore` and `Organizations`, about who may save a
design of an organization while roles change, and one of `Sessions` with any route.

To prove next: the composition, once a run has checked it. Every invariant and every action
property of a passing run has its theorem but `KeysTellCores`, as has every refinement;
the two liveness properties have none.
