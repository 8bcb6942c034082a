-------------------------------- MODULE Telemetry --------------------------------
(***************************************************************************)
(* The telemetry route of api.py and TelemetryTable.record of              *)
(* app/backend/models.py, which background tasks run after the answer:     *)
(* one transaction of three statements, in a connection of its own.        *)
(*                                                                         *)
(* An upsert locks its row until the transaction ends, and an upsert of    *)
(* the same key waits for it, whether the row was there or not.            *)
(***************************************************************************)
EXTENDS Absent, Sequences, Naturals, FiniteSets

CONSTANTS
    SessionIds,     \* browser tabs; events without one share "unknown"
    Documents,      \* MAS documents, as canonical JSON
    Tasks,          \* background tasks under way at a time
    OmEnv,          \* the backend's own environment
    UseDb,
    PostBound       \* bound of the model: events posted

ASSUME NoneAssumption == None \notin Nat \union {"development", "production"}

VARIABLES
    tasks,          \* what each background task is doing
    sessions,       \* telemetry.sessions: the environment of each session
    designs,        \* telemetry.designs, [id, document]
    events,         \* telemetry.events, in the order of their ids
    serial,         \* the sequence of design ids, which no rollback takes back
    posted          \* events posted so far

telemetryVars == <<tasks, sessions, designs, events, serial, posted>>

Environments == {"development", "production"}

Off == [pc |-> "off", session |-> None, environment |-> None, document |-> None,
        seen |-> None, design |-> None, inserted |-> FALSE]

Stage(t, stage) == tasks[t].pc = stage

\* The environment a frontend declares, when it is one there is.
Environment(declared) ==
    IF declared \in Environments THEN declared
    ELSE IF OmEnv = "development" THEN "development" ELSE "production"

\* json.dumps with sorted keys: the order a client's keys come in is lost.
Post(t) ==
    /\ UseDb
    /\ Stage(t, "off")
    /\ posted < PostBound
    /\ posted' = posted + 1
    /\ \E s \in SessionIds, declared \in Environments \union {None},
          d \in Documents \union {None} :
          tasks' = [tasks EXCEPT ![t] = [Off EXCEPT !.pc = "session", !.session = s,
                        !.environment = Environment(declared), !.document = d]]
    /\ UNCHANGED <<sessions, designs, events, serial>>

\* Tasks whose transaction holds the row of a session, or of a document.
HoldsSession(t, s) == tasks[t].pc \in {"design", "event", "commit"} /\ tasks[t].session = s

HoldsDocument(t, d) == tasks[t].pc \in {"event", "commit"} /\ tasks[t].document = d

\* ON CONFLICT only last_seen is touched: the environment stays the first one's.
UpsertSession(t) ==
    LET s == tasks[t].session IN
    /\ Stage(t, "session")
    /\ \A u \in Tasks \ {t} : ~HoldsSession(u, s)
    /\ tasks' = [tasks EXCEPT ![t].pc = "design",
                     ![t].seen = IF sessions[s] = None THEN tasks[t].environment
                                 ELSE sessions[s]]
    /\ UNCHANGED <<sessions, designs, events, serial, posted>>

\* Mutant: the hash is looked up without waiting for whoever inserts it.
DocumentIsFree_Unlocked(t, d) == TRUE

DocumentIsFree(t, d) == \A u \in Tasks \ {t} : ~HoldsDocument(u, d)

RowFor(d) == {row \in designs : row.document = d}

\* Mutant: the id is that of the newest row there is.
DesignId_Newest(d) ==
    IF RowFor(d) = {} THEN serial
    ELSE (CHOOSE row \in designs : \A x \in designs : x.id <= row.id).id

\* RETURNING design_id, of the row that was there or of the new one.
DesignId(d) ==
    IF RowFor(d) = {} THEN serial ELSE (CHOOSE row \in RowFor(d) : TRUE).id

UpsertDesign(t) ==
    LET d == tasks[t].document IN
    /\ Stage(t, "design")
    /\ IF d = None THEN tasks' = [tasks EXCEPT ![t].pc = "event"] /\ UNCHANGED serial
       ELSE /\ DocumentIsFree(t, d)
            /\ serial' = serial + 1
            /\ tasks' = [tasks EXCEPT ![t].pc = "event",
                             ![t].inserted = RowFor(d) = {},
                             ![t].design = DesignId(d)]
    /\ UNCHANGED <<sessions, designs, events, posted>>

InsertEvent(t) ==
    /\ Stage(t, "event")
    /\ tasks' = [tasks EXCEPT ![t].pc = "commit"]
    /\ UNCHANGED <<sessions, designs, events, serial, posted>>

CommitEvent(t) ==
    /\ Stage(t, "commit")
    /\ sessions' = [sessions EXCEPT ![tasks[t].session] = tasks[t].seen]
    /\ designs' = IF tasks[t].inserted
                  THEN designs \union {[id |-> tasks[t].design,
                                        document |-> tasks[t].document]}
                  ELSE designs
    /\ events' = Append(events, [session |-> tasks[t].session, design |-> tasks[t].design])
    /\ tasks' = [tasks EXCEPT ![t] = Off]
    /\ UNCHANGED <<serial, posted>>

\* No connection, a statement that fails, a server that stops: what the task has
\* done is rolled back, and nobody tries again.
TaskFails(t) ==
    /\ ~Stage(t, "off")
    /\ tasks' = [tasks EXCEPT ![t] = Off]
    /\ UNCHANGED <<sessions, designs, events, serial, posted>>

--------------------------------------------------------------------------------

TelemetryInit ==
    /\ tasks = [t \in Tasks |-> Off]
    /\ sessions = [s \in SessionIds |-> None]
    /\ designs = {}
    /\ events = <<>>
    /\ serial = 1
    /\ posted = 0

TelemetryNext ==
    \E t \in Tasks :
        \/ Post(t) \/ UpsertSession(t) \/ UpsertDesign(t) \/ InsertEvent(t)
        \/ CommitEvent(t) \/ TaskFails(t)

TelemetrySpec == TelemetryInit /\ [][TelemetryNext]_telemetryVars

--------------------------------------------------------------------------------
(* Properties *)

\* "Identical MAS across several events stores ONE design row, referenced many
\* times" (record): one row per document, and no event whose row is missing.
OneRowPerDocument ==
    /\ \A x, y \in designs : x.document = y.document \/ x.id = y.id => x = y
    /\ \A i \in DOMAIN events :
          events[i].design # None => \E row \in designs : row.id = events[i].design

\* What a reader gets who joins the three tables.
DocumentOf(id) ==
    IF id = None THEN None ELSE (CHOOSE row \in designs : row.id = id).document

Joined ==
    [i \in DOMAIN events |->
        [session |-> events[i].session,
         environment |-> sessions[events[i].session],
         document |-> DocumentOf(events[i].design)]]

\* The events that tasks have been given and have neither committed nor lost.
Outstanding ==
    {[by |-> t, event |-> [session |-> tasks[t].session,
                           environment |-> tasks[t].environment,
                           document |-> tasks[t].document]] :
        t \in {u \in Tasks : ~Stage(u, "off")}}

Log == INSTANCE TelemetryLog WITH log <- Joined, outstanding <- Outstanding, Posters <- Tasks

\* The joined tables are a log: whatever runs at once, fails or is lost, an event
\* that is there was posted, and is there once, under the session and with the
\* document it was posted with; nothing about it changes later, and its environment
\* is that of the first event recorded under its session (record).
ImplementsTelemetryLog == Log!LogSpec
================================================================================
