--------------------------------- MODULE Service ---------------------------------
(***************************************************************************)
(* The parts of the service around its routes, side by side: connections,  *)
(* background tasks, accounts with all they hold, and migrations.  They    *)
(* share nothing but the database server, and one of them, chosen at the   *)
(* start, moves while the others rest.                                     *)
(*                                                                         *)
(* Narrow is the pool with a single thread, which is enough for everybody  *)
(* to wait for everybody; two are needed for two first requests at once.   *)
(*                                                                         *)
(* The keys of the plot cache are a function of the core that was sent: a  *)
(* part that does not move.                                                *)
(*                                                                         *)
(* The history variable alone tells whether one process or request at a    *)
(* time did something so far, nothing having failed half way.              *)
(***************************************************************************)
EXTENDS ConnectionPool, Telemetry, AccountData, Migration

ASSUME AloneAssumption == IsFiniteSet(Workers) /\ IsFiniteSet(Migrators)

VARIABLES
    part,           \* which part moves
    alone

Narrow == INSTANCE ConnectionPool WITH Threads <- 1

Parts == {"narrow", "wide", "telemetry", "account", "migration", "keys"}

serviceVars == <<poolVars, telemetryVars, accountVars, migrationVars, part, alone>>

Init ==
    /\ PoolInit /\ TelemetryInit /\ AccountInit /\ MigrationInit
    /\ part \in Parts
    /\ alone = TRUE

AccountAlone == Cardinality({w \in Workers : serving'[w].pc # "free"}) <= 1

MigrationAlone ==
    Cardinality({p \in Migrators : migrators'[p].pc \notin {"idle", "failed"}}) <= 1

PoolMoves ==
    /\ \/ part = "narrow" /\ Narrow!PoolNext
       \/ part = "wide" /\ PoolNext
    /\ alone' = (alone /\ Cardinality(Initializing(requests')) <= 1)
    /\ UNCHANGED <<telemetryVars, accountVars, migrationVars>>

TelemetryMoves ==
    /\ part = "telemetry" /\ TelemetryNext
    /\ UNCHANGED <<poolVars, accountVars, migrationVars, alone>>

AccountMoves ==
    /\ part = "account" /\ AccountNext
    /\ alone' = (alone /\ AccountAlone)
    /\ UNCHANGED <<poolVars, telemetryVars, migrationVars>>

MigrationMoves ==
    /\ part = "migration" /\ MigrationNext
    /\ alone' = (alone /\ MigrationAlone)
    /\ UNCHANGED <<poolVars, telemetryVars, accountVars>>

Next ==
    /\ PoolMoves \/ TelemetryMoves \/ AccountMoves \/ MigrationMoves
    /\ part' = part

TakesThread(r) ==
    \/ part = "narrow" /\ Narrow!TakeThread(r)
    \/ part = "wide" /\ TakeThread(r)

\* PoolFairness, with as many threads as there are.
Fairness ==
    /\ WF_poolVars(Unblock)
    /\ \A r \in Requests :
          /\ WF_poolVars(Works(r))
          /\ SF_poolVars(TakesThread(r))
          /\ SF_poolVars(Close(r))

Spec == Init /\ [][Next]_serviceVars /\ Fairness

--------------------------------------------------------------------------------
(* Properties; those of the parts are stated in their modules. *)

\* One at a time, requests and migrations have no reason to fail: there is "one
\* process-wide pooled engine" (db.py), no first or later put_settings meets the
\* other's row, no save another's revision or a design that is gone, no export finds
\* a design without revisions or misses the newest of one, and no statement of a
\* migration comes before what it needs.
AloneNothingFails ==
    alone =>
        /\ Cardinality(created) <= 1
        /\ \A w \in Workers :
              /\ serving[w].answer # 500
              /\ serving[w].pc = "revisions" /\ serving[w].todo = {} =>
                    serving[w].exported = {NewestOf(d.id).id : d \in DesignsOf(serving[w].user)}
        /\ \A p \in Migrators : migrators[p].pc # "failed"
================================================================================
