----------------------------- MODULE ConnectionPool -----------------------------
(***************************************************************************)
(* How a request of the accounts feature gets its database session:        *)
(* app/backend/accounts/db.py, the dependencies of security.py, and the    *)
(* threads in which FastAPI runs them.                                     *)
(*                                                                         *)
(* get_db, current_user and the route are called one after the other, each *)
(* in a thread that the request asks for and gives back; a session takes a *)
(* connection at its first query and keeps it until it commits or is       *)
(* closed, across the calls.  So requests hold connections while they wait *)
(* for a thread, and threads while they wait for a connection.             *)
(*                                                                         *)
(* Coroutines that block, such as the routes of Drawings, stop the event   *)
(* loop, and with it every request between two calls.                      *)
(***************************************************************************)
EXTENDS Absent, Naturals, FiniteSets

CONSTANTS
    Requests,       \* requests under way at a time
    Engines,        \* what create_engine may return
    Threads,        \* the 40 threads of the server
    PoolLimit       \* pool_size + max_overflow of an engine

ASSUME PoolAssumption == IsFiniteSet(Requests) /\ PoolLimit \in Nat

ASSUME EnginesAssumption == None \notin Engines /\ Threads \in Nat \ {0}

VARIABLES
    engine,         \* _engine
    factory,        \* the engine that the sessions of _SessionLocal use
    created,        \* the engines created so far
    checkedOut,     \* how many connections each engine has given out
    requests,       \* what each request is doing
    loop            \* whether the event loop is free or blocked

poolVars == <<engine, factory, created, checkedOut, requests, loop>>

\* The calls of a request, in order, and the stages of get_session_factory.
Calls == {"enter", "lookup", "route"}

Making == {"factory", "engine", "create", "maker"}

\* bound is the engine of the request's session, or the one it is about to
\* bind the factory to.
RequestStates ==
    [stage : Calls \union Making \union {"idle", "refresh", "exit"},
     threaded : BOOLEAN, connected : BOOLEAN, bound : Engines \union {None},
     failed : BOOLEAN]

Idle == [stage |-> "idle", threaded |-> FALSE, connected |-> FALSE, bound |-> None,
         failed |-> FALSE]

In(r, stage) == requests[r].stage = stage

Busy(rs) == {r \in Requests : rs[r].threaded}

Initializing(rs) == {r \in Requests : rs[r].stage \in Making}

Connected(e) == {r \in Requests : requests[r].connected /\ requests[r].bound = e}

Go(r, stage) == requests' = [requests EXCEPT ![r].stage = stage]

\* The call returns, or raises: its thread is free again.
Return(r, stage) ==
    requests' = [requests EXCEPT ![r].stage = stage, ![r].threaded = FALSE]

Raise(r) ==
    requests' = [requests EXCEPT ![r].stage = "exit", ![r].threaded = FALSE,
                                 ![r].failed = TRUE]

--------------------------------------------------------------------------------
(* The event loop *)

Begin(r) ==
    /\ loop = "free"
    /\ In(r, "idle")
    /\ requests' = [requests EXCEPT ![r] = [Idle EXCEPT !.stage = "enter"]]
    /\ UNCHANGED <<engine, factory, created, checkedOut, loop>>

\* The limiter of the threads serves in order of arrival.
TakeThread(r) ==
    /\ loop = "free"
    /\ requests[r].stage \in Calls
    /\ ~requests[r].threaded
    /\ Cardinality(Busy(requests)) < Threads
    /\ requests' = [requests EXCEPT ![r].threaded = TRUE,
                        ![r].stage = IF @ = "enter" THEN "factory" ELSE @]
    /\ UNCHANGED <<engine, factory, created, checkedOut, loop>>

Block ==
    /\ loop = "free"
    /\ loop' = "blocked"
    /\ UNCHANGED <<engine, factory, created, checkedOut, requests>>

\* The drawing is there, or its tries are over.
Unblock ==
    /\ loop = "blocked"
    /\ loop' = "free"
    /\ UNCHANGED <<engine, factory, created, checkedOut, requests>>

--------------------------------------------------------------------------------
(* get_session_factory, get_engine: each looks whether the global is set,  *)
(* sets it, and returns what it is by then.                                *)

FindFactory(r) ==
    /\ In(r, "factory")
    /\ IF factory = None THEN Go(r, "engine")
       ELSE requests' = [requests EXCEPT ![r].stage = "lookup", ![r].threaded = FALSE,
                                         ![r].bound = factory]
    /\ UNCHANGED <<engine, factory, created, checkedOut, loop>>

FindEngine(r) ==
    /\ In(r, "engine")
    /\ IF engine = None THEN Go(r, "create")
       ELSE requests' = [requests EXCEPT ![r].stage = "maker", ![r].bound = engine]
    /\ UNCHANGED <<engine, factory, created, checkedOut, loop>>

\* "the first use raises loudly" (_database_url) if the environment does not name
\* the database, which an engine that was made before rules out.
NotConfigured(r) ==
    /\ In(r, "create")
    /\ created = {}
    /\ Raise(r)
    /\ UNCHANGED <<engine, factory, created, checkedOut, loop>>

CreateEngine(r) ==
    /\ In(r, "create")
    /\ \E e \in Engines \ created :
          /\ engine' = e
          /\ created' = created \union {e}
    /\ Go(r, "engine")
    /\ UNCHANGED <<factory, checkedOut, loop>>

MakeFactory(r) ==
    /\ In(r, "maker")
    /\ factory' = requests[r].bound
    /\ Go(r, "factory")
    /\ UNCHANGED <<engine, created, checkedOut, loop>>

--------------------------------------------------------------------------------
(* Sessions *)

WaitsForConnection(r) ==
    /\ requests[r].stage \in {"lookup", "route", "refresh"}
    /\ requests[r].threaded
    /\ ~requests[r].connected

HasRoom(e) == checkedOut[e] < PoolLimit

CheckOut(r) ==
    LET e == requests[r].bound IN
    /\ WaitsForConnection(r)
    /\ HasRoom(e)
    /\ checkedOut' = [checkedOut EXCEPT ![e] = @ + 1]
    /\ requests' = [requests EXCEPT ![r].connected = TRUE]
    /\ UNCHANGED <<engine, factory, created, loop>>

\* Mutant: the pool has no timeout.
PoolTimesOut_Never(r) == FALSE

\* pool_timeout, or a database that cannot be reached.
PoolTimesOut(r) == WaitsForConnection(r)

NoConnection(r) ==
    /\ PoolTimesOut(r)
    /\ Raise(r)
    /\ UNCHANGED <<engine, factory, created, checkedOut, loop>>

\* A request without a cookie asks nothing.
NotAuthenticated(r) ==
    /\ In(r, "lookup")
    /\ requests[r].threaded
    /\ Raise(r)
    /\ UNCHANGED <<engine, factory, created, checkedOut, loop>>

GivenBack(r) == [checkedOut EXCEPT ![requests[r].bound] = @ - 1]

\* commit() gives the connection back; the next query asks for one again.
Commits(r) ==
    /\ requests[r].connected
    /\ checkedOut' = GivenBack(r)
    /\ UNCHANGED <<engine, factory, created, loop>>

Keeps == UNCHANGED <<engine, factory, created, checkedOut, loop>>

\* _lookup_user: the session it found is extended with a commit, or left alone.
LookUp(r) ==
    /\ In(r, "lookup")
    /\ requests[r].threaded
    /\ requests[r].connected
    /\ \/ Return(r, "route") /\ Keeps
       \/ /\ requests' = [requests EXCEPT ![r].stage = "route", ![r].threaded = FALSE,
                                          ![r].connected = FALSE]
          /\ Commits(r)

\* The route reads, or commits and is done, or reads again what it committed,
\* or fails on the way.
RunRoute(r) ==
    /\ In(r, "route")
    /\ requests[r].threaded
    /\ requests[r].connected
    /\ \/ Return(r, "exit") /\ Keeps
       \/ Raise(r) /\ Keeps
       \/ \E stage \in {"exit", "refresh"} :
             /\ requests' = [requests EXCEPT ![r].stage = stage, ![r].connected = FALSE,
                                             ![r].threaded = (stage = "refresh")]
             /\ Commits(r)

Refresh(r) ==
    /\ In(r, "refresh")
    /\ requests[r].connected
    /\ Return(r, "exit")
    /\ Keeps

\* Mutant: a session is closed only when the request succeeds.
Closes_Success(r) == requests[r].connected /\ ~requests[r].failed

\* The finally of get_db.
Closes(r) == requests[r].connected

\* It has a thread of its own.
Close(r) ==
    /\ loop = "free"
    /\ In(r, "exit")
    /\ checkedOut' = IF Closes(r) THEN GivenBack(r) ELSE checkedOut
    /\ requests' = [requests EXCEPT ![r] = Idle]
    /\ UNCHANGED <<engine, factory, created, loop>>

--------------------------------------------------------------------------------

PoolInit ==
    /\ engine = None
    /\ factory = None
    /\ created = {}
    /\ checkedOut = [e \in Engines |-> 0]
    /\ requests = [r \in Requests |-> Idle]
    /\ loop = "free"

\* What a request does once it has its thread.
Works(r) ==
    \/ FindFactory(r) \/ FindEngine(r) \/ NotConfigured(r) \/ CreateEngine(r) \/ MakeFactory(r)
    \/ CheckOut(r) \/ NoConnection(r) \/ NotAuthenticated(r)
    \/ LookUp(r) \/ RunRoute(r) \/ Refresh(r)

PoolNext ==
    \/ Block \/ Unblock
    \/ \E r \in Requests : Begin(r) \/ TakeThread(r) \/ Works(r) \/ Close(r)

\* Code that has a thread goes on, a request is never passed over for ever by
\* others that come for a thread, and a coroutine that blocks the loop returns,
\* which EveryRequestAnswered of Drawings shows of the drawing routes.
PoolFairness ==
    /\ WF_poolVars(Unblock)
    /\ \A r \in Requests :
          WF_poolVars(Works(r)) /\ SF_poolVars(TakeThread(r)) /\ SF_poolVars(Close(r))

PoolSpec == PoolInit /\ [][PoolNext]_poolVars /\ PoolFairness

--------------------------------------------------------------------------------
(* Properties *)

\* Whatever fails, a connection is held by a request that still runs, and each
\* engine gives out no more than it may.
PoolKept ==
    \A e \in Engines :
        /\ checkedOut[e] = Cardinality(Connected(e))
        /\ checkedOut[e] <= PoolLimit

\* With every thread waiting for a connection and every connection waiting for
\* a thread, requests still end: the pool's timeout breaks the circle.
EveryRequestEnds ==
    \A r \in Requests : ~In(r, "idle") ~> In(r, "idle")
================================================================================
