------------------------------ MODULE ServiceProofs -----------------------------
(***************************************************************************)
(* Theorems of the parts of the service and of Service, which puts them    *)
(* side by side.                                                           *)
(*                                                                         *)
(* Connections, for any number of requests, engines and threads and any    *)
(* limit of the pool.  A connection is counted against the engine it came  *)
(* from, so the proof needs that a request keeps its engine as long as it  *)
(* holds a connection: sessions are bound before they ask for one (Bound), *)
(* and only the stages in which nothing is held bind them.                 *)
(*                                                                         *)
(* Telemetry, for any number of background tasks, sessions, documents and  *)
(* events.  A transaction may go by what its upserts returned because they *)
(* locked what they looked at: the session stays as seen, a document found *)
(* missing stays missing, until it commits (Sound); and no two             *)
(* transactions have the same session or document at once (Apart).         *)
(*                                                                         *)
(* Migrations, for any number of processes.  A transaction sees the        *)
(* version it started from with its first statements applied (Midway),     *)
(* only one has changed anything at a time (Locks), and all statements     *)
(* together lead from one whole version to the other: those of upgrade     *)
(* create what the ORM's classes declare (UpgradeCreates), those of        *)
(* downgrade drop every table of it (DowngradeDrops).                      *)
(*                                                                         *)
(* What an account holds, for any accounts, settings and number of         *)
(* requests.  The keys of the schema are those of its classes, and every   *)
(* key that cascades leads to a table of a higher Rank, so three rounds    *)
(* take all that a deletion has to take (CascadesEnd).  RowsInv holds      *)
(* after every step because of it; and what goes with an account is what   *)
(* its columns say is the account's (GoneIsMine).                          *)
(*                                                                         *)
(* One request or process at a time, for any number of any of them: what   *)
(* it has read is still so when it acts on it (EngineAlone, MigratorAlone, *)
(* RequestAlone); a migration creates a table after those its keys lead to *)
(* and drops it before them, so every statement is accepted (Accepted);    *)
(* and no row that is written or left by a deletion breaks a constraint    *)
(* (AllPass).                                                              *)
(***************************************************************************)
EXTENDS Service, Integers,
        FiniteSetTheorems, FunctionTheorems, SequenceTheorems, TLAPS

--------------------------------------------------------------------------------
(* Connections *)

\* A request that may query is bound; one that has not come so far holds nothing.
Bound(q) ==
    /\ q.stage \in {"lookup", "route", "refresh", "maker"} => q.bound \in Engines
    /\ q.connected =>
          q.stage \in {"lookup", "route", "refresh", "exit"} /\ q.bound \in Engines

PoolTypeOK ==
    /\ engine \in Engines \union {None}
    /\ factory \in Engines \union {None}
    /\ checkedOut \in [Engines -> Int]
    /\ requests \in [Requests -> RequestStates]

PoolInv ==
    /\ PoolTypeOK
    /\ \A r \in Requests : Bound(requests[r])
    /\ PoolKept

\* Request r becomes q, and the counts follow what that does to its connection.
Takes(r, q) ==
    /\ ~requests[r].connected /\ q.connected /\ q.bound \in Engines
    /\ HasRoom(q.bound)
    /\ checkedOut' = [checkedOut EXCEPT ![q.bound] = @ + 1]

Gives(r, q) ==
    /\ requests[r].connected /\ ~q.connected
    /\ checkedOut' = GivenBack(r)

Holds(r, q) ==
    /\ q.connected = requests[r].connected
    /\ q.connected => q.bound = requests[r].bound
    /\ checkedOut' = checkedOut

Becomes(r, q) ==
    /\ q \in RequestStates /\ Bound(q)
    /\ requests' = [requests EXCEPT ![r] = q]
    /\ Takes(r, q) \/ Gives(r, q) \/ Holds(r, q)

--------------------------------------------------------------------------------

LEMMA ConnectedFinite ==
    ASSUME IsFiniteSet(Requests), NEW e \in Engines
    PROVE  /\ IsFiniteSet(Connected(e)) /\ Cardinality(Connected(e)) \in Nat
           /\ Connected(e) \subseteq Requests
  <1>1. Connected(e) \subseteq Requests
    BY DEF Connected
  <1> QED
    BY <1>1, FS_Subset, FS_CardinalityType

\* The counts stay right whatever a request becomes.
LEMMA CountsKept ==
    ASSUME IsFiniteSet(Requests), PoolLimit \in Nat,
           PoolInv, NEW r \in Requests, NEW q \in RequestStates, Becomes(r, q)
    PROVE  checkedOut' \in [Engines -> Int] /\ PoolKept'
  <1> USE DEF PoolInv, PoolTypeOK, PoolKept
  <1>1. requests'[r] = q /\ \A s \in Requests \ {r} : requests'[s] = requests[s]
    BY DEF Becomes
  <1>2. CASE Takes(r, q)
    <2>1. checkedOut' = [checkedOut EXCEPT ![q.bound] = checkedOut[q.bound] + 1]
      BY <1>2 DEF Takes
    <2>2. ASSUME NEW e \in Engines
          PROVE  checkedOut'[e] = Cardinality(Connected(e)') /\ checkedOut'[e] <= PoolLimit
      <3>1. CASE e = q.bound
        <4>1. Connected(e)' = Connected(e) \union {r} /\ r \notin Connected(e)
          BY <1>1, <1>2, <3>1 DEF Takes, Connected
        <4>2. Cardinality(Connected(e)') = Cardinality(Connected(e)) + 1
          BY <4>1, ConnectedFinite, FS_AddElement
        <4> QED
          BY <1>2, <2>1, <3>1, <4>2 DEF Takes, HasRoom
      <3>2. CASE e # q.bound
        <4>1. Connected(e)' = Connected(e)
          BY <1>1, <1>2, <3>2 DEF Takes, Connected
        <4> QED
          BY <2>1, <3>2, <4>1
      <3> QED
        BY <3>1, <3>2
    <2> QED
      BY <1>2, <2>1, <2>2 DEF Takes
  <1>3. CASE Gives(r, q)
    <2> DEFINE b == requests[r].bound
    <2>1. b \in Engines
      BY <1>3 DEF Gives, Bound
    <2>2. checkedOut' = [checkedOut EXCEPT ![b] = checkedOut[b] - 1]
      BY <1>3 DEF Gives, GivenBack
    <2>3. ASSUME NEW e \in Engines
          PROVE  checkedOut'[e] = Cardinality(Connected(e)') /\ checkedOut'[e] <= PoolLimit
      <3>1. CASE e = b
        <4>1. Connected(e)' = Connected(e) \ {r} /\ r \in Connected(e)
          BY <1>1, <1>3, <3>1 DEF Gives, Connected
        <4>2. Cardinality(Connected(e)') = Cardinality(Connected(e)) - 1
          BY <4>1, ConnectedFinite, FS_RemoveElement
        <4> QED
          BY <2>2, <3>1, <4>2, ConnectedFinite
      <3>2. CASE e # b
        <4>1. Connected(e)' = Connected(e)
          BY <1>1, <1>3, <3>2 DEF Gives, Connected
        <4> QED
          BY <2>1, <2>2, <3>2, <4>1
      <3> QED
        BY <3>1, <3>2
    <2> QED
      BY <2>1, <2>2, <2>3
  <1>4. CASE Holds(r, q)
    <2>1. ASSUME NEW e \in Engines PROVE Connected(e)' = Connected(e)
      BY <1>1, <1>4 DEF Holds, Connected
    <2> QED
      BY <1>4, <2>1 DEF Holds
  <1> QED
    BY <1>2, <1>3, <1>4 DEF Becomes

\* What every step of a request comes to.
LEMMA StepBecomes ==
    ASSUME PoolInv, NEW r \in Requests, Begin(r) \/ TakeThread(r) \/ Works(r) \/ Close(r)
    PROVE  \E q \in RequestStates : Becomes(r, q)
  <1> DEFINE s == requests[r]
  <1>0. s \in RequestStates /\ Bound(s) /\ PoolTypeOK
    BY DEF PoolInv, PoolTypeOK
  <1>1. CASE Begin(r)
    <2> DEFINE q == [Idle EXCEPT !.stage = "enter"]
    <2>1. q \in RequestStates /\ q.stage = "enter" /\ q.connected = FALSE
      BY DEF Idle, RequestStates, Calls
    <2>2. requests' = [requests EXCEPT ![r] = q] /\ s.stage = "idle" /\ checkedOut' = checkedOut
      BY <1>1 DEF Begin, In
    <2>3. s.connected = FALSE
      BY <1>0, <2>2 DEF Bound, RequestStates
    <2> HIDE DEF q
    <2> QED
      BY <2>1, <2>2, <2>3 DEF Becomes, Holds, Bound
  <1>2. CASE TakeThread(r)
    <2> DEFINE stage == IF s.stage = "enter" THEN "factory" ELSE s.stage
               q == [[s EXCEPT !.threaded = TRUE] EXCEPT !.stage = stage]
    <2>1. requests' = [requests EXCEPT ![r] = q] /\ checkedOut' = checkedOut
      BY <1>0, <1>2 DEF TakeThread, PoolTypeOK
    <2>2. stage \in {"factory", "lookup", "route"} /\ (s.stage = stage \/ s.stage = "enter")
      BY <1>2 DEF TakeThread, Calls
    <2> HIDE DEF stage
    <2>3. q \in RequestStates /\ q.stage = stage /\ q.connected = s.connected /\ q.bound = s.bound
      BY <1>0, <2>2 DEF RequestStates, Calls, Making
    <2> HIDE DEF q
    <2>4. Bound(q)
      <3>1. CASE s.stage = "enter"
        <4>1. ~s.connected
          BY <1>0, <3>1 DEF Bound
        <4> QED
          BY <1>0, <2>3, <3>1, <4>1 DEF Bound, stage
      <3>2. CASE s.stage = stage
        BY <1>0, <2>3, <3>2 DEF Bound
      <3> QED
        BY <2>2, <3>1, <3>2
    <2> QED
      BY <2>1, <2>3, <2>4 DEF Becomes, Holds
  <1>3. CASE FindFactory(r) \/ FindEngine(r)
    <2>1. s.stage \in {"factory", "engine"} /\ checkedOut' = checkedOut
      BY <1>3 DEF FindFactory, FindEngine, In
    <2>2. s.connected = FALSE
      BY <1>0, <2>1 DEF Bound, RequestStates
    <2>3. PICK stage \in {"engine", "create", "lookup", "maker"}, threaded \in BOOLEAN,
               bound \in Engines \union {None} :
             /\ requests' = [requests EXCEPT ![r] =
                   [[[s EXCEPT !.stage = stage] EXCEPT !.threaded = threaded]
                       EXCEPT !.bound = bound]]
             /\ stage \in {"lookup", "maker"} => bound \in Engines
      <3>1. CASE FindFactory(r) /\ factory # None
        <4>1. requests' = [requests EXCEPT ![r] =
                 [[[s EXCEPT !.stage = "lookup"] EXCEPT !.threaded = FALSE]
                     EXCEPT !.bound = factory]]
          BY <1>0, <3>1 DEF FindFactory, PoolTypeOK
        <4> QED
          BY <1>0, <3>1, <4>1 DEF PoolTypeOK
      <3>2. CASE FindEngine(r) /\ engine # None
        <4>1. requests' = [requests EXCEPT ![r] =
                 [[s EXCEPT !.stage = "maker"] EXCEPT !.bound = engine]]
          BY <1>0, <3>2 DEF FindEngine, PoolTypeOK
        <4>2. [s EXCEPT !.stage = "maker"]
              = [[s EXCEPT !.stage = "maker"] EXCEPT !.threaded = s.threaded]
          BY <1>0 DEF RequestStates
        <4>3. s.threaded \in BOOLEAN
          BY <1>0 DEF RequestStates
        <4> QED
          BY <1>0, <3>2, <4>1, <4>2, <4>3 DEF PoolTypeOK
      <3>3. ASSUME NEW stage \in {"engine", "create"},
                   requests' = [requests EXCEPT ![r] = [s EXCEPT !.stage = stage]]
            PROVE  requests' = [requests EXCEPT ![r] =
                      [[[s EXCEPT !.stage = stage] EXCEPT !.threaded = s.threaded]
                          EXCEPT !.bound = s.bound]]
        BY <1>0, <3>3 DEF RequestStates
      <3>4. CASE FindFactory(r) /\ factory = None
        <4>1. requests' = [requests EXCEPT ![r] = [s EXCEPT !.stage = "engine"]]
          BY <1>0, <3>4 DEF FindFactory, Go, PoolTypeOK
        <4> QED
          BY <1>0, <3>3, <4>1 DEF RequestStates
      <3>5. CASE FindEngine(r) /\ engine = None
        <4>1. requests' = [requests EXCEPT ![r] = [s EXCEPT !.stage = "create"]]
          BY <1>0, <3>5 DEF FindEngine, Go, PoolTypeOK
        <4> QED
          BY <1>0, <3>3, <4>1 DEF RequestStates
      <3> QED
        BY <1>3, <3>1, <3>2, <3>4, <3>5
    <2> DEFINE q == [[[s EXCEPT !.stage = stage] EXCEPT !.threaded = threaded]
                        EXCEPT !.bound = bound]
    <2>4. q \in RequestStates /\ q.stage = stage /\ q.connected = FALSE /\ q.bound = bound
      BY <1>0, <2>2 DEF RequestStates, Calls, Making
    <2> HIDE DEF q
    <2>5. Bound(q)
      BY <2>3, <2>4 DEF Bound
    <2> QED
      BY <2>1, <2>2, <2>3, <2>4, <2>5 DEF Becomes, Holds, q
  <1>4. CASE CreateEngine(r) \/ MakeFactory(r)
    <2>1. PICK stage \in {"engine", "factory"} :
             requests' = [requests EXCEPT ![r] = [s EXCEPT !.stage = stage]]
      BY <1>0, <1>4 DEF CreateEngine, MakeFactory, Go, PoolTypeOK
    <2>2. s.stage \in {"create", "maker"} /\ checkedOut' = checkedOut
      BY <1>4 DEF CreateEngine, MakeFactory, In
    <2>3. s.connected = FALSE
      BY <1>0, <2>2 DEF Bound, RequestStates
    <2> DEFINE q == [s EXCEPT !.stage = stage]
    <2>4. q \in RequestStates /\ q.stage = stage /\ q.connected = FALSE
      BY <1>0, <2>3 DEF RequestStates, Calls, Making
    <2> HIDE DEF q
    <2> QED
      BY <2>1, <2>2, <2>3, <2>4 DEF Becomes, Holds, Bound, q
  <1>5. CASE CheckOut(r)
    <2> DEFINE q == [s EXCEPT !.connected = TRUE]
    <2>1. requests' = [requests EXCEPT ![r] = q]
      BY <1>0, <1>5 DEF CheckOut, PoolTypeOK
    <2>2. /\ s.stage \in {"lookup", "route", "refresh"} /\ ~s.connected /\ HasRoom(s.bound)
          /\ checkedOut' = [checkedOut EXCEPT ![s.bound] = @ + 1]
      BY <1>5 DEF CheckOut, WaitsForConnection
    <2>3. s.bound \in Engines
      BY <1>0, <2>2 DEF Bound
    <2>4. /\ q \in RequestStates /\ q.stage = s.stage /\ q.bound = s.bound
          /\ q.connected = TRUE
      BY <1>0 DEF RequestStates
    <2> HIDE DEF q
    <2> QED
      BY <2>1, <2>2, <2>3, <2>4 DEF Becomes, Takes, Bound
  <1>6. CASE \/ NotConfigured(r) \/ NoConnection(r) \/ NotAuthenticated(r)
             \/ Raise(r) /\ Keeps
    <2> DEFINE q == [[[s EXCEPT !.stage = "exit"] EXCEPT !.threaded = FALSE]
                        EXCEPT !.failed = TRUE]
    <2>1. requests' = [requests EXCEPT ![r] = q] /\ checkedOut' = checkedOut
      BY <1>0, <1>6 DEF NotConfigured, NoConnection, NotAuthenticated, Raise, Keeps, PoolTypeOK
    <2>2. /\ q \in RequestStates /\ q.stage = "exit" /\ q.bound = s.bound
          /\ q.connected = s.connected
      BY <1>0 DEF RequestStates
    <2> HIDE DEF q
    <2> QED
      BY <1>0, <2>1, <2>2 DEF Becomes, Holds, Bound
  <1>7. CASE /\ LookUp(r) \/ RunRoute(r) \/ Refresh(r)
             /\ \E stage \in {"route", "exit"} : Return(r, stage) /\ Keeps
    <2>1. PICK stage \in {"route", "exit"} : Return(r, stage) /\ Keeps
      BY <1>7
    <2> DEFINE q == [[s EXCEPT !.stage = stage] EXCEPT !.threaded = FALSE]
    <2>2. requests' = [requests EXCEPT ![r] = q] /\ checkedOut' = checkedOut
      BY <1>0, <2>1 DEF Return, Keeps, PoolTypeOK
    <2>3. s.stage \in {"lookup", "route", "refresh"}
      BY <1>7 DEF LookUp, RunRoute, Refresh, In
    <2>4. /\ q \in RequestStates /\ q.stage = stage /\ q.bound = s.bound
          /\ q.connected = s.connected
      BY <1>0 DEF RequestStates, Calls
    <2> HIDE DEF q
    <2> QED
      BY <1>0, <2>2, <2>3, <2>4 DEF Becomes, Holds, Bound
  <1>8. CASE (LookUp(r) \/ RunRoute(r)) /\ Commits(r)
    <2>1. /\ s.stage \in {"lookup", "route"} /\ s.connected = TRUE
          /\ checkedOut' = GivenBack(r)
      BY <1>0, <1>8 DEF LookUp, RunRoute, In, Commits, RequestStates
    <2>2. GivenBack(r) # checkedOut
      BY <1>0, <2>1 DEF GivenBack, PoolTypeOK, Bound
    <2>3. ~Keeps
      BY <2>1, <2>2 DEF Keeps
    <2>4. PICK stage \in {"route", "exit", "refresh"}, threaded \in BOOLEAN :
             requests' = [requests EXCEPT ![r].stage = stage, ![r].threaded = threaded,
                                          ![r].connected = FALSE]
      <3>1. CASE LookUp(r)
        <4>1. requests' = [requests EXCEPT ![r].stage = "route", ![r].threaded = FALSE,
                                           ![r].connected = FALSE]
          BY <2>3, <3>1 DEF LookUp
        <4> QED
          BY <4>1
      <3>2. CASE RunRoute(r)
        <4>1. PICK stage \in {"exit", "refresh"} :
                 requests' = [requests EXCEPT ![r].stage = stage, ![r].connected = FALSE,
                                              ![r].threaded = (stage = "refresh")]
          BY <2>3, <3>2 DEF RunRoute
        <4>2. requests' = [requests EXCEPT ![r].stage = stage,
                                           ![r].threaded = (stage = "refresh"),
                                           ![r].connected = FALSE]
          BY <1>0, <4>1 DEF PoolTypeOK, RequestStates
        <4> QED
          BY <4>2
      <3> QED
        BY <1>8, <3>1, <3>2
    <2> DEFINE q == [[[s EXCEPT !.stage = stage] EXCEPT !.threaded = threaded]
                        EXCEPT !.connected = FALSE]
    <2>5. requests' = [requests EXCEPT ![r] = q]
      BY <1>0, <2>4 DEF PoolTypeOK
    <2>6. /\ q \in RequestStates /\ q.stage = stage /\ q.bound = s.bound
          /\ q.connected = FALSE
      BY <1>0 DEF RequestStates, Calls
    <2> HIDE DEF q
    <2> QED
      BY <1>0, <2>1, <2>5, <2>6 DEF Becomes, Gives, Bound
  <1>9. CASE Close(r)
    <2>1. Idle \in RequestStates /\ Idle.connected = FALSE /\ Idle.stage = "idle"
      BY DEF Idle, RequestStates
    <2>2. requests' = [requests EXCEPT ![r] = Idle]
      BY <1>9 DEF Close
    <2>3. checkedOut' = IF s.connected THEN GivenBack(r) ELSE checkedOut
      BY <1>9 DEF Close, Closes
    <2>4. s.connected \in BOOLEAN
      BY <1>0 DEF RequestStates
    <2> QED
      BY <2>1, <2>2, <2>3, <2>4 DEF Becomes, Gives, Holds, Bound
  <1>10. CASE LookUp(r)
    BY <1>7, <1>8, <1>10 DEF LookUp
  <1>11. CASE RunRoute(r)
    BY <1>6, <1>7, <1>8, <1>11 DEF RunRoute
  <1>12. CASE Refresh(r)
    BY <1>7, <1>12 DEF Refresh
  <1> QED
    BY <1>1, <1>2, <1>3, <1>4, <1>5, <1>6, <1>9, <1>10, <1>11, <1>12 DEF Works

\* The globals only ever hold engines.
LEMMA GlobalsTyped ==
    ASSUME PoolInv, PoolNext
    PROVE  engine' \in Engines \union {None} /\ factory' \in Engines \union {None}
  <1>1. CASE \E r \in Requests : CreateEngine(r)
    BY <1>1 DEF CreateEngine, PoolInv, PoolTypeOK
  <1>2. CASE \E r \in Requests : MakeFactory(r)
    BY <1>2 DEF MakeFactory, In, Bound, PoolInv, PoolTypeOK
  <1>3. CASE ~\E r \in Requests : CreateEngine(r) \/ MakeFactory(r)
    <2>1. engine' = engine /\ factory' = factory
      BY <1>3 DEF PoolNext, Block, Unblock, Begin, TakeThread, Works, Close, FindFactory,
                  FindEngine, NotConfigured, CheckOut, NoConnection, NotAuthenticated,
                  LookUp, RunRoute, Refresh, Commits, Keeps
    <2> QED
      BY <2>1 DEF PoolInv, PoolTypeOK
  <1> QED
    BY <1>1, <1>2, <1>3

LEMMA PoolInvInit == ASSUME PoolLimit \in Nat, PoolInit PROVE PoolInv
  <1>1. Idle \in RequestStates /\ Bound(Idle)
    BY DEF Idle, RequestStates, Bound
  <1>2. ASSUME NEW e \in Engines PROVE Cardinality(Connected(e)) = 0
    <2>1. Connected(e) = {}
      BY DEF PoolInit, Connected, Idle
    <2> QED
      BY <2>1, FS_EmptySet
  <1> QED
    BY <1>1, <1>2 DEF PoolInit, PoolInv, PoolTypeOK, PoolKept

LEMMA PoolInvNext ==
    ASSUME IsFiniteSet(Requests), PoolLimit \in Nat, PoolInv, [PoolNext]_poolVars
    PROVE  PoolInv'
  <1>1. CASE UNCHANGED poolVars \/ Block \/ Unblock
    BY <1>1 DEF poolVars, Block, Unblock, PoolInv, PoolTypeOK, PoolKept, Connected
  <1>2. CASE PoolNext /\ ~Block /\ ~Unblock
    <2>1. PICK r \in Requests, q \in RequestStates : Becomes(r, q)
      BY <1>2, StepBecomes DEF PoolNext
    <2>2. /\ requests' \in [Requests -> RequestStates]
          /\ \A s \in Requests : Bound(requests'[s])
      BY <2>1 DEF Becomes, PoolInv, PoolTypeOK
    <2> QED
      BY <1>2, <2>1, <2>2, CountsKept, GlobalsTyped DEF PoolInv, PoolTypeOK
  <1> QED
    BY <1>1, <1>2

--------------------------------------------------------------------------------

\* Whatever fails, times out or happens at first use, a connection that is given
\* out is held by a request that still runs, and no engine gives out more than
\* it may: get_db closes what a request leaves open, and nothing else does.
THEOREM PoolKeptHolds == PoolSpec => []PoolKept
  <1>1. PoolInit => PoolInv
    BY PoolInvInit, PoolAssumption
  <1>2. PoolInv /\ [PoolNext]_poolVars => PoolInv'
    BY PoolInvNext, PoolAssumption
  <1>3. PoolInv => PoolKept
    BY DEF PoolInv
  <1> QED
    BY <1>1, <1>2, <1>3, PTL DEF PoolSpec

--------------------------------------------------------------------------------
(* Telemetry *)

TaskStates ==
    [pc : {"off", "session", "design", "event", "commit"},
     session : SessionIds \union {None}, environment : Environments \union {None},
     document : Documents \union {None}, seen : Environments \union {None},
     design : Nat \union {None}, inserted : BOOLEAN]

DesignRows == [id : Nat, document : Documents]

EventRows == [session : SessionIds, design : Nat \union {None}]

TelemetryTypeOK ==
    /\ tasks \in [Tasks -> TaskStates]
    /\ sessions \in [SessionIds -> Environments \union {None}]
    /\ designs \subseteq DesignRows
    /\ events \in Seq(EventRows)
    /\ serial \in Nat

\* The stages after the upsert of the session, and after that of the design.
SawSession(q) == q.pc \in {"design", "event", "commit"}

SawDesign(q) == q.pc \in {"event", "commit"}

\* What task q knows of the tables, still true.
Sound(q, sessionsNow, designsNow, serialNow) ==
    /\ q.pc # "off" => q.session \in SessionIds /\ q.environment \in Environments
    /\ ~SawDesign(q) => q.design = None /\ ~q.inserted
    /\ SawSession(q) =>
          /\ q.seen \in Environments
          /\ sessionsNow[q.session] \in {None, q.seen}
          /\ sessionsNow[q.session] = None => q.seen = q.environment
    /\ SawDesign(q) /\ q.document = None => q.design = None /\ ~q.inserted
    /\ SawDesign(q) /\ q.document # None =>
          /\ q.design \in Nat /\ q.design < serialNow
          /\ IF q.inserted
             THEN \A row \in designsNow : row.document # q.document /\ row.id # q.design
             ELSE \E row \in designsNow : row.id = q.design /\ row.document = q.document

Apart(p, q) ==
    /\ SawSession(p) /\ SawSession(q) => p.session # q.session
    /\ SawDesign(p) /\ SawDesign(q) =>
          /\ p.document = q.document => p.document = None
          /\ p.inserted /\ q.inserted => p.design # q.design

RowsOK ==
    /\ \A x, y \in designs : x.document = y.document \/ x.id = y.id => x = y
    /\ \A x \in designs : x.id < serial

EventsOK ==
    /\ \A i \in DOMAIN events :
          /\ sessions[events[i].session] # None
          /\ events[i].design # None => \E row \in designs : row.id = events[i].design
    /\ \A s \in SessionIds :
          sessions[s] # None => \E i \in DOMAIN events : events[i].session = s

TelemetryInv ==
    /\ TelemetryTypeOK
    /\ \A t \in Tasks : Sound(tasks[t], sessions, designs, serial)
    /\ \A t, u \in Tasks : t # u => Apart(tasks[t], tasks[u])
    /\ RowsOK
    /\ EventsOK

--------------------------------------------------------------------------------

LEMMA OffIsSound ==
    /\ Off \in TaskStates
    /\ Off.pc = "off" /\ Off.document = None
    /\ Sound(Off, sessions, designs, serial)
    /\ ~SawSession(Off) /\ ~SawDesign(Off)
  BY DEF Off, TaskStates, Sound, SawSession, SawDesign

\* A step that moves task t and leaves the tables alone keeps the invariant when
\* what t has become knows only what is true and others do not know too.
LEMMA QuietStep ==
    ASSUME TelemetryInv, NEW t \in Tasks, NEW q \in TaskStates,
           tasks' = [tasks EXCEPT ![t] = q],
           UNCHANGED <<sessions, designs, events>>,
           serial' \in Nat, serial <= serial',
           Sound(q, sessions, designs, serial'),
           \A u \in Tasks \ {t} : Apart(tasks[u], q) /\ Apart(q, tasks[u])
    PROVE  TelemetryInv'
  <1>1. TelemetryTypeOK'
    BY DEF TelemetryInv, TelemetryTypeOK
  <1>2. ASSUME NEW u \in Tasks PROVE Sound(tasks'[u], sessions', designs', serial')
    <2>1. CASE u = t
      BY <2>1 DEF TelemetryInv, TelemetryTypeOK
    <2>2. CASE u # t
      <3>1. tasks'[u] = tasks[u] /\ Sound(tasks[u], sessions, designs, serial)
        BY <2>2 DEF TelemetryInv, TelemetryTypeOK
      <3>2. serial \in Nat
        BY DEF TelemetryInv, TelemetryTypeOK
      <3> QED
        BY <3>1, <3>2 DEF Sound
    <2> QED
      BY <2>1, <2>2
  <1>3. \A u, v \in Tasks : u # v => Apart(tasks'[u], tasks'[v])
    BY DEF TelemetryInv, TelemetryTypeOK
  <1>4. RowsOK'
    BY DEF TelemetryInv, TelemetryTypeOK, RowsOK, DesignRows
  <1>5. EventsOK'
    BY DEF TelemetryInv, EventsOK
  <1> QED
    BY <1>1, <1>2, <1>3, <1>4, <1>5 DEF TelemetryInv

LEMMA PostKeeps ==
    ASSUME TelemetryInv, NEW t \in Tasks, Post(t) PROVE TelemetryInv'
  <1>1. PICK s \in SessionIds, declared \in Environments \union {None},
             d \in Documents \union {None} :
           tasks' = [tasks EXCEPT ![t] = [[[[Off EXCEPT !.pc = "session"]
                        EXCEPT !.session = s]
                        EXCEPT !.environment = Environment(declared)]
                        EXCEPT !.document = d]]
    BY DEF Post
  <1>2. Environment(declared) \in Environments
    BY DEF Environment, Environments
  <1> DEFINE q == [[[[Off EXCEPT !.pc = "session"] EXCEPT !.session = s]
                      EXCEPT !.environment = Environment(declared)] EXCEPT !.document = d]
  <1>3. /\ q \in TaskStates /\ q.pc = "session" /\ q.session = s
        /\ q.environment = Environment(declared) /\ q.design = None /\ q.inserted = FALSE
    BY <1>2 DEF Off, TaskStates
  <1>4. tasks' = [tasks EXCEPT ![t] = q]
    BY <1>1
  <1> HIDE DEF q
  <1>5. Sound(q, sessions, designs, serial')
    BY <1>2, <1>3 DEF Sound, SawSession, SawDesign
  <1>6. \A u \in Tasks \ {t} : Apart(tasks[u], q) /\ Apart(q, tasks[u])
    BY <1>3 DEF Apart, SawSession, SawDesign
  <1>7. /\ UNCHANGED <<sessions, designs, events>>
        /\ serial' = serial /\ serial' \in Nat /\ serial <= serial'
    BY DEF Post, TelemetryInv, TelemetryTypeOK
  <1> QED
    BY <1>3, <1>4, <1>5, <1>6, <1>7, QuietStep

LEMMA UpsertSessionKeeps ==
    ASSUME None \notin Environments, TelemetryInv, NEW t \in Tasks, UpsertSession(t) PROVE TelemetryInv'
  <1> DEFINE p == tasks[t]
             s == p.session
             seen == IF sessions[s] = None THEN p.environment ELSE sessions[s]
             q == [[p EXCEPT !.pc = "design"] EXCEPT !.seen = seen]
  <1>1. p \in TaskStates /\ p.pc = "session" /\ Sound(p, sessions, designs, serial)
    BY DEF UpsertSession, Stage, TelemetryInv, TelemetryTypeOK
  <1>2. s \in SessionIds /\ p.environment \in Environments /\ p.design = None /\ ~p.inserted
    BY <1>1 DEF Sound, SawDesign
  <1>3. /\ seen \in Environments /\ sessions[s] \in {None, seen}
        /\ sessions[s] = None => seen = p.environment
    BY <1>2 DEF TelemetryInv, TelemetryTypeOK
  <1>4. tasks' = [tasks EXCEPT ![t] = q]
    BY <1>1 DEF UpsertSession, TelemetryInv, TelemetryTypeOK
  <1> HIDE DEF seen
  <1>5. /\ q \in TaskStates /\ q.pc = "design" /\ q.session = s /\ q.seen = seen
        /\ q.environment = p.environment /\ q.design = None /\ ~q.inserted
    BY <1>1, <1>2, <1>3 DEF TaskStates
  <1> HIDE DEF q
  <1>6. Sound(q, sessions, designs, serial')
    BY <1>2, <1>3, <1>5 DEF Sound, SawSession, SawDesign
  <1>7. \A u \in Tasks \ {t} : Apart(tasks[u], q) /\ Apart(q, tasks[u])
    BY <1>5 DEF UpsertSession, HoldsSession, Apart, SawSession, SawDesign
  <1>8. /\ UNCHANGED <<sessions, designs, events>>
        /\ serial' = serial /\ serial' \in Nat /\ serial <= serial'
    BY DEF UpsertSession, TelemetryInv, TelemetryTypeOK
  <1> QED
    BY <1>4, <1>5, <1>6, <1>7, <1>8, QuietStep

LEMMA UpsertDesignKeeps ==
    ASSUME TelemetryInv, NEW t \in Tasks, UpsertDesign(t) PROVE TelemetryInv'
  <1> DEFINE p == tasks[t]
             d == p.document
  <1>1. p \in TaskStates /\ p.pc = "design" /\ Sound(p, sessions, designs, serial)
    BY DEF UpsertDesign, Stage, TelemetryInv, TelemetryTypeOK
  <1>2. /\ UNCHANGED <<sessions, designs, events>>
        /\ serial \in Nat /\ serial' \in Nat /\ serial <= serial'
    <2>1. serial \in Nat
      BY DEF TelemetryInv, TelemetryTypeOK
    <2>2. UNCHANGED <<sessions, designs, events>>
      BY DEF UpsertDesign
    <2>3. serial' \in {serial, serial + 1}
      BY DEF UpsertDesign
    <2> QED
      BY <2>1, <2>2, <2>3
  <1>3. ASSUME NEW u \in Tasks \ {t} PROVE Apart(tasks[u], p) /\ Apart(p, tasks[u])
    BY DEF TelemetryInv
  <1>4. CASE d = None
    <2> DEFINE q == [p EXCEPT !.pc = "event"]
    <2>1. tasks' = [tasks EXCEPT ![t] = q]
      BY <1>1, <1>4 DEF UpsertDesign, TelemetryInv, TelemetryTypeOK
    <2>2. /\ q \in TaskStates /\ q.pc = "event" /\ q.session = p.session /\ q.seen = p.seen
          /\ q.environment = p.environment /\ q.document = None /\ q.design = p.design
          /\ q.inserted = p.inserted
      BY <1>1, <1>4 DEF TaskStates
    <2> HIDE DEF q
    <2>3. Sound(q, sessions, designs, serial')
      BY <1>1, <2>2 DEF Sound, SawSession, SawDesign
    <2>4. ~q.inserted
      BY <1>1, <2>2 DEF Sound, SawDesign
    <2>5. \A u \in Tasks \ {t} : Apart(tasks[u], q) /\ Apart(q, tasks[u])
      BY <1>1, <1>3, <2>2, <2>4 DEF Apart, SawSession, SawDesign
    <2> QED
      BY <1>2, <2>1, <2>2, <2>3, <2>5, QuietStep
  <1>5. CASE d # None
    <2> DEFINE new == RowFor(d) = {}
               id == DesignId(d)
               q == [[[p EXCEPT !.pc = "event"] EXCEPT !.inserted = new] EXCEPT !.design = id]
    <2>1. /\ tasks' = [tasks EXCEPT ![t] = q]
          /\ serial' = serial + 1
          /\ DocumentIsFree(t, d)
      BY <1>1, <1>5 DEF UpsertDesign, TelemetryInv, TelemetryTypeOK
    <2>2. new \in BOOLEAN
      OBVIOUS
    <2>3. /\ id \in Nat /\ id < serial'
          /\ new => id = serial /\ \A row \in designs : row.document # d /\ row.id # id
          /\ ~new => \E row \in designs : row.id = id /\ row.document = d
      <3>1. CASE new
        <4>1. id = serial /\ \A row \in designs : row.document # d
          BY <3>1 DEF RowFor, DesignId
        <4>2. \A row \in designs : row.id \in Nat /\ row.id < serial
          BY DEF TelemetryInv, RowsOK, TelemetryTypeOK, DesignRows
        <4>3. \A row \in designs : row.document # d /\ row.id # id
          BY <1>2, <4>1, <4>2
        <4>4. id \in Nat /\ id < serial'
          BY <1>2, <2>1, <4>1
        <4> QED
          BY <3>1, <4>1, <4>3, <4>4
      <3>2. CASE ~new
        <4>1. PICK row \in RowFor(d) : row = CHOOSE x \in RowFor(d) : TRUE
          BY <3>2
        <4>2. row \in designs /\ row.document = d /\ id = row.id
          BY <3>2, <4>1 DEF RowFor, DesignId
        <4>3. row.id \in Nat /\ row.id < serial
          BY <4>2 DEF TelemetryInv, RowsOK, TelemetryTypeOK, DesignRows
        <4>4. id \in Nat /\ id < serial'
          BY <1>2, <2>1, <4>2, <4>3
        <4>5. \E x \in designs : x.id = id /\ x.document = d
          BY <4>2
        <4> HIDE DEF id, new
        <4> QED
          BY <3>2, <4>4, <4>5
      <3> QED
        BY <3>1, <3>2
    <2> HIDE DEF new, id
    <2>4. /\ q \in TaskStates /\ q.pc = "event" /\ q.session = p.session /\ q.seen = p.seen
          /\ q.environment = p.environment /\ q.document = d /\ q.design = id
          /\ q.inserted = new
      BY <1>1, <2>3, <2>2 DEF TaskStates
    <2> HIDE DEF q
    <2>5. Sound(q, sessions, designs, serial')
      BY <1>1, <1>5, <2>3, <2>4 DEF Sound, SawSession, SawDesign
    <2>6. ASSUME NEW u \in Tasks \ {t} PROVE Apart(tasks[u], q) /\ Apart(q, tasks[u])
      <3>1. SawDesign(tasks[u]) => tasks[u].document # d
        BY <2>1 DEF DocumentIsFree, HoldsDocument, SawDesign
      <3>2. SawDesign(tasks[u]) /\ tasks[u].inserted =>
               tasks[u].design \in Nat /\ tasks[u].design < serial
        BY DEF TelemetryInv, Sound
      <3>3. new => \A n \in Nat : n < serial => n # id
        BY <1>2, <2>3
      <3> QED
        BY <1>1, <1>3, <2>4, <3>1, <3>2, <3>3 DEF Apart, SawSession, SawDesign
    <2> QED
      BY <1>2, <2>1, <2>4, <2>5, <2>6, QuietStep
  <1> QED
    BY <1>4, <1>5

LEMMA InsertEventKeeps ==
    ASSUME TelemetryInv, NEW t \in Tasks, InsertEvent(t) PROVE TelemetryInv'
  <1> DEFINE p == tasks[t]
             q == [p EXCEPT !.pc = "commit"]
  <1>1. p \in TaskStates /\ p.pc = "event" /\ Sound(p, sessions, designs, serial)
    BY DEF InsertEvent, Stage, TelemetryInv, TelemetryTypeOK
  <1>2. tasks' = [tasks EXCEPT ![t] = q]
    BY <1>1 DEF InsertEvent, TelemetryInv, TelemetryTypeOK
  <1>3. /\ q \in TaskStates /\ q.pc = "commit" /\ q.session = p.session /\ q.seen = p.seen
        /\ q.environment = p.environment /\ q.document = p.document /\ q.design = p.design
        /\ q.inserted = p.inserted
    BY <1>1 DEF TaskStates
  <1> HIDE DEF q
  <1>4. /\ UNCHANGED <<sessions, designs, events>>
        /\ serial' = serial /\ serial' \in Nat /\ serial <= serial'
    BY DEF InsertEvent, TelemetryInv, TelemetryTypeOK
  <1>5. Sound(q, sessions, designs, serial')
    BY <1>1, <1>3, <1>4 DEF Sound, SawSession, SawDesign
  <1>6. ASSUME NEW u \in Tasks \ {t} PROVE Apart(tasks[u], q) /\ Apart(q, tasks[u])
    <2>1. Apart(tasks[u], p) /\ Apart(p, tasks[u])
      BY DEF TelemetryInv
    <2> QED
      BY <1>1, <1>3, <2>1 DEF Apart, SawSession, SawDesign
  <1> QED
    BY <1>2, <1>3, <1>4, <1>5, <1>6, QuietStep

LEMMA TaskFailsKeeps ==
    ASSUME TelemetryInv, NEW t \in Tasks, TaskFails(t) PROVE TelemetryInv'
  <1>1. /\ tasks' = [tasks EXCEPT ![t] = Off]
        /\ UNCHANGED <<sessions, designs, events>>
        /\ serial' = serial /\ serial' \in Nat /\ serial <= serial'
    BY DEF TaskFails, TelemetryInv, TelemetryTypeOK
  <1>2. \A u \in Tasks \ {t} : Apart(tasks[u], Off) /\ Apart(Off, tasks[u])
    BY OffIsSound DEF Apart
  <1> QED
    BY <1>1, <1>2, OffIsSound, QuietStep

--------------------------------------------------------------------------------
(* CommitEvent *)

\* What a commit adds: the row of a new document, and an event.
CommittedRow(q) == [id |-> q.design, document |-> q.document]

CommittedEvent(q) == [session |-> q.session, design |-> q.design]

LEMMA CommitDoes ==
    ASSUME TelemetryInv, NEW t \in Tasks, CommitEvent(t)
    PROVE  LET q == tasks[t] IN
           /\ q \in TaskStates /\ SawSession(q) /\ SawDesign(q)
           /\ Sound(q, sessions, designs, serial)
           /\ sessions' = [sessions EXCEPT ![q.session] = q.seen]
           /\ designs' = IF q.inserted THEN designs \union {CommittedRow(q)} ELSE designs
           /\ events' = Append(events, CommittedEvent(q))
           /\ tasks' = [tasks EXCEPT ![t] = Off]
           /\ serial' = serial
  BY DEF CommitEvent, Stage, CommittedRow, CommittedEvent, SawSession,
         SawDesign, TelemetryInv, TelemetryTypeOK

LEMMA CommitTyped ==
    ASSUME TelemetryInv, NEW t \in Tasks, CommitEvent(t) PROVE TelemetryTypeOK' /\ RowsOK'
  <1> DEFINE q == tasks[t]
  <1>1. q \in TaskStates /\ q.session \in SessionIds /\ q.seen \in Environments
    BY CommitDoes DEF Sound, SawSession
  <1>2. tasks' \in [Tasks -> TaskStates] /\ serial' \in Nat
        /\ sessions' \in [SessionIds -> Environments \union {None}]
    BY <1>1, CommitDoes, OffIsSound DEF TelemetryInv, TelemetryTypeOK
  <1>3. events' \in Seq(EventRows)
    <2>1. CommittedEvent(q) \in EventRows
      BY <1>1 DEF CommittedEvent, EventRows, TaskStates
    <2>2. events \in Seq(EventRows)
      BY DEF TelemetryInv, TelemetryTypeOK
    <2> QED
      BY <2>1, <2>2, CommitDoes
  <1>4. designs' \subseteq DesignRows /\ RowsOK'
    <2>1. CASE ~q.inserted
      BY <2>1, CommitDoes DEF TelemetryInv, TelemetryTypeOK, RowsOK
    <2>2. CASE q.inserted
      <3> DEFINE new == CommittedRow(q)
      <3>1. q.document # None
        BY <2>2, CommitDoes DEF Sound
      <3>2. /\ q.design \in Nat /\ q.design < serial
            /\ \A row \in designs : row.document # q.document /\ row.id # q.design
        BY <2>2, <3>1, CommitDoes DEF Sound
      <3>3. new \in DesignRows /\ new.id = q.design /\ new.document = q.document
        BY <1>1, <3>1, <3>2 DEF CommittedRow, DesignRows, TaskStates
      <3>4. designs' = designs \union {new} /\ serial' = serial
        BY <2>2, CommitDoes
      <3> HIDE DEF new
      <3> QED
        BY <3>2, <3>3, <3>4 DEF TelemetryInv, TelemetryTypeOK, RowsOK
    <2> QED
      BY <2>1, <2>2
  <1> QED
    BY <1>2, <1>3, <1>4 DEF TelemetryTypeOK

LEMMA CommitEventsOK ==
    ASSUME None \notin Environments, TelemetryInv, NEW t \in Tasks, CommitEvent(t)
    PROVE  EventsOK'
  <1> DEFINE q == tasks[t]
  <1>1. events \in Seq(EventRows) /\ Len(events) \in Nat
    BY DEF TelemetryInv, TelemetryTypeOK
  <1>2. /\ q.session \in SessionIds /\ q.seen \in Environments
        /\ sessions' = [sessions EXCEPT ![q.session] = q.seen]
        /\ designs \subseteq designs'
    <2>1. /\ q.pc # "off" /\ Sound(q, sessions, designs, serial) /\ SawSession(q)
          /\ sessions' = [sessions EXCEPT ![q.session] = q.seen]
      BY CommitDoes DEF SawSession
    <2>2. q.session \in SessionIds /\ q.seen \in Environments
      BY <2>1 DEF Sound
    <2>3. designs \subseteq designs'
      BY CommitDoes
    <2> QED
      BY <2>1, <2>2, <2>3
  <1>3. \A s \in SessionIds : sessions[s] # None => sessions'[s] # None
    BY <1>2 DEF TelemetryInv, TelemetryTypeOK
  <1>4. events' = Append(events, CommittedEvent(q))
    BY CommitDoes
  <1>5. CommittedEvent(q).session = q.session /\ CommittedEvent(q).design = q.design
    BY DEF CommittedEvent
  <1>6. q.design # None => \E row \in designs' : row.id = q.design
    <2>1. CASE q.document = None
      BY <2>1, CommitDoes DEF Sound
    <2>2. CASE q.document # None /\ q.inserted
      <3>1. CommittedRow(q) \in designs'
        BY <2>2, CommitDoes
      <3> QED
        BY <3>1 DEF CommittedRow
    <2>3. CASE q.document # None /\ ~q.inserted
      BY <1>2, <2>3, CommitDoes DEF Sound
    <2> QED
      BY <2>1, <2>2, <2>3
  <1>7. ASSUME NEW i \in DOMAIN events'
        PROVE  /\ sessions'[events'[i].session] # None
               /\ events'[i].design # None => \E row \in designs' : row.id = events'[i].design
    <2>1. CASE i \in DOMAIN events
      <3>1. events'[i] = events[i] /\ events[i] \in EventRows
        BY <1>1, <1>4, <2>1
      <3> QED
        BY <1>2, <1>3, <2>1, <3>1 DEF TelemetryInv, EventsOK, EventRows
    <2>2. CASE i \notin DOMAIN events
      <3>1. events'[i] = CommittedEvent(q)
        BY <1>1, <1>4, <2>2
      <3>2. sessions'[q.session] = q.seen
        BY <1>2 DEF TelemetryInv, TelemetryTypeOK
      <3> QED
        BY <1>2, <1>5, <1>6, <3>1, <3>2
    <2> QED
      BY <2>1, <2>2
  <1>8. ASSUME NEW s \in SessionIds, sessions'[s] # None
        PROVE  \E i \in DOMAIN events' : events'[i].session = s
    <2>1. CASE s = q.session
      <3>1. Len(events) + 1 \in DOMAIN events' /\ events'[Len(events) + 1] = CommittedEvent(q)
        BY <1>1, <1>4
      <3> QED
        BY <1>5, <2>1, <3>1
    <2>2. CASE s # q.session
      <3>1. PICK i \in DOMAIN events : events[i].session = s
        BY <1>2, <1>8, <2>2 DEF TelemetryInv, TelemetryTypeOK, EventsOK
      <3>2. i \in DOMAIN events' /\ events'[i] = events[i]
        BY <1>1, <1>4, <3>1
      <3> QED
        BY <3>1, <3>2
    <2> QED
      BY <2>1, <2>2
  <1> QED
    BY <1>7, <1>8 DEF EventsOK

\* What the other transactions know stays true when one commits.
LEMMA CommitKeeps ==
    ASSUME None \notin Environments, TelemetryInv, NEW t \in Tasks, CommitEvent(t) PROVE TelemetryInv'
  <1> DEFINE q == tasks[t]
  <1>1. tasks' = [tasks EXCEPT ![t] = Off] /\ serial' = serial
    BY CommitDoes
  <1>2. ASSUME NEW u \in Tasks PROVE Sound(tasks'[u], sessions', designs', serial')
    <2>1. CASE u = t
      BY <1>1, <2>1 DEF TelemetryInv, TelemetryTypeOK, Sound, Off, SawSession, SawDesign
    <2>2. CASE u # t
      <3> DEFINE p == tasks[u]
      <3>1. tasks'[u] = p /\ Sound(p, sessions, designs, serial) /\ Apart(p, q)
            /\ p \in TaskStates
        BY <1>1, <2>2 DEF TelemetryInv, TelemetryTypeOK
      <3>2. SawSession(p) => sessions'[p.session] = sessions[p.session]
        <4>1. SawSession(p) => p.session # q.session /\ p.session \in SessionIds
          BY <3>1, CommitDoes DEF Apart, Sound, SawSession
        <4>2. sessions' = [sessions EXCEPT ![q.session] = q.seen]
          BY CommitDoes
        <4>3. DOMAIN sessions = SessionIds
          BY DEF TelemetryInv, TelemetryTypeOK
        <4> QED
          BY <4>1, <4>2, <4>3
      <3>3. ASSUME SawDesign(p), p.document # None
            PROVE  IF p.inserted
                   THEN \A row \in designs' : row.document # p.document /\ row.id # p.design
                   ELSE \E row \in designs' : row.id = p.design /\ row.document = p.document
        <4>1. CASE ~q.inserted
          BY <3>1, <3>3, <4>1, CommitDoes DEF Sound
        <4>2. CASE q.inserted
          <5>1. designs' = designs \union {CommittedRow(q)}
            BY <4>2, CommitDoes
          <5>2. CommittedRow(q).id = q.design /\ CommittedRow(q).document = q.document
            BY DEF CommittedRow
          <5>3. p.document # q.document /\ (p.inserted => p.design # q.design)
            BY <3>1, <3>3, <4>2, CommitDoes DEF Apart
          <5> QED
            BY <3>1, <3>3, <5>1, <5>2, <5>3 DEF Sound
        <4> QED
          BY <4>1, <4>2
      <3>4. SawDesign(p) => SawSession(p)
        BY DEF SawDesign, SawSession
      <3> QED
        BY <1>1, <3>1, <3>2, <3>3, <3>4 DEF Sound
    <2> QED
      BY <2>1, <2>2
  <1>3. ASSUME NEW u \in Tasks, NEW v \in Tasks, u # v PROVE Apart(tasks'[u], tasks'[v])
    <2>1. \A x \in Tasks : tasks'[x] = IF x = t THEN Off ELSE tasks[x]
      BY <1>1 DEF TelemetryInv, TelemetryTypeOK
    <2>2. CASE u = t \/ v = t
      BY <2>1, <2>2, OffIsSound DEF Apart
    <2>3. CASE u # t /\ v # t
      BY <1>3, <2>1, <2>3 DEF TelemetryInv
    <2> QED
      BY <2>2, <2>3
  <1> QED
    BY <1>2, <1>3, CommitTyped, CommitEventsOK DEF TelemetryInv

LEMMA TelemetryInvInit == ASSUME TelemetryInit PROVE TelemetryInv
  <1>1. Off \in TaskStates /\ \A n \in Nat : Sound(Off, sessions, designs, n)
    BY DEF Off, TaskStates, Sound, SawSession, SawDesign
  <1>2. Apart(Off, Off)
    BY OffIsSound DEF Apart
  <1> QED
    BY <1>1, <1>2 DEF TelemetryInit, TelemetryInv, TelemetryTypeOK, RowsOK, EventsOK

LEMMA TelemetryInvNext ==
    ASSUME None \notin Environments, TelemetryInv, [TelemetryNext]_telemetryVars PROVE TelemetryInv'
  <1>1. CASE UNCHANGED telemetryVars
    BY <1>1 DEF telemetryVars, TelemetryInv, TelemetryTypeOK, RowsOK, EventsOK
  <1>2. CASE TelemetryNext
    BY <1>2, PostKeeps, UpsertSessionKeeps, UpsertDesignKeeps, InsertEventKeeps,
       CommitKeeps, TaskFailsKeeps DEF TelemetryNext
  <1> QED
    BY <1>1, <1>2

--------------------------------------------------------------------------------

\* "Identical MAS across several events stores ONE design row": whatever tasks
\* record at once and whichever of them fail and roll back, no document gets two
\* rows, no row two documents, and no event a row that is not there (record).
THEOREM OneRowPerDocumentHolds == TelemetrySpec => []OneRowPerDocument
  <1>1. TelemetryInit => TelemetryInv
    BY TelemetryInvInit
  <1>2. TelemetryInv /\ [TelemetryNext]_telemetryVars => TelemetryInv'
    BY TelemetryInvNext, NoneAssumption DEF Environments
  <1>3. TelemetryInv => OneRowPerDocument
    BY DEF TelemetryInv, RowsOK, EventsOK, OneRowPerDocument
  <1> QED
    BY <1>1, <1>2, <1>3, PTL DEF TelemetrySpec

--------------------------------------------------------------------------------
(* The log *)

\* The design of an id is the one row that has it.
LEMMA TheRow ==
    ASSUME NEW ds, \A x, y \in ds : x.id = y.id => x = y,
           NEW id, NEW row \in ds, row.id = id
    PROVE  (CHOOSE x \in ds : x.id = id) = row
  OBVIOUS

\* An event of the log.
Entries == Log!PostedEvents

LEMMA DocumentFound ==
    ASSUME None \notin Nat, TelemetryInv, NEW id \in Nat \union {None},
           id # None => \E row \in designs : row.id = id
    PROVE  DocumentOf(id) \in Documents \union {None}
  <1>1. CASE id = None
    BY <1>1 DEF DocumentOf
  <1>2. CASE id # None
    <2>1. PICK row \in designs : row.id = id
      BY <1>2
    <2>2. \A x, y \in designs : x.id = y.id => x = y
      BY DEF TelemetryInv, RowsOK
    <2>3. (CHOOSE x \in designs : x.id = id) = row
      BY <2>1, <2>2, TheRow
    <2>4. DocumentOf(id) = row.document
      BY <1>2, <2>1, <2>3 DEF DocumentOf
    <2> QED
      BY <2>4 DEF TelemetryInv, TelemetryTypeOK, DesignRows
  <1> QED
    BY <1>1, <1>2

LEMMA JoinedTyped ==
    ASSUME None \notin Nat \union Environments, TelemetryInv
    PROVE  /\ Len(events) \in Nat /\ DOMAIN events = 1..Len(events)
           /\ \A i \in 1..Len(events) : events[i] \in EventRows
           /\ Joined \in Seq(Entries) /\ Len(Joined) = Len(events)
  <1>1. events \in Seq(EventRows)
    BY DEF TelemetryInv, TelemetryTypeOK
  <1>2. /\ Len(events) \in Nat /\ DOMAIN events = 1..Len(events)
        /\ \A i \in 1..Len(events) : events[i] \in EventRows
    BY <1>1
  <1>3. ASSUME NEW i \in 1..Len(events) PROVE Joined[i] \in Entries
    <2>1. events[i].session \in SessionIds /\ events[i].design \in Nat \union {None}
      BY <1>2 DEF EventRows
    <2>2. sessions[events[i].session] \in Environments
      BY <1>2, <2>1 DEF TelemetryInv, TelemetryTypeOK, EventsOK
    <2>3. DocumentOf(events[i].design) \in Documents \union {None}
      BY <1>2, <2>1, DocumentFound DEF TelemetryInv, EventsOK
    <2> QED
      BY <1>2, <2>1, <2>2, <2>3 DEF Joined, Entries, Log!PostedEvents
  <1>4. Joined \in [1..Len(events) -> Entries]
    BY <1>2, <1>3 DEF Joined
  <1> QED
    BY <1>2, <1>4

\* What task t has been given.
Posting(t) ==
    [by |-> t, event |-> [session |-> tasks[t].session,
                          environment |-> tasks[t].environment,
                          document |-> tasks[t].document]]

LEMMA PostingOutstanding ==
    ASSUME NEW t \in Tasks
    PROVE  /\ tasks[t].pc # "off" => Posting(t) \in Outstanding
           /\ \A o \in Outstanding :
                 \E u \in Tasks : o = Posting(u) /\ o.by = u /\ tasks[u].pc # "off"
           /\ (\E o \in Outstanding : o.by = t) => tasks[t].pc # "off"
  BY DEF Outstanding, Posting, Stage

\* A task that ends, however it does, takes what it was given with it.
LEMMA Withdrawn ==
    ASSUME TelemetryInv, NEW t \in Tasks, tasks[t].pc # "off", tasks' = [tasks EXCEPT ![t] = Off]
    PROVE  Outstanding' = Outstanding \ {Posting(t)}
  <1>1. \A u \in Tasks : tasks'[u] = IF u = t THEN Off ELSE tasks[u]
    BY DEF TelemetryInv, TelemetryTypeOK
  <1>2. \A u \in Tasks : Posting(u).by = u
    BY DEF Posting
  <1>3. \A u \in Tasks \ {t} : Posting(u)' = Posting(u) /\ tasks'[u].pc = tasks[u].pc
    BY <1>1 DEF Posting
  <1>4. tasks'[t].pc = "off"
    BY <1>1 DEF Off
  <1>5. /\ Outstanding = {Posting(u) : u \in {v \in Tasks : tasks[v].pc # "off"}}
        /\ Outstanding' = {Posting(u)' : u \in {v \in Tasks : tasks'[v].pc # "off"}}
    BY DEF Outstanding, Posting, Stage
  <1> QED
    BY <1>2, <1>3, <1>4, <1>5

LEMMA PostsAnEvent ==
    ASSUME TelemetryInv, NEW t \in Tasks, Post(t)
    PROVE  /\ \A o \in Outstanding : o.by # t
           /\ \E e \in Log!PostedEvents :
                 Outstanding' = Outstanding \union {[by |-> t, event |-> e]}
  <1>1. PICK s \in SessionIds, declared \in Environments \union {None},
             d \in Documents \union {None} :
           tasks' = [tasks EXCEPT ![t] = [[[[Off EXCEPT !.pc = "session"]
                        EXCEPT !.session = s]
                        EXCEPT !.environment = Environment(declared)]
                        EXCEPT !.document = d]]
    BY DEF Post
  <1> DEFINE q == [[[[Off EXCEPT !.pc = "session"] EXCEPT !.session = s]
                      EXCEPT !.environment = Environment(declared)] EXCEPT !.document = d]
             e == [session |-> s, environment |-> Environment(declared), document |-> d]
  <1>2. e \in Log!PostedEvents
    BY DEF Log!PostedEvents, Environment, Environments
  <1>3. /\ q.pc = "session" /\ q.session = s /\ q.environment = Environment(declared)
        /\ q.document = d
    BY DEF Off
  <1>4. \A u \in Tasks : tasks'[u] = IF u = t THEN q ELSE tasks[u]
    BY <1>1 DEF TelemetryInv, TelemetryTypeOK
  <1> HIDE DEF q
  <1>5. /\ Posting(t)' = [by |-> t, event |-> e]
        /\ \A u \in Tasks \ {t} : Posting(u)' = Posting(u) /\ tasks'[u].pc = tasks[u].pc
    BY <1>3, <1>4 DEF Posting
  <1>6. tasks[t].pc = "off" /\ tasks'[t].pc = "session"
    BY <1>3, <1>4 DEF Post, Stage
  <1>7. /\ Outstanding = {Posting(u) : u \in {v \in Tasks : tasks[v].pc # "off"}}
        /\ Outstanding' = {Posting(u)' : u \in {v \in Tasks : tasks'[v].pc # "off"}}
    BY DEF Outstanding, Posting, Stage
  <1>8. Outstanding' = Outstanding \union {[by |-> t, event |-> e]}
    BY <1>5, <1>6, <1>7
  <1>9. \A o \in Outstanding : o.by # t
    BY <1>6, PostingOutstanding
  <1> QED
    BY <1>2, <1>8, <1>9

LEMMA StaysOutstanding ==
    ASSUME TelemetryInv, NEW t \in Tasks, UpsertSession(t) \/ UpsertDesign(t) \/ InsertEvent(t)
    PROVE  UNCHANGED Outstanding
  <1>1. tasks[t] \in TaskStates
    BY DEF TelemetryInv, TelemetryTypeOK
  <1>2. tasks[t].pc # "off"
    BY DEF UpsertSession, UpsertDesign, InsertEvent, Stage
  <1>3. /\ tasks'[t].pc # "off" /\ tasks'[t].session = tasks[t].session
        /\ tasks'[t].environment = tasks[t].environment
        /\ tasks'[t].document = tasks[t].document
        /\ \A u \in Tasks \ {t} : tasks'[u] = tasks[u]
    <2>1. CASE UpsertSession(t)
      BY <1>1, <2>1 DEF UpsertSession, TaskStates, TelemetryInv, TelemetryTypeOK
    <2>2. CASE UpsertDesign(t)
      <3>1. CASE tasks[t].document = None
        BY <1>1, <2>2, <3>1 DEF UpsertDesign, TaskStates, TelemetryInv, TelemetryTypeOK
      <3>2. CASE tasks[t].document # None
        <4> DEFINE new == RowFor(tasks[t].document) = {}
                   id == DesignId(tasks[t].document)
        <4>1. tasks' = [tasks EXCEPT ![t].pc = "event", ![t].inserted = new, ![t].design = id]
          BY <2>2, <3>2 DEF UpsertDesign
        <4> HIDE DEF new, id
        <4> QED
          BY <1>1, <4>1 DEF TaskStates, TelemetryInv, TelemetryTypeOK
      <3> QED
        BY <3>1, <3>2
    <2>3. CASE InsertEvent(t)
      BY <1>1, <2>3 DEF InsertEvent, TaskStates, TelemetryInv, TelemetryTypeOK
    <2> QED
      BY <2>1, <2>2, <2>3
  <1>6. \A u \in Tasks :
            Posting(u)' = Posting(u) /\ (tasks'[u].pc # "off" <=> tasks[u].pc # "off")
    BY <1>2, <1>3 DEF Posting
  <1>7. /\ Outstanding = {Posting(u) : u \in {v \in Tasks : tasks[v].pc # "off"}}
        /\ Outstanding' = {Posting(u)' : u \in {v \in Tasks : tasks'[v].pc # "off"}}
    BY DEF Outstanding, Posting, Stage
  <1> QED
    BY <1>6, <1>7

\* A committed event is the log's next entry, and changes none before it.
LEMMA CommitRecords ==
    ASSUME None \notin Nat \union Environments, TelemetryInv, NEW t \in Tasks, CommitEvent(t)
    PROVE  Log!Record(Posting(t))
  <1> DEFINE q == tasks[t]
             n == Len(events)
             e == [session |-> q.session, environment |-> q.seen, document |-> q.document]
  <1>1. /\ n \in Nat /\ DOMAIN events = 1..n
        /\ \A i \in 1..n : events[i] \in EventRows
        /\ Joined \in Seq(Entries) /\ Len(Joined) = n
    BY JoinedTyped
  <1>2. /\ q.session \in SessionIds /\ q.seen \in Environments
        /\ q.document \in Documents \union {None}
        /\ sessions[q.session] \in {None, q.seen}
        /\ sessions[q.session] = None => q.seen = q.environment
        /\ sessions' = [sessions EXCEPT ![q.session] = q.seen]
        /\ designs \subseteq designs'
    <2>1. /\ q \in TaskStates /\ q.pc # "off" /\ SawSession(q)
          /\ Sound(q, sessions, designs, serial)
          /\ sessions' = [sessions EXCEPT ![q.session] = q.seen]
      BY CommitDoes DEF SawSession
    <2>2. /\ q.session \in SessionIds /\ q.seen \in Environments
          /\ sessions[q.session] \in {None, q.seen}
          /\ sessions[q.session] = None => q.seen = q.environment
      BY <2>1 DEF Sound
    <2>3. q.document \in Documents \union {None}
      BY <2>1 DEF TaskStates
    <2>4. designs \subseteq designs'
      BY CommitDoes
    <2> QED
      BY <2>1, <2>2, <2>3, <2>4
  <1>3. e \in Entries
    BY <1>2 DEF Entries, Log!PostedEvents
  <1>4. \A x, y \in designs' : x.id = y.id => x = y
    BY CommitTyped DEF RowsOK
  <1>5. /\ DOMAIN events' = 1..(n + 1)
        /\ \A i \in 1..n : events'[i] = events[i]
        /\ events'[n + 1].session = q.session /\ events'[n + 1].design = q.design
    <2>1. events' = Append(events, CommittedEvent(q)) /\ events \in Seq(EventRows)
      BY CommitDoes DEF TelemetryInv, TelemetryTypeOK
    <2>2. CommittedEvent(q).session = q.session /\ CommittedEvent(q).design = q.design
      BY DEF CommittedEvent
    <2> HIDE DEF q
    <2> QED
      BY <1>1, <2>1, <2>2
  <1>6. ASSUME NEW i \in 1..n
        PROVE  /\ Joined'[i] = Joined[i]
               /\ Joined[i].session = q.session => Joined[i].environment = q.seen
    <2> DEFINE v == events[i]
    <2>1. /\ v.session \in SessionIds /\ v.design \in Nat \union {None}
          /\ sessions[v.session] # None
          /\ v.design # None => \E row \in designs : row.id = v.design
      BY <1>1 DEF EventRows, TelemetryInv, EventsOK
    <2>2. sessions'[v.session] = sessions[v.session]
      <3>1. CASE v.session = q.session
        BY <1>2, <2>1, <3>1 DEF TelemetryInv, TelemetryTypeOK
      <3>2. CASE v.session # q.session
        BY <1>2, <2>1, <3>2 DEF TelemetryInv, TelemetryTypeOK
      <3> QED
        BY <3>1, <3>2
    <2>3. (DocumentOf(v.design))' = DocumentOf(v.design)
      <3>1. CASE v.design = None
        BY <1>1, <1>5, <3>1 DEF DocumentOf
      <3>2. CASE v.design # None
        <4>1. PICK row \in designs : row.id = v.design
          BY <2>1, <3>2
        <4>2. (CHOOSE x \in designs : x.id = v.design) = row
          BY <4>1, TheRow DEF TelemetryInv, RowsOK
        <4>3. v' = v /\ row \in designs'
          BY <1>2, <1>5
        <4>4. (CHOOSE x \in designs' : x.id = v'.design) = row
          BY <1>4, <4>1, <4>3, TheRow
        <4>5. DocumentOf(v.design) = row.document
          BY <3>2, <4>2 DEF DocumentOf
        <4>6. (DocumentOf(v.design))' = row.document
          BY <3>2, <4>3, <4>4 DEF DocumentOf
        <4> QED
          BY <4>5, <4>6
      <3> QED
        BY <3>1, <3>2
    <2>4. /\ Joined[i] = [session |-> v.session, environment |-> sessions[v.session],
                          document |-> DocumentOf(v.design)]
          /\ Joined'[i] = [session |-> v.session, environment |-> sessions'[v.session],
                           document |-> (DocumentOf(v.design))']
      BY <1>1, <1>5 DEF Joined
    <2> QED
      BY <1>2, <2>1, <2>2, <2>3, <2>4
  <1>7. Joined'[n + 1] = e
    <2>1. sessions'[q.session] = q.seen
      BY <1>2 DEF TelemetryInv, TelemetryTypeOK
    <2>2. CASE q.document = None
      <3>1. q.design = None
        BY <2>2, CommitDoes DEF Sound
      <3> QED
        BY <1>1, <1>5, <2>1, <2>2, <3>1 DEF Joined, DocumentOf
    <2>3. CASE q.document # None
      <3>1. q.design \in Nat /\ \E row \in designs' : row.id = q.design
                                                      /\ row.document = q.document
        <4>1. CASE q.inserted
          <5>1. CommittedRow(q) \in designs' /\ q.design \in Nat
            BY <2>3, <4>1, CommitDoes DEF Sound
          <5> QED
            BY <5>1 DEF CommittedRow
        <4>2. CASE ~q.inserted
          BY <1>2, <2>3, <4>2, CommitDoes DEF Sound
        <4> QED
          BY <4>1, <4>2
      <3>2. PICK row \in designs' : row.id = q.design /\ row.document = q.document
        BY <3>1
      <3> PICK k \in Nat : k = n + 1
        BY <1>1
      <3> DEFINE w == events[k]
      <3>3. w'.design = q.design /\ w'.session = q.session
        BY <1>5
      <3>4. (CHOOSE x \in designs' : x.id = w'.design) = row
        BY <1>4, <3>2, <3>3, TheRow
      <3>5. (DocumentOf(w.design))' = q.document
        BY <3>1, <3>2, <3>3, <3>4 DEF DocumentOf
      <3> QED
        BY <1>1, <1>5, <2>1, <3>3, <3>5 DEF Joined
    <2> QED
      BY <2>2, <2>3
  <1>8. Joined' = Append(Joined, e)
    <2>1. DOMAIN Joined' = 1..(n + 1) /\ Joined' = [i \in DOMAIN Joined' |-> Joined'[i]]
      BY <1>5 DEF Joined
    <2> HIDE DEF e, n
    <2>2. /\ Append(Joined, e) \in Seq(Entries)
          /\ Len(Append(Joined, e)) = n + 1
          /\ \A i \in 1..n : Append(Joined, e)[i] = Joined[i]
          /\ Append(Joined, e)[n + 1] = e
      BY <1>1, <1>3
    <2>3. Joined' \in Seq(Entries) /\ Len(Joined') = n + 1
      <3>1. \A i \in 1..(n + 1) : Joined'[i] \in Entries
        BY <1>1, <1>3, <1>6, <1>7
      <3> QED
        BY <1>1, <2>1, <3>1
    <2> QED
      BY <1>1, <1>6, <1>7, <2>2, <2>3, SeqEqual
  <1>9. \A i \in Log!SameSession(e) : Joined[i].environment = q.seen
    BY <1>1, <1>6 DEF Log!SameSession
  <1>10. ASSUME Log!SameSession(e) = {} PROVE q.seen = q.environment
    <2>1. \A i \in 1..n : events[i].session # q.session
      BY <1>1, <1>10 DEF Log!SameSession, Joined
    <2>2. sessions[q.session] = None
      BY <1>1, <1>2, <2>1 DEF TelemetryInv, EventsOK
    <2> QED
      BY <1>2, <2>2
  <1>11. /\ Posting(t).event.session = q.session
         /\ Posting(t).event.environment = q.environment
         /\ Posting(t).event.document = q.document
         /\ Log!SameSession(Posting(t).event) = Log!SameSession(e)
    BY DEF Posting, Log!SameSession
  <1>12. Outstanding' = Outstanding \ {Posting(t)}
    BY CommitDoes, Withdrawn DEF SawSession
  <1> QED
    BY <1>2, <1>8, <1>9, <1>10, <1>11, <1>12 DEF Log!Record

\* The three tables, joined, are a log of the events that were posted: tasks that
\* overlap, fail or roll back never change what is there, every event has the
\* session and the document it was posted with, and the environment of the first
\* event recorded under its session (record).
THEOREM ImplementsTelemetryLogHolds == TelemetrySpec => ImplementsTelemetryLog
  <1>0. None \notin Nat \union Environments
    BY NoneAssumption DEF Environments
  <1>1. TelemetryInit => TelemetryInv /\ Log!LogInit
    BY TelemetryInvInit DEF TelemetryInit, Log!LogInit, Joined, Outstanding, Stage, Off
  <1>2. TelemetryInv /\ [TelemetryNext]_telemetryVars => TelemetryInv'
    BY <1>0, TelemetryInvNext
  <1>3. TelemetryInv /\ [TelemetryNext]_telemetryVars => [Log!LogNext]_(Log!logVars)
    <2>1. ASSUME TelemetryInv, NEW t \in Tasks, CommitEvent(t) PROVE Log!LogNext
      BY <1>0, <2>1, CommitRecords, PostingOutstanding DEF Log!LogNext, CommitEvent, Stage
    <2>2. ASSUME UNCHANGED <<sessions, designs, events>> PROVE UNCHANGED Joined
      BY <2>2 DEF Joined, DocumentOf
    <2>3. ASSUME TelemetryInv, NEW t \in Tasks, Post(t) PROVE Log!LogNext
      <3>1. UNCHANGED Joined
        BY <2>2, <2>3 DEF Post
      <3> QED
        BY <2>3, <3>1, PostsAnEvent DEF Log!LogNext, Log!PostEvent
    <2>4. ASSUME TelemetryInv, NEW t \in Tasks, TaskFails(t) PROVE Log!LogNext
      <3>1. UNCHANGED Joined
        BY <2>2, <2>4 DEF TaskFails
      <3>2. Posting(t) \in Outstanding /\ Outstanding' = Outstanding \ {Posting(t)}
        BY <2>4, PostingOutstanding, Withdrawn DEF TaskFails, Stage
      <3> QED
        BY <3>1, <3>2 DEF Log!LogNext, Log!Lose
    <2>5. ASSUME TelemetryInv, NEW t \in Tasks,
                 UpsertSession(t) \/ UpsertDesign(t) \/ InsertEvent(t)
          PROVE  UNCHANGED <<Outstanding, Joined>>
      <3>1. UNCHANGED Joined
        BY <2>2, <2>5 DEF UpsertSession, UpsertDesign, InsertEvent
      <3> QED
        BY <2>5, <3>1, StaysOutstanding
    <2>6. CASE UNCHANGED telemetryVars
      BY <2>2, <2>6 DEF telemetryVars, Outstanding, Stage, Log!logVars
    <2> QED
      BY <2>1, <2>3, <2>4, <2>5, <2>6 DEF TelemetryNext, Log!logVars
  <1> QED
    BY <1>1, <1>2, <1>3, PTL DEF TelemetrySpec, ImplementsTelemetryLog, Log!LogSpec

--------------------------------------------------------------------------------
(* Migrations *)

\* Everything the statements of a sequence create.
Creates(statements) == UNION {statements[i].creates : i \in DOMAIN statements}

CreateStatements == [creates : SUBSET Metadata, drops : {{}}]

LEMMA CreatesOfConcat ==
    ASSUME NEW s \in Seq(CreateStatements), NEW t \in Seq(CreateStatements)
    PROVE  s \o t \in Seq(CreateStatements) /\ Creates(s \o t) = Creates(s) \union Creates(t)
  <1> DEFINE st == s \o t
  <1>1. st \in Seq(CreateStatements) /\ Len(st) = Len(s) + Len(t)
    OBVIOUS
  <1>2. \A i \in 1..Len(s) : st[i] = s[i]
    OBVIOUS
  <1>3. \A i \in 1..Len(t) : st[Len(s) + i] = t[i]
    OBVIOUS
  <1>4. ASSUME NEW i \in 1..Len(st)
        PROVE  \/ i \in 1..Len(s)
               \/ \E j \in 1..Len(t) : i = Len(s) + j
    <2>1. CASE i > Len(s)
      <3>1. i - Len(s) \in 1..Len(t) /\ i = Len(s) + (i - Len(s))
        BY <1>1, <2>1
      <3> QED
        BY <3>1
    <2> QED
      BY <1>1, <2>1
  <1>5. \A j \in 1..Len(t) : Len(s) + j \in 1..Len(st)
    BY <1>1
  <1>6. 1..Len(s) \subseteq 1..Len(st)
    BY <1>1
  <1> HIDE DEF st
  <1>7. ASSUME NEW x \in Creates(st) PROVE x \in Creates(s) \union Creates(t)
    <2>1. PICK i \in 1..Len(st) : x \in st[i].creates
      BY <1>1 DEF Creates
    <2>2. CASE i \in 1..Len(s)
      BY <1>2, <2>1, <2>2 DEF Creates
    <2>3. CASE \E j \in 1..Len(t) : i = Len(s) + j
      <3>1. PICK j \in 1..Len(t) : i = Len(s) + j
        BY <2>3
      <3>2. x \in t[j].creates
        BY <1>3, <2>1, <3>1
      <3> QED
        BY <3>2 DEF Creates
    <2> QED
      BY <1>4, <2>2, <2>3
  <1>8. Creates(s) \subseteq Creates(st)
    BY <1>1, <1>2, <1>6 DEF Creates
  <1>9. ASSUME NEW x \in Creates(t) PROVE x \in Creates(st)
    <2>1. PICK j \in 1..Len(t) : x \in t[j].creates
      BY DEF Creates
    <2>2. Len(s) + j \in 1..Len(st) /\ x \in st[Len(s) + j].creates
      BY <1>3, <1>5, <2>1
    <2> QED
      BY <1>1, <2>2 DEF Creates
  <1> QED
    BY <1>1, <1>7, <1>8, <1>9 DEF st

LEMMA FirstOfConcat ==
    ASSUME NEW s \in Seq(CreateStatements), NEW t \in Seq(CreateStatements), Len(s) > 0
    PROVE  Len(s \o t) > 0 /\ (s \o t)[1] = s[1]
  OBVIOUS

LEMMA CreatesOfTwo ==
    ASSUME NEW a \in CreateStatements, NEW b \in CreateStatements
    PROVE  /\ <<a, b>> \in Seq(CreateStatements)
           /\ Creates(<<a, b>>) = a.creates \union b.creates
  BY DEF Creates

\* Each statement creates what some class declares.
LEMMA StatementsTyped ==
    /\ CreateAuditLog \in CreateStatements
    /\ CreateOrganizations \in CreateStatements
    /\ CreateUsers \in CreateStatements
    /\ IndexUsers \in CreateStatements
    /\ CreateDesigns \in CreateStatements
    /\ CreateEmailTokens \in CreateStatements
    /\ IndexEmailTokens \in CreateStatements
    /\ CreateInventoryParts \in CreateStatements
    /\ CreateMemberships \in CreateStatements
    /\ IndexMemberships \in CreateStatements
    /\ CreateSessions \in CreateStatements
    /\ IndexSessions \in CreateStatements
    /\ CreateUserSettings \in CreateStatements
    /\ CreateDesignRevisions \in CreateStatements
    /\ CreateShareLinks \in CreateStatements
    /\ CreateInventoryMounts \in CreateStatements
  <1>1. CreateAuditLog \in CreateStatements
    BY DEF CreateAuditLog, CreateStatements, Metadata, Create, AuditLog
  <1>2. CreateOrganizations \in CreateStatements
    BY DEF CreateOrganizations, CreateStatements, Metadata, Create, Organization
  <1>3. CreateUsers \in CreateStatements
    BY DEF CreateUsers, CreateStatements, Metadata, Create, User
  <1>4. IndexUsers \in CreateStatements
    BY DEF IndexUsers, CreateStatements, Metadata, CreateIndex, User, Unique
  <1>5. CreateDesigns \in CreateStatements
    BY DEF CreateDesigns, CreateStatements, Metadata, Create, Design, Owned
  <1>6. CreateEmailTokens \in CreateStatements
    BY DEF CreateEmailTokens, CreateStatements, Metadata, Create, EmailToken, OfUser
  <1>7. IndexEmailTokens \in CreateStatements
    BY DEF IndexEmailTokens, CreateStatements, Metadata, CreateIndex, EmailToken
  <1>8. CreateInventoryParts \in CreateStatements
    BY DEF CreateInventoryParts, CreateStatements, Metadata, Create, InventoryPart, Owned
  <1>9. CreateMemberships \in CreateStatements
    BY DEF CreateMemberships, CreateStatements, Metadata, Create, Membership
  <1>10. IndexMemberships \in CreateStatements
    BY DEF IndexMemberships, CreateStatements, Metadata, CreateIndex, Membership, Unique
  <1>11. CreateSessions \in CreateStatements
    BY DEF CreateSessions, CreateStatements, Metadata, Create, AuthSession, OfUser
  <1>12. IndexSessions \in CreateStatements
    BY DEF IndexSessions, CreateStatements, Metadata, CreateIndex, AuthSession
  <1>13. CreateUserSettings \in CreateStatements
    BY DEF CreateUserSettings, CreateStatements, Metadata, Create, UserSettings, OfUser
  <1>14. CreateDesignRevisions \in CreateStatements
    BY DEF CreateDesignRevisions, CreateStatements, Metadata, Create, DesignRevision
  <1>15. CreateShareLinks \in CreateStatements
    BY DEF CreateShareLinks, CreateStatements, Metadata, Create, ShareLink, Owned
  <1>16. CreateInventoryMounts \in CreateStatements
    BY DEF CreateInventoryMounts, CreateStatements, Metadata, Create, InventoryMount, Owned
  <1> QED
    BY <1>1, <1>2, <1>3, <1>4, <1>5, <1>6, <1>7, <1>8, <1>9, <1>10, <1>11, <1>12, <1>13, <1>14, <1>15, <1>16

\* The two pairs of indexes that are statements of their own.
LEMMA IndexesTyped ==
    /\ IndexDesigns \in Seq(CreateStatements) /\ IndexInventoryParts \in Seq(CreateStatements)
    /\ Creates(IndexDesigns) = {Index("index", "designs", {"owner_user_id"}, ""),
                                Index("index", "designs", {"owner_org_id"}, "")}
    /\ Creates(IndexInventoryParts) =
          {Index("unique", "inventory_parts", {"owner_user_id", "part_type", "name"}, UserParts),
           Index("unique", "inventory_parts", {"owner_org_id", "part_type", "name"}, OrgParts)}
  <1>1. \A x \in {Index("index", "designs", {"owner_user_id"}, ""),
                  Index("index", "designs", {"owner_org_id"}, "")} :
            [creates |-> {x}, drops |-> {}] \in CreateStatements
    BY DEF CreateStatements, Metadata, Design
  <1>2. \A x \in {Index("unique", "inventory_parts", {"owner_user_id", "part_type", "name"}, UserParts),
                  Index("unique", "inventory_parts", {"owner_org_id", "part_type", "name"}, OrgParts)} :
            [creates |-> {x}, drops |-> {}] \in CreateStatements
    BY DEF CreateStatements, Metadata, InventoryPart, UserParts, OrgParts
  <1>3. ASSUME NEW x, NEW y, [creates |-> {x}, drops |-> {}] \in CreateStatements,
               [creates |-> {y}, drops |-> {}] \in CreateStatements
        PROVE  LET s == <<[creates |-> {x}, drops |-> {}], [creates |-> {y}, drops |-> {}]>>
               IN  s \in Seq(CreateStatements) /\ Creates(s) = {y, x}
    BY <1>3, CreatesOfTwo
  <1> QED
    BY <1>1, <1>2, <1>3 DEF IndexDesigns, IndexInventoryParts, CreateIndex

\* Statement by statement, the migration makes what the classes declare.
LEMMA UpgradeCreates ==
    /\ Upgrade \in Seq(CreateStatements) /\ Len(Upgrade) > 0
    /\ Upgrade[1] = CreateAuditLog /\ Creates(Upgrade) = Metadata
  <1> DEFINE s1 == <<CreateAuditLog, CreateOrganizations, CreateUsers, IndexUsers, CreateDesigns>>
             s2 == <<CreateEmailTokens, IndexEmailTokens, CreateInventoryParts>>
             s3 == <<CreateMemberships, IndexMemberships, CreateSessions, IndexSessions,
                     CreateUserSettings, CreateDesignRevisions, CreateShareLinks,
                     CreateInventoryMounts>>
  <1>1. /\ s1 \in Seq(CreateStatements) /\ Len(s1) = 5 /\ s1[1] = CreateAuditLog
        /\ Creates(s1) = CreateAuditLog.creates \union CreateOrganizations.creates
              \union CreateUsers.creates \union IndexUsers.creates \union CreateDesigns.creates
    BY StatementsTyped DEF Creates
  <1>2. /\ s2 \in Seq(CreateStatements)
        /\ Creates(s2) = CreateEmailTokens.creates \union IndexEmailTokens.creates
              \union CreateInventoryParts.creates
    BY StatementsTyped DEF Creates
  <1>3. /\ s3 \in Seq(CreateStatements)
        /\ Creates(s3) = CreateMemberships.creates \union IndexMemberships.creates
              \union CreateSessions.creates \union IndexSessions.creates
              \union CreateUserSettings.creates \union CreateDesignRevisions.creates
              \union CreateShareLinks.creates \union CreateInventoryMounts.creates
    BY StatementsTyped DEF Creates
  <1>4. Upgrade = s1 \o IndexDesigns \o s2 \o IndexInventoryParts \o s3
    BY DEF Upgrade
  <1> HIDE DEF s1, s2, s3
  <1> DEFINE s12 == s1 \o IndexDesigns
             s13 == s12 \o s2
             s14 == s13 \o IndexInventoryParts
  <1>5. s12 \in Seq(CreateStatements) /\ Creates(s12) = Creates(s1) \union Creates(IndexDesigns)
    BY <1>1, IndexesTyped, CreatesOfConcat
  <1>6. Len(s12) > 0 /\ s12[1] = CreateAuditLog
    <2>1. Len(s1) > 0 /\ s1[1] = CreateAuditLog /\ s1 \in Seq(CreateStatements)
      BY <1>1
    <2>2. IndexDesigns \in Seq(CreateStatements)
      BY IndexesTyped
    <2> QED
      BY <2>1, <2>2, FirstOfConcat
  <1> HIDE DEF s12
  <1>7. s13 \in Seq(CreateStatements) /\ Creates(s13) = Creates(s12) \union Creates(s2)
    BY <1>2, <1>5, CreatesOfConcat
  <1>8. Len(s13) > 0 /\ s13[1] = CreateAuditLog
    BY <1>2, <1>5, <1>6, FirstOfConcat
  <1> HIDE DEF s13
  <1>9. s14 \in Seq(CreateStatements) /\ Creates(s14) = Creates(s13) \union Creates(IndexInventoryParts)
    BY <1>7, IndexesTyped, CreatesOfConcat
  <1>10. Len(s14) > 0 /\ s14[1] = CreateAuditLog
    BY <1>7, <1>8, IndexesTyped, FirstOfConcat
  <1> HIDE DEF s14
  <1>11. /\ Upgrade \in Seq(CreateStatements) /\ Creates(Upgrade) = Creates(s14) \union Creates(s3)
         /\ Len(Upgrade) > 0 /\ Upgrade[1] = CreateAuditLog
    <2>1. Upgrade = s14 \o s3
      BY <1>4 DEF s12, s13, s14
    <2> QED
      BY <1>3, <1>9, <1>10, <2>1, CreatesOfConcat, FirstOfConcat
  <1>12. User \subseteq CreateUsers.creates \union IndexUsers.creates
    BY DEF User, Unique, CreateUsers, IndexUsers, Create, CreateIndex
  <1>13. Organization \subseteq CreateOrganizations.creates /\ AuditLog \subseteq CreateAuditLog.creates
    BY DEF Organization, AuditLog, CreateOrganizations, CreateAuditLog, Create
  <1>14. AuthSession \subseteq CreateSessions.creates \union IndexSessions.creates
    BY DEF AuthSession, OfUser, CreateSessions, IndexSessions, Create, CreateIndex
  <1>15. EmailToken \subseteq CreateEmailTokens.creates \union IndexEmailTokens.creates
    BY DEF EmailToken, OfUser, CreateEmailTokens, IndexEmailTokens, Create, CreateIndex
  <1>16. Membership \subseteq CreateMemberships.creates \union IndexMemberships.creates
    BY DEF Membership, Unique, CreateMemberships, IndexMemberships, Create, CreateIndex
  <1>17. Design \subseteq CreateDesigns.creates \union Creates(IndexDesigns)
    BY IndexesTyped DEF Design, Owned, CreateDesigns, Create
  <1>18. DesignRevision \subseteq CreateDesignRevisions.creates
    BY DEF DesignRevision, CreateDesignRevisions, Create
  <1>19. InventoryPart \subseteq CreateInventoryParts.creates \union Creates(IndexInventoryParts)
    BY IndexesTyped DEF InventoryPart, Owned, CreateInventoryParts, Create, UserParts, OrgParts
  <1>20. ShareLink \subseteq CreateShareLinks.creates
    BY DEF ShareLink, Owned, CreateShareLinks, Create
  <1>21. InventoryMount \subseteq CreateInventoryMounts.creates
    BY DEF InventoryMount, Owned, CreateInventoryMounts, Create
  <1>22. UserSettings \subseteq CreateUserSettings.creates
    BY DEF UserSettings, OfUser, CreateUserSettings, Create
  <1>23. Creates(Upgrade) = CreateAuditLog.creates \union CreateOrganizations.creates
              \union CreateUsers.creates \union IndexUsers.creates \union CreateDesigns.creates
              \union Creates(IndexDesigns)
              \union CreateEmailTokens.creates \union IndexEmailTokens.creates
              \union CreateInventoryParts.creates \union Creates(IndexInventoryParts)
              \union CreateMemberships.creates \union IndexMemberships.creates
              \union CreateSessions.creates \union IndexSessions.creates
              \union CreateUserSettings.creates \union CreateDesignRevisions.creates
              \union CreateShareLinks.creates \union CreateInventoryMounts.creates
    BY <1>1, <1>2, <1>3, <1>5, <1>7, <1>9, <1>11
  <1>24. Metadata \subseteq Creates(Upgrade)
    BY <1>12, <1>13, <1>14, <1>15, <1>16, <1>17, <1>18, <1>19, <1>20, <1>21, <1>22, <1>23
    DEF Metadata
  <1>25. Creates(Upgrade) \subseteq Metadata
    <2>1. \A i \in DOMAIN Upgrade : Upgrade[i] \in CreateStatements
      BY <1>11
    <2>2. \A a \in CreateStatements : a.creates \subseteq Metadata
      BY DEF CreateStatements
    <2> QED
      BY <2>1, <2>2 DEF Creates
  <1> QED
    BY <1>11, <1>24, <1>25

--------------------------------------------------------------------------------
(* Downgrade *)

Tables == {"users", "sessions", "email_tokens", "organizations", "memberships", "designs",
           "design_revisions", "inventory_parts", "share_links", "inventory_mounts",
           "user_settings", "audit_log"}

LEMMA OwnedTable ==
    ASSUME NEW t, NEW user, NEW org
    PROVE  \A o \in Owned(t, user, org) : o.table = t
  <1>1. Key(t, user, "users", "CASCADE").table = t
    BY DEF Key
  <1>2. Key(t, org, "organizations", "CASCADE").table = t
    BY DEF Key
  <1> QED
    BY <1>1, <1>2 DEF Owned

LEMMA OfUserTable ==
    ASSUME NEW t
    PROVE  \A o \in OfUser(t) : o.table = t
  <1>1. Key(t, "user_id", "users", "CASCADE").table = t
    BY DEF Key
  <1>2. NotNull(t, "user_id").table = t
    BY DEF NotNull
  <1> QED
    BY <1>1, <1>2 DEF OfUser

LEMMA MetadataTables == \A o \in Metadata : o.table \in Tables
  <1>1. \A o \in User : o.table = "users"
    <2>1. /\ Table("users").table = "users"
          /\ Unique("users", {"lower(email)"}).table = "users"
      BY DEF Table, Unique, Index
    <2> QED
      BY <2>1 DEF User
  <1>2. \A o \in AuthSession : o.table = "sessions"
    <2>1. /\ Table("sessions").table = "sessions"
          /\ Unique("sessions", {"token_hash"}).table = "sessions"
          /\ Index("index", "sessions", {"user_id"}, "").table = "sessions"
      BY DEF Table, Unique, Index
    <2> QED
      BY <2>1, OfUserTable DEF AuthSession
  <1>3. \A o \in EmailToken : o.table = "email_tokens"
    <2>1. /\ Table("email_tokens").table = "email_tokens"
          /\ Unique("email_tokens", {"token_hash"}).table = "email_tokens"
          /\ Index("index", "email_tokens", {"user_id"}, "").table = "email_tokens"
          /\ OneOf("email_tokens", "purpose", {"verify", "reset"}).table = "email_tokens"
      BY DEF Table, Unique, Index, OneOf
    <2> QED
      BY <2>1, OfUserTable DEF EmailToken
  <1>4. \A o \in Organization : o.table = "organizations"
    <2>1. /\ Table("organizations").table = "organizations"
          /\ Unique("organizations", {"slug"}).table = "organizations"
      BY DEF Table, Unique, Index
    <2> QED
      BY <2>1 DEF Organization
  <1>5. \A o \in Membership : o.table = "memberships"
    <2>1. /\ Table("memberships").table = "memberships"
          /\ Unique("memberships", {"org_id", "user_id"}).table = "memberships"
          /\ OneOf("memberships", "role",
               {"owner", "admin", "librarian", "member", "viewer"}).table = "memberships"
          /\ Key("memberships", "org_id", "organizations", "CASCADE").table = "memberships"
          /\ NotNull("memberships", "org_id").table = "memberships"
          /\ Key("memberships", "user_id", "users", "CASCADE").table = "memberships"
          /\ Key("memberships", "invited_by", "users", "SET NULL").table = "memberships"
      BY DEF Table, Unique, Index, OneOf, Key, NotNull
    <2> QED
      BY <2>1 DEF Membership
  <1>6. \A o \in Design : o.table = "designs"
    <2>1. /\ Table("designs").table = "designs"
          /\ ExactlyOne("designs", "owner_user_id", "owner_org_id").table = "designs"
          /\ Index("index", "designs", {"owner_user_id"}, "").table = "designs"
          /\ Index("index", "designs", {"owner_org_id"}, "").table = "designs"
          /\ Key("designs", "created_by", "users", "SET NULL").table = "designs"
      BY DEF Table, ExactlyOne, Index, Key
    <2> QED
      BY <2>1, OwnedTable DEF Design
  <1>7. \A o \in DesignRevision : o.table = "design_revisions"
    <2>1. /\ Table("design_revisions").table = "design_revisions"
          /\ Unique("design_revisions", {"design_id", "revision"}).table = "design_revisions"
          /\ Key("design_revisions", "design_id", "designs", "CASCADE").table = "design_revisions"
          /\ NotNull("design_revisions", "design_id").table = "design_revisions"
          /\ Key("design_revisions", "saved_by", "users", "SET NULL").table = "design_revisions"
      BY DEF Table, Unique, Index, Key, NotNull
    <2> QED
      BY <2>1 DEF DesignRevision
  <1>8. \A o \in InventoryPart : o.table = "inventory_parts"
    <2> DEFINE t == "inventory_parts"
               values == {OneOf(t, "part_type",
                                {"coreShape", "coreMaterial", "core", "bobbin", "wire"}),
                          OneOf(t, "source", {"catalog", "private"}),
                          OneOf(t, "lifecycle", {"draft", "approved", "deprecated", "obsolete"})}
               indexes == {Index("unique", t, {"owner_user_id", "part_type", "name"},
                                 "owner_user_id IS NOT NULL AND deleted_at IS NULL"),
                           Index("unique", t, {"owner_org_id", "part_type", "name"},
                                 "owner_org_id IS NOT NULL AND deleted_at IS NULL")}
               others == {Table(t), ExactlyOne(t, "owner_user_id", "owner_org_id"),
                          Key(t, "created_by", "users", "SET NULL")}
    <2>1. InventoryPart = Owned(t, "owner_user_id", "owner_org_id")
                             \union values \union indexes \union others
      BY DEF InventoryPart
    <2>2. \A x : OneOf(t, "part_type", x).table = t /\ OneOf(t, "source", x).table = t
                   /\ OneOf(t, "lifecycle", x).table = t
      BY DEF OneOf
    <2>3. \A x, y : Index("unique", t, x, y).table = t
      BY DEF Index
    <2>4. /\ Table(t).table = t /\ ExactlyOne(t, "owner_user_id", "owner_org_id").table = t
          /\ Key(t, "created_by", "users", "SET NULL").table = t
      BY DEF Table, ExactlyOne, Key
    <2>5. \A o \in values : o.table = t
      BY <2>2
    <2>6. \A o \in indexes : o.table = t
      BY <2>3
    <2>7. \A o \in others : o.table = t
      BY <2>4
    <2> HIDE DEF values, indexes, others
    <2> QED
      BY <2>1, <2>5, <2>6, <2>7, OwnedTable
  <1>9. \A o \in ShareLink : o.table = "share_links"
    <2>1. /\ Table("share_links").table = "share_links"
          /\ Unique("share_links", {"token"}).table = "share_links"
          /\ OneOf("share_links", "kind", {"design", "inventory"}).table = "share_links"
          /\ Target("share_links").table = "share_links"
          /\ Key("share_links", "design_id", "designs", "CASCADE").table = "share_links"
          /\ Key("share_links", "created_by", "users", "SET NULL").table = "share_links"
      BY DEF Table, Unique, Index, OneOf, Target, Key
    <2> QED
      BY <2>1, OwnedTable DEF ShareLink
  <1>10. \A o \in InventoryMount : o.table = "inventory_mounts"
    <2>1. /\ Table("inventory_mounts").table = "inventory_mounts"
          /\ ExactlyOne("inventory_mounts", "mounter_user_id", "mounter_org_id").table = "inventory_mounts"
          /\ Key("inventory_mounts", "share_link_id", "share_links", "CASCADE").table = "inventory_mounts"
          /\ NotNull("inventory_mounts", "share_link_id").table = "inventory_mounts"
      BY DEF Table, ExactlyOne, Key, NotNull
    <2> QED
      BY <2>1, OwnedTable DEF InventoryMount
  <1>11. \A o \in UserSettings : o.table = "user_settings"
    <2>1. /\ Table("user_settings").table = "user_settings"
          /\ Unique("user_settings", {"user_id"}).table = "user_settings"
      BY DEF Table, Unique, Index
    <2> QED
      BY <2>1, OfUserTable DEF UserSettings
  <1>12. \A o \in AuditLog : o.table = "audit_log"
    <2>1. /\ Table("audit_log").table = "audit_log"
      BY DEF Table
    <2> QED
      BY <2>1 DEF AuditLog
  <1> QED
    BY <1>1, <1>2, <1>3, <1>4, <1>5, <1>6, <1>7, <1>8, <1>9, <1>10, <1>11, <1>12 DEF Metadata, Tables

\* The statement drops the object, by itself or with its table.
Dropped(o, statement) ==
    o \in statement.drops \/ o.table \in TablesIn(statement.drops)

\* Downgrade only drops, and drops every table.
LEMMA DowngradeDrops ==
    /\ Len(Downgrade) > 0 /\ Len(Downgrade) \in Nat /\ DOMAIN Downgrade = 1..Len(Downgrade)
    /\ \A i \in DOMAIN Downgrade : Downgrade[i].creates = {}
    /\ Downgrade[1] = Drop("inventory_mounts")
    /\ \A t \in Tables : \E i \in DOMAIN Downgrade : Downgrade[i] = Drop(t)
  <1>1. Len(Downgrade) = 20 /\ DOMAIN Downgrade = 1..20
    BY DEF Downgrade
  <1>3. /\ Downgrade[1] = Drop("inventory_mounts") /\ Downgrade[2] = Drop("share_links")
        /\ Downgrade[3] = Drop("design_revisions") /\ Downgrade[4] = Drop("user_settings")
        /\ Downgrade[6] = Drop("sessions") /\ Downgrade[8] = Drop("memberships")
        /\ Downgrade[11] = Drop("inventory_parts") /\ Downgrade[13] = Drop("email_tokens")
        /\ Downgrade[16] = Drop("designs") /\ Downgrade[18] = Drop("users")
        /\ Downgrade[19] = Drop("organizations") /\ Downgrade[20] = Drop("audit_log")
    BY DEF Downgrade
  <1>2. \A i \in 1..20 : Downgrade[i].creates = {}
    <2>1. \A t : Drop(t).creates = {}
      BY DEF Drop
    <2>2. \A kind, t, columns, where : DropIndex(kind, t, columns, where).creates = {}
      BY DEF DropIndex
    <2>3. /\ Downgrade[5].creates = {} /\ Downgrade[7].creates = {}
          /\ Downgrade[9].creates = {} /\ Downgrade[10].creates = {}
          /\ Downgrade[12].creates = {} /\ Downgrade[14].creates = {}
          /\ Downgrade[15].creates = {} /\ Downgrade[17].creates = {}
      BY <2>2 DEF Downgrade
    <2> QED
      BY <1>3, <2>1, <2>3
  <1> HIDE DEF Downgrade
  <1> QED
    BY <1>1, <1>2, <1>3 DEF Tables

--------------------------------------------------------------------------------
(* Migrators *)

\* What the statements of a migration have made of the database after the first n.
Partial(to, n) ==
    IF to = Latest THEN UNION {Upgrade[i].creates : i \in 1..n}
    ELSE {o \in Metadata : \A i \in 1..n : ~Dropped(o, Downgrade[i])}

LEMMA PartialStep ==
    ASSUME NEW to \in {Latest, None}, NEW n \in Nat, n + 1 \in DOMAIN Statements(to)
    PROVE  After(Partial(to, n), Statements(to)[n + 1]) = Partial(to, n + 1)
  <1>1. 1..(n + 1) = 1..n \union {n + 1}
    OBVIOUS
  <1>2. CASE to = Latest
    <2>1. Upgrade[n + 1].drops = {}
      <3>1. Upgrade[n + 1] \in CreateStatements
        BY <1>2, UpgradeCreates DEF Statements
      <3> QED
        BY <3>1 DEF CreateStatements
    <2>2. \A objects : After(objects, Upgrade[n + 1]) = objects \union Upgrade[n + 1].creates
      BY <2>1 DEF After, Contents, TablesIn, OfKind
    <2>3. Partial(to, n + 1) = Partial(to, n) \union Upgrade[n + 1].creates
      BY <1>1, <1>2 DEF Partial
    <2> QED
      BY <1>2, <2>2, <2>3 DEF Statements
  <1>3. CASE to # Latest
    <2>1. Downgrade[n + 1].creates = {}
      BY <1>3, DowngradeDrops DEF Statements
    <2>2. \A objects : After(objects, Downgrade[n + 1])
                         = {o \in objects : ~Dropped(o, Downgrade[n + 1])}
      BY <2>1 DEF After, Contents, Dropped
    <2>3. Partial(to, n + 1) = {o \in Partial(to, n) : ~Dropped(o, Downgrade[n + 1])}
      BY <1>1, <1>3 DEF Partial
    <2> QED
      BY <1>3, <2>2, <2>3 DEF Statements
  <1> QED
    BY <1>2, <1>3

\* All statements together lead from one version to the other.
LEMMA PartialEnds ==
    /\ Partial(Latest, 0) = {} /\ Partial(None, 0) = Metadata
    /\ Partial(Latest, Len(Upgrade)) = Metadata /\ Partial(None, Len(Downgrade)) = {}
    /\ \A n \in Nat : n <= Len(Upgrade) => Partial(Latest, n) \subseteq Metadata
    /\ \A n \in Nat : Partial(None, n) \subseteq Metadata
  <1>1. /\ DOMAIN Upgrade = 1..Len(Upgrade)
        /\ UNION {Upgrade[i].creates : i \in 1..Len(Upgrade)} = Metadata
    BY UpgradeCreates DEF Creates
  <1>2. Partial(Latest, 0) = {} /\ Partial(None, 0) = Metadata
    BY VersionsAssumption DEF Partial
  <1>3. Partial(Latest, Len(Upgrade)) = Metadata
    BY <1>1 DEF Partial
  <1>4. ASSUME NEW n \in Nat, n <= Len(Upgrade) PROVE Partial(Latest, n) \subseteq Metadata
    <2>1. Len(Upgrade) \in Nat
      BY UpgradeCreates
    <2>2. 1..n \subseteq 1..Len(Upgrade)
      BY <1>4, <2>1
    <2> QED
      BY <1>1, <2>2 DEF Partial
  <1>5. ASSUME NEW o \in Metadata
        PROVE  \E i \in 1..Len(Downgrade) : Dropped(o, Downgrade[i])
    <2>1. PICK i \in 1..Len(Downgrade) : Downgrade[i] = Drop(o.table)
      BY DowngradeDrops, MetadataTables
    <2>2. Table(o.table) \in OfKind(Drop(o.table).drops, "table")
          /\ Table(o.table).table = o.table
      BY DEF Drop, Table, OfKind
    <2>3. o.table \in TablesIn(Downgrade[i].drops)
      BY <2>1, <2>2 DEF TablesIn
    <2> QED
      BY <2>3 DEF Dropped
  <1>6. Partial(None, Len(Downgrade)) = {}
    BY <1>5, VersionsAssumption DEF Partial
  <1>7. \A n \in Nat : Partial(None, n) \subseteq Metadata
    BY VersionsAssumption DEF Partial
  <1> QED
    BY <1>2, <1>3, <1>4, <1>6, <1>7

\* Of the two whole databases, the first statement refuses the wrong one.
LEMMA FirstRefused ==
    ASSUME NEW to \in {Latest, None}, NEW objects \in {{}, Metadata},
           ~Refused(objects, Statements(to)[1])
    PROVE  objects = Partial(to, 0)
  <1>1. CASE to = Latest
    <2>1. Table("audit_log") \in Upgrade[1].creates
      BY UpgradeCreates DEF CreateAuditLog, Create
    <2>2. Table("audit_log") \in Metadata
      BY DEF Metadata, AuditLog
    <2>3. Upgrade[1].creates \intersect objects = {}
      BY <1>1 DEF Refused, Statements
    <2> QED
      BY <1>1, <2>1, <2>2, <2>3, PartialEnds
  <1>2. CASE to = None
    <2>1. Downgrade[1].drops # {}
      <3>1. Drop("inventory_mounts").drops = {Table("inventory_mounts")}
        BY DEF Drop
      <3> QED
        BY <3>1, DowngradeDrops
    <2>2. Downgrade[1].drops \subseteq objects
      BY <1>2, VersionsAssumption DEF Refused, Statements
    <2> QED
      BY <1>2, <2>1, <2>2, PartialEnds
  <1> QED
    BY <1>1, <1>2

\* A transaction that has changed something has applied its first statements to the
\* version it started from, and is the only one.
Midway(m) ==
    /\ version # m.to
    /\ m.next - 1 <= Len(Statements(m.to))
    /\ m.pending = Partial(m.to, m.next - 1)

MigrationInv ==
    /\ accounts \in BOOLEAN
    /\ migrators \in [Migrators -> MigratorStates]
    /\ WholeVersions
    /\ \A p \in Migrators :
          /\ migrators[p].pc \in {"version", "ddl"} => accounts
          /\ migrators[p].pc \in {"schema", "version"} => migrators[p].next = 1
          /\ Locks(p) => Midway(migrators[p])
    /\ \A p, q \in Migrators : Locks(p) /\ Locks(q) => p = q

LEMMA BecameKeeps ==
    ASSUME MigrationInv, NEW p \in Migrators, NEW m \in MigratorStates,
           migrators' = [migrators EXCEPT ![p] = m],
           ~(m.pc = "ddl" /\ m.next > 1),
           accounts' \in BOOLEAN, accounts => accounts',
           m.pc \in {"version", "ddl"} => accounts',
           m.pc \in {"schema", "version"} => m.next = 1,
           UNCHANGED <<db, version>>
    PROVE  MigrationInv'
  <1>1. migrators'[p] = m /\ \A q \in Migrators \ {p} : migrators'[q] = migrators[q]
    BY DEF MigrationInv
  <1>2. \A q \in Migrators : Locks(q)' => Locks(q) /\ migrators'[q] = migrators[q]
    BY <1>1 DEF Locks, InDdl
  <1>3. WholeVersions' /\ migrators' \in [Migrators -> MigratorStates]
    BY DEF MigrationInv, WholeVersions
  <1>4. ASSUME NEW q \in Migrators
        PROVE  /\ migrators'[q].pc \in {"version", "ddl"} => accounts'
               /\ migrators'[q].pc \in {"schema", "version"} => migrators'[q].next = 1
               /\ Locks(q)' => Midway(migrators[q])'
    BY <1>1, <1>2 DEF MigrationInv, Midway
  <1> QED
    BY <1>2, <1>3, <1>4 DEF MigrationInv

LEMMA ExecuteKeeps ==
    ASSUME MigrationInv, NEW p \in Migrators, ExecuteStatement(p)
    PROVE  MigrationInv'
  <1> DEFINE m == migrators[p]
             i == m.next
             objects == IF i = 1 THEN db ELSE m.pending
  <1>1. m \in MigratorStates /\ m.pc = "ddl" /\ i \in DOMAIN Statements(m.to) /\ i \in Nat
        /\ m.to \in {Latest, None}
    BY DEF MigrationInv, ExecuteStatement, InDdl, MigratorStates
  <1>2. CASE Refused(objects, Statements(m.to)[i])
    <2> DEFINE n == [m EXCEPT !.pc = "failed"]
    <2>1. n \in MigratorStates /\ n.pc = "failed"
      BY <1>1 DEF MigratorStates
    <2>2. migrators' = [migrators EXCEPT ![p] = n] /\ UNCHANGED <<accounts, db, version>>
      BY <1>2 DEF ExecuteStatement, Became, MigrationInv
    <2> HIDE DEF n
    <2> QED
      BY <2>1, <2>2, BecameKeeps DEF MigrationInv
  <1>3. CASE ~Refused(objects, Statements(m.to)[i])
    <2>1. /\ DOMAIN Statements(m.to) = 1..Len(Statements(m.to))
          /\ Len(Statements(m.to)) \in Nat
      BY <1>1, UpgradeCreates, DowngradeDrops DEF Statements
    <2>2. db \in {{}, Metadata} /\ (version = Latest => db = Metadata)
          /\ (version # Latest => version = None /\ db = {})
      BY VersionsAssumption DEF MigrationInv, WholeVersions
    <2>3. objects = Partial(m.to, i - 1) /\ version # m.to
      <3>1. CASE i = 1
        <4>1. db = Partial(m.to, 0)
          BY <1>1, <1>3, <2>2, <3>1, FirstRefused
        <4>2. Metadata # {}
          BY DEF Metadata, AuditLog
        <4>3. m.to # version
          BY <1>1, <2>2, <4>1, <4>2, PartialEnds
        <4> QED
          BY <3>1, <4>1, <4>3
      <3>2. CASE i # 1
        <4>1. Locks(p)
          BY <1>1, <2>1, <3>2 DEF Locks, InDdl
        <4> QED
          BY <3>2, <4>1 DEF MigrationInv, Midway
      <3> QED
        BY <3>1, <3>2
    <2> DEFINE n == [m EXCEPT !.next = i + 1, !.pending = Partial(m.to, i)]
    <2>4. After(objects, Statements(m.to)[i]) = Partial(m.to, i)
      <3>1. i - 1 \in Nat /\ (i - 1) + 1 = i
        BY <1>1, <2>1
      <3> HIDE DEF m, i, objects
      <3> QED
        BY <1>1, <2>3, <3>1, PartialStep
    <2>5. Partial(m.to, i) \subseteq Metadata
      BY <1>1, <2>1, PartialEnds DEF Statements
    <2>6. /\ n \in MigratorStates /\ n.pc = "ddl" /\ n.to = m.to /\ n.next = i + 1
          /\ n.pending = Partial(m.to, i)
      <3> DEFINE partial == Partial(m.to, i)
      <3>1. partial \in SUBSET Metadata /\ i + 1 \in Nat
        BY <1>1, <2>5
      <3> HIDE DEF partial
      <3>2. /\ [m EXCEPT !.next = i + 1, !.pending = partial] \in MigratorStates
            /\ [m EXCEPT !.next = i + 1, !.pending = partial].pc = "ddl"
            /\ [m EXCEPT !.next = i + 1, !.pending = partial].to = m.to
            /\ [m EXCEPT !.next = i + 1, !.pending = partial].next = i + 1
            /\ [m EXCEPT !.next = i + 1, !.pending = partial].pending = partial
        BY <1>1, <3>1 DEF MigratorStates
      <3> QED
        BY <3>2 DEF partial
    <2>7. migrators' = [migrators EXCEPT ![p] = n] /\ UNCHANGED <<accounts, db, version>>
      BY <1>3, <2>4 DEF ExecuteStatement, MigrationInv
    <2> HIDE DEF n, objects
    <2>8. migrators'[p] = n /\ \A q \in Migrators \ {p} : migrators'[q] = migrators[q]
      BY <2>7 DEF MigrationInv
    <2>9. \A q \in Migrators \ {p} : ~Locks(q)'
      BY <2>8 DEF ExecuteStatement, Locks, InDdl
    <2>10. Midway(migrators[p])'
      BY <1>1, <2>1, <2>3, <2>6, <2>7, <2>8 DEF Midway
    <2>11. /\ WholeVersions' /\ accounts' \in BOOLEAN
           /\ migrators' \in [Migrators -> MigratorStates]
           /\ \A q \in Migrators :
                 /\ migrators'[q].pc \in {"version", "ddl"} => accounts'
                 /\ migrators'[q].pc \in {"schema", "version"} => migrators'[q].next = 1
      BY <1>1, <2>6, <2>7, <2>8 DEF MigrationInv, WholeVersions
    <2> QED
      BY <2>9, <2>10, <2>11 DEF MigrationInv
  <1> QED
    BY <1>2, <1>3

LEMMA CommitMigrationKeeps ==
    ASSUME MigrationInv, NEW p \in Migrators, CommitMigration(p)
    PROVE  MigrationInv'
  <1> DEFINE m == migrators[p]
  <1>1. m \in MigratorStates /\ m.pc = "ddl" /\ m.to \in {Latest, None} /\ m.next \in Nat
    BY DEF MigrationInv, CommitMigration, InDdl, MigratorStates
  <1>2. Len(Statements(m.to)) \in Nat /\ Len(Statements(m.to)) > 0
    BY <1>1, UpgradeCreates, DowngradeDrops DEF Statements
  <1>3. Locks(p) /\ m.next - 1 = Len(Statements(m.to))
        /\ m.pending = Partial(m.to, Len(Statements(m.to)))
    <2>1. Locks(p)
      BY <1>1, <1>2 DEF CommitMigration, Locks, InDdl
    <2> QED
      BY <1>1, <1>2, <2>1 DEF CommitMigration, MigrationInv, Midway
  <1>4. accounts /\ WholeVersions'
    <2>1. accounts
      BY <1>1 DEF MigrationInv
    <2>2. CASE m.to = Latest
      BY <1>3, <2>1, <2>2, PartialEnds DEF CommitMigration, WholeVersions, Statements
    <2>3. CASE m.to = None
      BY <1>3, <2>1, <2>3, PartialEnds, VersionsAssumption
      DEF CommitMigration, WholeVersions, Statements
    <2> QED
      BY <1>1, <2>1, <2>2, <2>3
  <1>5. migrators' = [migrators EXCEPT ![p].pc = "idle"] /\ accounts' = accounts
    BY DEF CommitMigration, Became
  <1>6. \A q \in Migrators : ~Locks(q)'
    BY <1>3, <1>5 DEF MigrationInv, Locks, InDdl
  <1>7. /\ migrators' \in [Migrators -> MigratorStates]
        /\ \A q \in Migrators :
              /\ migrators'[q].pc \in {"version", "ddl"} => accounts'
              /\ migrators'[q].pc \in {"schema", "version"} => migrators'[q].next = 1
    BY <1>4, <1>5 DEF MigrationInv, MigratorStates
  <1> QED
    BY <1>4, <1>5, <1>6, <1>7 DEF MigrationInv

LEMMA MigrationInvNext ==
    ASSUME MigrationInv, [MigrationNext]_migrationVars
    PROVE  MigrationInv'
  <1>1. CASE UNCHANGED migrationVars
    BY <1>1 DEF migrationVars, MigrationInv, WholeVersions, Locks, InDdl, Midway
  <1>2. ASSUME NEW p \in Migrators, NEW pc \in {"idle", "version", "failed"}, Became(p, pc),
               accounts' \in BOOLEAN, accounts => accounts',
               pc = "version" => accounts' /\ migrators[p].next = 1,
               UNCHANGED <<db, version>>
        PROVE  MigrationInv'
    <2> DEFINE m == [migrators[p] EXCEPT !.pc = pc]
    <2>1. m \in MigratorStates /\ m.pc = pc /\ m.next = migrators[p].next
      BY DEF MigrationInv, MigratorStates
    <2>2. migrators' = [migrators EXCEPT ![p] = m]
      BY <1>2 DEF Became, MigrationInv
    <2> HIDE DEF m
    <2> QED
      BY <1>2, <2>1, <2>2, BecameKeeps
  <1>3. ASSUME NEW p \in Migrators, StartMigration(p) PROVE MigrationInv'
    <2>1. PICK to \in {Latest, None} :
             migrators' = [migrators EXCEPT ![p] = [pc |-> "schema", to |-> to, next |-> 1,
                                                    pending |-> {}]]
      BY <1>3 DEF StartMigration
    <2> DEFINE m == [pc |-> "schema", to |-> to, next |-> 1, pending |-> {}]
    <2>2. m \in MigratorStates /\ m.pc = "schema" /\ m.next = 1
      BY DEF MigratorStates
    <2> HIDE DEF m
    <2> QED
      BY <1>3, <2>1, <2>2, BecameKeeps DEF StartMigration, MigrationInv, m
  <1>4. ASSUME NEW p \in Migrators, EnsureSchema(p) PROVE MigrationInv'
    BY <1>2, <1>4 DEF EnsureSchema, MigrationInv
  <1>5. ASSUME NEW p \in Migrators, ReadVersion(p) PROVE MigrationInv'
    <2>1. CASE version = migrators[p].to
      BY <1>2, <1>5, <2>1 DEF ReadVersion, MigrationInv
    <2>2. CASE version # migrators[p].to
      <3> DEFINE m == [migrators[p] EXCEPT !.pc = "ddl", !.pending = db]
      <3>1. migrators[p] \in MigratorStates /\ migrators[p].pc = "version" /\ db \subseteq Metadata
        BY <1>5 DEF ReadVersion, MigrationInv, WholeVersions
      <3>2. m \in MigratorStates /\ m.pc = "ddl" /\ m.next = 1
        BY <1>5, <3>1 DEF ReadVersion, MigratorStates, MigrationInv
      <3>3. /\ migrators' = [migrators EXCEPT ![p] = m]
            /\ accounts /\ UNCHANGED <<accounts, db, version>>
        BY <1>5, <2>2 DEF ReadVersion, MigrationInv
      <3> HIDE DEF m
      <3>4. migrators[p] \in MigratorStates /\ accounts \in BOOLEAN /\ accounts' \in BOOLEAN
        BY <3>3 DEF MigrationInv
      <3>5. ~(m.pc = "ddl" /\ m.next > 1)
        BY <3>2
      <3>6. m.pc \in {"version", "ddl"} => accounts'
        BY <3>3
      <3>7. m.pc \in {"schema", "version"} => m.next = 1
        BY <3>2
      <3>8. accounts => accounts'
        BY <3>3
      <3>9. UNCHANGED <<db, version>>
        BY <3>3
      <3> QED
        BY <3>2, <3>3, <3>4, <3>5, <3>6, <3>7, <3>8, <3>9, BecameKeeps
    <2> QED
      BY <2>1, <2>2
  <1>6. ASSUME NEW p \in Migrators, MigratorDies(p) PROVE MigrationInv'
    BY <1>2, <1>6 DEF MigratorDies, MigrationInv
  <1> QED
    BY <1>1, <1>3, <1>4, <1>5, <1>6, ExecuteKeeps, CommitMigrationKeeps DEF MigrationNext

LEMMA MigrationInvInit == ASSUME MigrationInit PROVE MigrationInv
  <1> DEFINE idle == [pc |-> "idle", to |-> None, next |-> 1, pending |-> {}]
  <1>1. idle \in MigratorStates /\ idle.pc = "idle" /\ idle.next = 1
    BY DEF MigratorStates
  <1>2. migrators = [p \in Migrators |-> idle] /\ WholeVersions /\ accounts \in BOOLEAN
    BY DEF MigrationInit, WholeVersions
  <1> HIDE DEF idle
  <1> QED
    BY <1>1, <1>2 DEF MigrationInv, Locks, InDdl

\* Whatever is killed, repeated or run at once, by any number of processes: the
\* database is empty or is what the ORM's classes declare (alembic/env.py, the
\* migration 0001), because one transaction at a time has changed anything, and its
\* statements, one after the other, lead from one whole version to the other.
THEOREM WholeVersionsHolds == MigrationSpec => []WholeVersions
  <1>1. MigrationInit => MigrationInv
    BY MigrationInvInit
  <1>2. MigrationInv /\ [MigrationNext]_migrationVars => MigrationInv'
    BY MigrationInvNext
  <1>3. MigrationInv => WholeVersions
    BY DEF MigrationInv
  <1> QED
    BY <1>1, <1>2, <1>3, PTL DEF MigrationSpec

--------------------------------------------------------------------------------
(* What an account holds *)

\* The columns of the tables that refer to rows.
Columns ==
    [users |-> {}, organizations |-> {},
     designs |-> {"owner_user_id", "owner_org_id", "created_by"},
     design_revisions |-> {"design_id", "saved_by"},
     memberships |-> {"org_id", "user_id", "invited_by"},
     inventory_parts |-> {"owner_user_id", "owner_org_id", "created_by"},
     share_links |-> {"design_id", "owner_user_id", "owner_org_id", "created_by"},
     inventory_mounts |-> {"share_link_id", "mounter_user_id", "mounter_org_id"},
     user_settings |-> {"user_id"}, sessions |-> {"user_id"}, email_tokens |-> {"user_id"}]

\* Those that name who did something, and not what the row belongs to.
Authors == {"created_by", "saved_by", "invited_by"}

\* How far down a chain of owners the rows of a table may be.
Rank ==
    [users |-> 0, organizations |-> 0, designs |-> 1, share_links |-> 2,
     design_revisions |-> 3, memberships |-> 3, inventory_parts |-> 3,
     inventory_mounts |-> 3, user_settings |-> 3, sessions |-> 3, email_tokens |-> 3]

NameOf(r) == <<r.table, r.id>>

\* A row has the columns of its table, and those that say whose it is are set.
Shaped(r) ==
    /\ r.table \in DOMAIN Columns
    /\ r = Row(r.table, r.id, r.refs, r.data)
    /\ DOMAIN r.refs = Columns[r.table]
    /\ r.table = "design_revisions" =>
          /\ r.refs["design_id"] # None /\ r.data \in Nat
          /\ r.id = <<r.refs["design_id"], r.data>>
    /\ r.table = "share_links" =>
          IF r.data = "design"
          THEN r.refs["design_id"] # None /\ r.refs["owner_user_id"] = None
          ELSE r.refs["design_id"] = None
    /\ r.table = "inventory_mounts" => r.refs["share_link_id"] # None

Leads(r, rs) ==
    \A c \in DOMAIN r.refs : r.refs[c] # None => Exists(rs, MeansRow[c], r.refs[c])

HasNewest(d) == \E r \in RevisionsOf(d) : \A s \in RevisionsOf(d) : s.data <= r.data

OneRowPerName == \A r, s \in rows : NameOf(r) = NameOf(s) => r = s

RowsInv ==
    /\ IsFiniteSet(rows)
    /\ \A r \in rows : Shaped(r) /\ Leads(r, rows)
    /\ \A d \in RowsOf(rows, "designs") : HasNewest(d.id)
    /\ OneRowPerName

ServingInv ==
    /\ DOMAIN serving = Workers
    /\ \A w \in Workers :
          /\ DOMAIN serving[w] = DOMAIN Free
          /\ serving[w].pc # "free" => serving[w].user \in Users
          /\ serving[w].pc = "commit" => serving[w].found \in Nat \union {None}

--------------------------------------------------------------------------------
(* The keys of the schema *)

\* A column that refers to rows: those go with them, or name them.
Link(t, c) == Key(t, c, MeansRow[c], "CASCADE")

Note(t, c) == Key(t, c, MeansRow[c], "SET NULL")

LEMMA LinkFields ==
    ASSUME NEW t, NEW c
    PROVE  /\ Link(t, c).kind = "key" /\ Note(t, c).kind = "key"
           /\ Link(t, c).table = t /\ Note(t, c).table = t
           /\ Link(t, c).column = c /\ Note(t, c).column = c
           /\ Link(t, c).to = MeansRow[c] /\ Note(t, c).to = MeansRow[c]
           /\ Link(t, c).onDelete = "CASCADE" /\ Note(t, c).onDelete = "SET NULL"
  BY DEF Link, Note, Key

LEMMA Meanings ==
    /\ MeansRow["user_id"] = "users" /\ MeansRow["created_by"] = "users"
    /\ MeansRow["saved_by"] = "users" /\ MeansRow["invited_by"] = "users"
    /\ MeansRow["owner_user_id"] = "users" /\ MeansRow["mounter_user_id"] = "users"
    /\ MeansRow["org_id"] = "organizations" /\ MeansRow["owner_org_id"] = "organizations"
    /\ MeansRow["mounter_org_id"] = "organizations"
    /\ MeansRow["design_id"] = "designs" /\ MeansRow["share_link_id"] = "share_links"
  BY DEF MeansRow

\* Class by class, the columns that refer to rows are keys, and nothing else is.
LEMMA ClassKeys ==
    /\ OfKind(User, "key") = {}
    /\ OfKind(Organization, "key") = {}
    /\ OfKind(AuditLog, "key") = {}
    /\ OfKind(AuthSession, "key") = {Link("sessions", "user_id")}
    /\ OfKind(EmailToken, "key") = {Link("email_tokens", "user_id")}
    /\ OfKind(Membership, "key") = {Link("memberships", "org_id"),
                                    Link("memberships", "user_id"),
                                    Note("memberships", "invited_by")}
    /\ OfKind(Design, "key") = {Link("designs", "owner_user_id"),
                                Link("designs", "owner_org_id"), Note("designs", "created_by")}
    /\ OfKind(DesignRevision, "key") = {Link("design_revisions", "design_id"),
                                        Note("design_revisions", "saved_by")}
    /\ OfKind(InventoryPart, "key") = {Link("inventory_parts", "owner_user_id"),
                                       Link("inventory_parts", "owner_org_id"),
                                       Note("inventory_parts", "created_by")}
    /\ OfKind(ShareLink, "key") = {Link("share_links", "design_id"),
                                   Link("share_links", "owner_user_id"),
                                   Link("share_links", "owner_org_id"),
                                   Note("share_links", "created_by")}
    /\ OfKind(InventoryMount, "key") = {Link("inventory_mounts", "share_link_id"),
                                        Link("inventory_mounts", "mounter_user_id"),
                                        Link("inventory_mounts", "mounter_org_id")}
    /\ OfKind(UserSettings, "key") = {Link("user_settings", "user_id")}
  <1>1. OfKind(User, "key") =
           {}
    <2>1. /\ Table("users").kind # "key"
          /\ Unique("users", {"lower(email)"}).kind # "key"
      BY DEF Table, Unique, Index
    <2> QED
      BY <2>1 DEF OfKind, User
  <1>2. OfKind(Organization, "key") =
           {}
    <2>1. /\ Table("organizations").kind # "key"
          /\ Unique("organizations", {"slug"}).kind # "key"
      BY DEF Table, Unique, Index
    <2> QED
      BY <2>1 DEF OfKind, Organization
  <1>3. OfKind(AuditLog, "key") =
           {}
    <2>1. /\ Table("audit_log").kind # "key"
      BY DEF Table
    <2> QED
      BY <2>1 DEF OfKind, AuditLog
  <1>4. OfKind(AuthSession, "key") =
           {Link("sessions", "user_id")}
    <2>1. /\ Table("sessions").kind # "key"
          /\ Unique("sessions", {"token_hash"}).kind # "key"
          /\ Index("index", "sessions", {"user_id"}, "").kind # "key"
          /\ NotNull("sessions", "user_id").kind # "key"
      BY DEF Table, Unique, Index, NotNull
    <2>2. /\ Link("sessions", "user_id").kind = "key"
      BY DEF Link, Note, Key
    <2>3. AuthSession = {Link("sessions", "user_id")}
              \union {Table("sessions"), Unique("sessions", {"token_hash"}),
                          Index("index", "sessions", {"user_id"}, ""),
                          NotNull("sessions", "user_id")}
      BY Meanings DEF AuthSession, OfUser, Link, Note
    <2> QED
      BY <2>1, <2>2, <2>3 DEF OfKind
  <1>5. OfKind(EmailToken, "key") =
           {Link("email_tokens", "user_id")}
    <2>1. /\ Table("email_tokens").kind # "key"
          /\ Unique("email_tokens", {"token_hash"}).kind # "key"
          /\ Index("index", "email_tokens", {"user_id"}, "").kind # "key"
          /\ OneOf("email_tokens", "purpose", {"verify", "reset"}).kind # "key"
          /\ NotNull("email_tokens", "user_id").kind # "key"
      BY DEF Table, Unique, Index, NotNull, OneOf
    <2>2. /\ Link("email_tokens", "user_id").kind = "key"
      BY DEF Link, Note, Key
    <2>3. EmailToken = {Link("email_tokens", "user_id")}
              \union {Table("email_tokens"), Unique("email_tokens", {"token_hash"}),
                          Index("index", "email_tokens", {"user_id"}, ""),
                          OneOf("email_tokens", "purpose", {"verify", "reset"}),
                          NotNull("email_tokens", "user_id")}
      BY Meanings DEF EmailToken, OfUser, Link, Note
    <2> QED
      BY <2>1, <2>2, <2>3 DEF OfKind
  <1>6. OfKind(Membership, "key") =
           {Link("memberships", "org_id"), Link("memberships", "user_id"),
            Note("memberships", "invited_by")}
    <2>1. /\ Table("memberships").kind # "key"
          /\ Unique("memberships", {"org_id", "user_id"}).kind # "key"
          /\ OneOf("memberships", "role",
               {"owner", "admin", "librarian", "member", "viewer"}).kind # "key"
          /\ NotNull("memberships", "org_id").kind # "key"
      BY DEF Table, Unique, Index, NotNull, OneOf
    <2>2. /\ Link("memberships", "org_id").kind = "key"
          /\ Link("memberships", "user_id").kind = "key"
          /\ Note("memberships", "invited_by").kind = "key"
      BY DEF Link, Note, Key
    <2>3. Membership = {Link("memberships", "org_id"), Link("memberships", "user_id"),
             Note("memberships", "invited_by")}
              \union {Table("memberships"), Unique("memberships", {"org_id", "user_id"}),
                          OneOf("memberships", "role",
                  {"owner", "admin", "librarian", "member", "viewer"}),
                          NotNull("memberships", "org_id")}
      BY Meanings DEF Membership, Link, Note
    <2> QED
      BY <2>1, <2>2, <2>3 DEF OfKind
  <1>7. OfKind(Design, "key") =
           {Link("designs", "owner_user_id"), Link("designs", "owner_org_id"),
            Note("designs", "created_by")}
    <2>1. /\ Table("designs").kind # "key"
          /\ ExactlyOne("designs", "owner_user_id", "owner_org_id").kind # "key"
          /\ Index("index", "designs", {"owner_user_id"}, "").kind # "key"
          /\ Index("index", "designs", {"owner_org_id"}, "").kind # "key"
      BY DEF Table, Index, ExactlyOne
    <2>2. /\ Link("designs", "owner_user_id").kind = "key"
          /\ Link("designs", "owner_org_id").kind = "key"
          /\ Note("designs", "created_by").kind = "key"
      BY DEF Link, Note, Key
    <2>3. Design = {Link("designs", "owner_user_id"), Link("designs", "owner_org_id"),
             Note("designs", "created_by")}
              \union {Table("designs"),
                          ExactlyOne("designs", "owner_user_id", "owner_org_id"),
                          Index("index", "designs", {"owner_user_id"}, ""),
                          Index("index", "designs", {"owner_org_id"}, "")}
      BY Meanings DEF Design, Owned, Link, Note
    <2> QED
      BY <2>1, <2>2, <2>3 DEF OfKind
  <1>8. OfKind(DesignRevision, "key") =
           {Link("design_revisions", "design_id"), Note("design_revisions", "saved_by")}
    <2>1. /\ Table("design_revisions").kind # "key"
          /\ Unique("design_revisions", {"design_id", "revision"}).kind # "key"
          /\ NotNull("design_revisions", "design_id").kind # "key"
      BY DEF Table, Unique, Index, NotNull
    <2>2. /\ Link("design_revisions", "design_id").kind = "key"
          /\ Note("design_revisions", "saved_by").kind = "key"
      BY DEF Link, Note, Key
    <2>3. DesignRevision = {Link("design_revisions", "design_id"), Note("design_revisions", "saved_by")}
              \union {Table("design_revisions"),
                          Unique("design_revisions", {"design_id", "revision"}),
                          NotNull("design_revisions", "design_id")}
      BY Meanings DEF DesignRevision, Link, Note
    <2> QED
      BY <2>1, <2>2, <2>3 DEF OfKind
  <1>9. OfKind(InventoryPart, "key") =
           {Link("inventory_parts", "owner_user_id"), Link("inventory_parts", "owner_org_id"),
            Note("inventory_parts", "created_by")}
    <2>1. /\ Table("inventory_parts").kind # "key"
          /\ ExactlyOne("inventory_parts", "owner_user_id", "owner_org_id").kind # "key"
          /\ OneOf("inventory_parts", "part_type",
               {"coreShape", "coreMaterial", "core", "bobbin", "wire"}).kind # "key"
          /\ OneOf("inventory_parts", "source", {"catalog", "private"}).kind # "key"
          /\ OneOf("inventory_parts", "lifecycle",
               {"draft", "approved", "deprecated", "obsolete"}).kind # "key"
          /\ Index("unique", "inventory_parts", {"owner_user_id", "part_type", "name"},
               "owner_user_id IS NOT NULL AND deleted_at IS NULL").kind # "key"
          /\ Index("unique", "inventory_parts", {"owner_org_id", "part_type", "name"},
               "owner_org_id IS NOT NULL AND deleted_at IS NULL").kind # "key"
      BY DEF Table, Index, ExactlyOne, OneOf
    <2>2. /\ Link("inventory_parts", "owner_user_id").kind = "key"
          /\ Link("inventory_parts", "owner_org_id").kind = "key"
          /\ Note("inventory_parts", "created_by").kind = "key"
      BY DEF Link, Note, Key
    <2>3. InventoryPart = {Link("inventory_parts", "owner_user_id"), Link("inventory_parts", "owner_org_id"),
             Note("inventory_parts", "created_by")}
              \union {Table("inventory_parts"),
                          ExactlyOne("inventory_parts", "owner_user_id", "owner_org_id"),
                          OneOf("inventory_parts", "part_type",
                  {"coreShape", "coreMaterial", "core", "bobbin", "wire"}),
                          OneOf("inventory_parts", "source", {"catalog", "private"}),
                          OneOf("inventory_parts", "lifecycle",
                  {"draft", "approved", "deprecated", "obsolete"}),
                          Index("unique", "inventory_parts", {"owner_user_id", "part_type", "name"},
                  "owner_user_id IS NOT NULL AND deleted_at IS NULL"),
                          Index("unique", "inventory_parts", {"owner_org_id", "part_type", "name"},
                  "owner_org_id IS NOT NULL AND deleted_at IS NULL")}
      BY Meanings DEF InventoryPart, Owned, Link, Note
    <2> QED
      BY <2>1, <2>2, <2>3 DEF OfKind
  <1>10. OfKind(ShareLink, "key") =
           {Link("share_links", "design_id"), Link("share_links", "owner_user_id"),
            Link("share_links", "owner_org_id"), Note("share_links", "created_by")}
    <2>1. /\ Table("share_links").kind # "key"
          /\ Unique("share_links", {"token"}).kind # "key"
          /\ OneOf("share_links", "kind", {"design", "inventory"}).kind # "key"
          /\ Target("share_links").kind # "key"
      BY DEF Table, Unique, Index, OneOf, Target
    <2>2. /\ Link("share_links", "design_id").kind = "key"
          /\ Link("share_links", "owner_user_id").kind = "key"
          /\ Link("share_links", "owner_org_id").kind = "key"
          /\ Note("share_links", "created_by").kind = "key"
      BY DEF Link, Note, Key
    <2>3. ShareLink = {Link("share_links", "design_id"), Link("share_links", "owner_user_id"),
             Link("share_links", "owner_org_id"), Note("share_links", "created_by")}
              \union {Table("share_links"), Unique("share_links", {"token"}),
                          OneOf("share_links", "kind", {"design", "inventory"}),
                          Target("share_links")}
      BY Meanings DEF ShareLink, Owned, Link, Note
    <2> QED
      BY <2>1, <2>2, <2>3 DEF OfKind
  <1>11. OfKind(InventoryMount, "key") =
           {Link("inventory_mounts", "share_link_id"),
            Link("inventory_mounts", "mounter_user_id"),
            Link("inventory_mounts", "mounter_org_id")}
    <2>1. /\ Table("inventory_mounts").kind # "key"
          /\ ExactlyOne("inventory_mounts", "mounter_user_id", "mounter_org_id").kind # "key"
          /\ NotNull("inventory_mounts", "share_link_id").kind # "key"
      BY DEF Table, ExactlyOne, NotNull
    <2>2. /\ Link("inventory_mounts", "share_link_id").kind = "key"
          /\ Link("inventory_mounts", "mounter_user_id").kind = "key"
          /\ Link("inventory_mounts", "mounter_org_id").kind = "key"
      BY DEF Link, Note, Key
    <2>3. InventoryMount = {Link("inventory_mounts", "share_link_id"),
             Link("inventory_mounts", "mounter_user_id"),
             Link("inventory_mounts", "mounter_org_id")}
              \union {Table("inventory_mounts"),
                          ExactlyOne("inventory_mounts", "mounter_user_id", "mounter_org_id"),
                          NotNull("inventory_mounts", "share_link_id")}
      BY Meanings DEF InventoryMount, Owned, Link, Note
    <2> QED
      BY <2>1, <2>2, <2>3 DEF OfKind
  <1>12. OfKind(UserSettings, "key") =
           {Link("user_settings", "user_id")}
    <2>1. /\ Table("user_settings").kind # "key"
          /\ Unique("user_settings", {"user_id"}).kind # "key"
          /\ NotNull("user_settings", "user_id").kind # "key"
      BY DEF Table, Unique, Index, NotNull
    <2>2. /\ Link("user_settings", "user_id").kind = "key"
      BY DEF Link, Note, Key
    <2>3. UserSettings = {Link("user_settings", "user_id")}
              \union {Table("user_settings"), Unique("user_settings", {"user_id"}),
                          NotNull("user_settings", "user_id")}
      BY Meanings DEF UserSettings, OfUser, Link, Note
    <2> QED
      BY <2>1, <2>2, <2>3 DEF OfKind
  <1> QED
    BY <1>1, <1>2, <1>3, <1>4, <1>5, <1>6, <1>7, <1>8, <1>9, <1>10, <1>11, <1>12

\* A key is that of a column of its table, and its owner's table ranks lower.
Known(k) ==
    /\ k.column \in Columns[k.table]
    /\ k.to = MeansRow[k.column]
    /\ k.onDelete = "CASCADE" <=> k.column \notin Authors
    /\ k.to \in DOMAIN Rank /\ Rank[k.to] \in Nat /\ Rank[k.table] \in Nat
    /\ k.column \notin Authors => Rank[k.to] < Rank[k.table]

LEMMA KeysKnown ==
    /\ Known(Link("memberships", "org_id"))
    /\ Known(Link("memberships", "user_id"))
    /\ Known(Note("memberships", "invited_by"))
    /\ Known(Link("designs", "owner_user_id"))
    /\ Known(Link("designs", "owner_org_id"))
    /\ Known(Note("designs", "created_by"))
    /\ Known(Link("design_revisions", "design_id"))
    /\ Known(Note("design_revisions", "saved_by"))
    /\ Known(Link("inventory_parts", "owner_user_id"))
    /\ Known(Link("inventory_parts", "owner_org_id"))
    /\ Known(Note("inventory_parts", "created_by"))
    /\ Known(Link("share_links", "design_id"))
    /\ Known(Link("share_links", "owner_user_id"))
    /\ Known(Link("share_links", "owner_org_id"))
    /\ Known(Note("share_links", "created_by"))
    /\ Known(Link("inventory_mounts", "share_link_id"))
    /\ Known(Link("inventory_mounts", "mounter_user_id"))
    /\ Known(Link("inventory_mounts", "mounter_org_id"))
    /\ Known(Link("user_settings", "user_id"))
    /\ Known(Link("sessions", "user_id"))
    /\ Known(Link("email_tokens", "user_id"))
  <1>1. Known(Link("memberships", "org_id"))
    BY DEF Known, Link, Key, Columns, Rank, MeansRow, Authors
  <1>2. Known(Link("memberships", "user_id"))
    BY DEF Known, Link, Key, Columns, Rank, MeansRow, Authors
  <1>3. Known(Note("memberships", "invited_by"))
    BY DEF Known, Note, Key, Columns, Rank, MeansRow, Authors
  <1>4. Known(Link("designs", "owner_user_id"))
    BY DEF Known, Link, Key, Columns, Rank, MeansRow, Authors
  <1>5. Known(Link("designs", "owner_org_id"))
    BY DEF Known, Link, Key, Columns, Rank, MeansRow, Authors
  <1>6. Known(Note("designs", "created_by"))
    BY DEF Known, Note, Key, Columns, Rank, MeansRow, Authors
  <1>7. Known(Link("design_revisions", "design_id"))
    BY DEF Known, Link, Key, Columns, Rank, MeansRow, Authors
  <1>8. Known(Note("design_revisions", "saved_by"))
    BY DEF Known, Note, Key, Columns, Rank, MeansRow, Authors
  <1>9. Known(Link("inventory_parts", "owner_user_id"))
    BY DEF Known, Link, Key, Columns, Rank, MeansRow, Authors
  <1>10. Known(Link("inventory_parts", "owner_org_id"))
    BY DEF Known, Link, Key, Columns, Rank, MeansRow, Authors
  <1>11. Known(Note("inventory_parts", "created_by"))
    BY DEF Known, Note, Key, Columns, Rank, MeansRow, Authors
  <1>12. Known(Link("share_links", "design_id"))
    BY DEF Known, Link, Key, Columns, Rank, MeansRow, Authors
  <1>13. Known(Link("share_links", "owner_user_id"))
    BY DEF Known, Link, Key, Columns, Rank, MeansRow, Authors
  <1>14. Known(Link("share_links", "owner_org_id"))
    BY DEF Known, Link, Key, Columns, Rank, MeansRow, Authors
  <1>15. Known(Note("share_links", "created_by"))
    BY DEF Known, Note, Key, Columns, Rank, MeansRow, Authors
  <1>16. Known(Link("inventory_mounts", "share_link_id"))
    BY DEF Known, Link, Key, Columns, Rank, MeansRow, Authors
  <1>17. Known(Link("inventory_mounts", "mounter_user_id"))
    BY DEF Known, Link, Key, Columns, Rank, MeansRow, Authors
  <1>18. Known(Link("inventory_mounts", "mounter_org_id"))
    BY DEF Known, Link, Key, Columns, Rank, MeansRow, Authors
  <1>19. Known(Link("user_settings", "user_id"))
    BY DEF Known, Link, Key, Columns, Rank, MeansRow, Authors
  <1>20. Known(Link("sessions", "user_id"))
    BY DEF Known, Link, Key, Columns, Rank, MeansRow, Authors
  <1>21. Known(Link("email_tokens", "user_id"))
    BY DEF Known, Link, Key, Columns, Rank, MeansRow, Authors
  <1> QED
    BY <1>1, <1>2, <1>3, <1>4, <1>5, <1>6, <1>7, <1>8, <1>9, <1>10, <1>11, <1>12, <1>13, <1>14, <1>15, <1>16, <1>17, <1>18, <1>19,
       <1>20, <1>21

\* The same, table by table: the columns that refer to rows are those of Columns.
LEMMA KeysOfTables ==
    /\ \A k \in Keys : k.table \in DOMAIN Columns => Known(k)
    /\ \A t \in DOMAIN Columns : \A c \in Columns[t] :
          \E k \in Keys : k.table = t /\ k.column = c
  <1>1. Keys = UNION {OfKind(User, "key"),
                       OfKind(Organization, "key"),
                       OfKind(AuditLog, "key"),
                       OfKind(AuthSession, "key"),
                       OfKind(EmailToken, "key"),
                       OfKind(Membership, "key"),
                       OfKind(Design, "key"),
                       OfKind(DesignRevision, "key"),
                       OfKind(InventoryPart, "key"),
                       OfKind(ShareLink, "key"),
                       OfKind(InventoryMount, "key"),
                       OfKind(UserSettings, "key")}
    BY DEF Keys, Metadata, OfKind
  <1>3. \A k \in Keys : k.table \in DOMAIN Columns => Known(k)
    BY <1>1, ClassKeys, KeysKnown
  <1>4. \A c \in Columns["memberships"] : \E k \in Keys : k.table = "memberships" /\ k.column = c
    <2>1. /\ Link("memberships", "org_id").table = "memberships"
          /\ Link("memberships", "org_id").column = "org_id"
          /\ Link("memberships", "user_id").table = "memberships"
          /\ Link("memberships", "user_id").column = "user_id"
          /\ Note("memberships", "invited_by").table = "memberships"
          /\ Note("memberships", "invited_by").column = "invited_by"
      BY DEF Link, Note, Key
    <2>2. Columns["memberships"] = {"org_id", "user_id", "invited_by"}
      BY DEF Columns
    <2> QED
      BY <1>1, <2>1, <2>2, ClassKeys
  <1>5. \A c \in Columns["designs"] : \E k \in Keys : k.table = "designs" /\ k.column = c
    <2>1. /\ Link("designs", "owner_user_id").table = "designs"
          /\ Link("designs", "owner_user_id").column = "owner_user_id"
          /\ Link("designs", "owner_org_id").table = "designs"
          /\ Link("designs", "owner_org_id").column = "owner_org_id"
          /\ Note("designs", "created_by").table = "designs"
          /\ Note("designs", "created_by").column = "created_by"
      BY DEF Link, Note, Key
    <2>2. Columns["designs"] = {"owner_user_id", "owner_org_id", "created_by"}
      BY DEF Columns
    <2> QED
      BY <1>1, <2>1, <2>2, ClassKeys
  <1>6. \A c \in Columns["design_revisions"] : \E k \in Keys : k.table = "design_revisions" /\ k.column = c
    <2>1. /\ Link("design_revisions", "design_id").table = "design_revisions"
          /\ Link("design_revisions", "design_id").column = "design_id"
          /\ Note("design_revisions", "saved_by").table = "design_revisions"
          /\ Note("design_revisions", "saved_by").column = "saved_by"
      BY DEF Link, Note, Key
    <2>2. Columns["design_revisions"] = {"design_id", "saved_by"}
      BY DEF Columns
    <2> QED
      BY <1>1, <2>1, <2>2, ClassKeys
  <1>7. \A c \in Columns["inventory_parts"] : \E k \in Keys : k.table = "inventory_parts" /\ k.column = c
    <2>1. /\ Link("inventory_parts", "owner_user_id").table = "inventory_parts"
          /\ Link("inventory_parts", "owner_user_id").column = "owner_user_id"
          /\ Link("inventory_parts", "owner_org_id").table = "inventory_parts"
          /\ Link("inventory_parts", "owner_org_id").column = "owner_org_id"
          /\ Note("inventory_parts", "created_by").table = "inventory_parts"
          /\ Note("inventory_parts", "created_by").column = "created_by"
      BY DEF Link, Note, Key
    <2>2. Columns["inventory_parts"] = {"owner_user_id", "owner_org_id", "created_by"}
      BY DEF Columns
    <2> QED
      BY <1>1, <2>1, <2>2, ClassKeys
  <1>8. \A c \in Columns["share_links"] : \E k \in Keys : k.table = "share_links" /\ k.column = c
    <2>1. /\ Link("share_links", "design_id").table = "share_links"
          /\ Link("share_links", "design_id").column = "design_id"
          /\ Link("share_links", "owner_user_id").table = "share_links"
          /\ Link("share_links", "owner_user_id").column = "owner_user_id"
          /\ Link("share_links", "owner_org_id").table = "share_links"
          /\ Link("share_links", "owner_org_id").column = "owner_org_id"
          /\ Note("share_links", "created_by").table = "share_links"
          /\ Note("share_links", "created_by").column = "created_by"
      BY DEF Link, Note, Key
    <2>2. Columns["share_links"] = {"design_id", "owner_user_id", "owner_org_id", "created_by"}
      BY DEF Columns
    <2> QED
      BY <1>1, <2>1, <2>2, ClassKeys
  <1>9. \A c \in Columns["inventory_mounts"] : \E k \in Keys : k.table = "inventory_mounts" /\ k.column = c
    <2>1. /\ Link("inventory_mounts", "share_link_id").table = "inventory_mounts"
          /\ Link("inventory_mounts", "share_link_id").column = "share_link_id"
          /\ Link("inventory_mounts", "mounter_user_id").table = "inventory_mounts"
          /\ Link("inventory_mounts", "mounter_user_id").column = "mounter_user_id"
          /\ Link("inventory_mounts", "mounter_org_id").table = "inventory_mounts"
          /\ Link("inventory_mounts", "mounter_org_id").column = "mounter_org_id"
      BY DEF Link, Note, Key
    <2>2. Columns["inventory_mounts"] = {"share_link_id", "mounter_user_id", "mounter_org_id"}
      BY DEF Columns
    <2> QED
      BY <1>1, <2>1, <2>2, ClassKeys
  <1>10. \A c \in Columns["user_settings"] : \E k \in Keys : k.table = "user_settings" /\ k.column = c
    <2>1. /\ Link("user_settings", "user_id").table = "user_settings"
          /\ Link("user_settings", "user_id").column = "user_id"
      BY DEF Link, Note, Key
    <2>2. Columns["user_settings"] = {"user_id"}
      BY DEF Columns
    <2> QED
      BY <1>1, <2>1, <2>2, ClassKeys
  <1>11. Columns["users"] = {} /\ Columns["organizations"] = {}
    BY DEF Columns
  <1>12. DOMAIN Columns = {"users", "organizations", "designs", "design_revisions", "memberships",
                          "inventory_parts", "share_links", "inventory_mounts", "user_settings",
                          "sessions", "email_tokens"}
    BY DEF Columns
  <1>13. \A c \in Columns["sessions"] : \E k \in Keys : k.table = "sessions" /\ k.column = c
    <2>1. /\ Link("sessions", "user_id").table = "sessions"
          /\ Link("sessions", "user_id").column = "user_id"
      BY DEF Link, Note, Key
    <2>2. Columns["sessions"] = {"user_id"}
      BY DEF Columns
    <2> QED
      BY <1>1, <2>1, <2>2, ClassKeys
  <1>14. \A c \in Columns["email_tokens"] : \E k \in Keys :
            k.table = "email_tokens" /\ k.column = c
    <2>1. /\ Link("email_tokens", "user_id").table = "email_tokens"
          /\ Link("email_tokens", "user_id").column = "user_id"
      BY DEF Link, Note, Key
    <2>2. Columns["email_tokens"] = {"user_id"}
      BY DEF Columns
    <2> QED
      BY <1>1, <2>1, <2>2, ClassKeys
  <1> QED
    BY <1>3, <1>4, <1>5, <1>6, <1>7, <1>8, <1>9, <1>10, <1>11, <1>12, <1>13, <1>14

--------------------------------------------------------------------------------
(* What a deletion takes along *)

Tabled(rs) == \A r \in rs : r.table \in DOMAIN Columns

LEMMA RanksEnd ==
    \A t \in DOMAIN Columns : t \in DOMAIN Rank /\ Rank[t] \in 0..3
  BY DEF Columns, Rank

LEMMA CascadeKeys ==
    ASSUME NEW k \in Cascades, k.table \in DOMAIN Columns
    PROVE  /\ k.to \in DOMAIN Rank /\ Rank[k.to] \in Nat /\ Rank[k.table] \in Nat
           /\ Rank[k.to] < Rank[k.table] /\ k.column \notin Authors
           /\ k.column \in Columns[k.table] /\ k.to = MeansRow[k.column]
  BY KeysOfTables DEF Cascades, Known

LEMMA CascadedMembers ==
    ASSUME NEW rs, NEW A
    PROVE  /\ A \subseteq Cascaded(rs, A)
           /\ \A r \in rs, k \in Cascades : RefersTo(r, k, A) => NameOf(r) \in Cascaded(rs, A)
           /\ \A x \in Cascaded(rs, A) : x \in A \/ \E r \in rs : x = NameOf(r)
                 /\ \E k \in Cascades : RefersTo(r, k, A)
  BY DEF Cascaded, Names, NameOf

LEMMA RefersUp ==
    ASSUME NEW A, NEW B, A \subseteq B, NEW r, NEW k, RefersTo(r, k, A)
    PROVE  RefersTo(r, k, B)
  BY DEF RefersTo

\* Whatever a further round adds ranks higher than what the round before added.
AddsFrom(A, B, i) == \A x \in B : x \in A \/ (x[1] \in DOMAIN Columns /\ Rank[x[1]] >= i)

LEMMA RoundsGoUp ==
    ASSUME NEW rs, Tabled(rs), NEW A, NEW i \in Nat, AddsFrom(A, Cascaded(rs, A), i)
    PROVE  AddsFrom(Cascaded(rs, A), Cascaded(rs, Cascaded(rs, A)), i + 1)
  <1> DEFINE B == Cascaded(rs, A)
  <1> SUFFICES ASSUME NEW x \in Cascaded(rs, B), x \notin B
               PROVE  x[1] \in DOMAIN Columns /\ Rank[x[1]] >= i + 1
    BY DEF AddsFrom
  <1>1. PICK r \in rs, k \in Cascades : x = NameOf(r) /\ RefersTo(r, k, B)
    BY CascadedMembers
  <1> DEFINE y == <<k.to, r.refs[k.column]>>
  <1>2. r.table = k.table /\ k.table \in DOMAIN Columns /\ y \in B /\ y \notin A
    BY <1>1, CascadedMembers DEF RefersTo, Tabled
  <1>3. y[1] = k.to /\ x[1] = k.table
    BY <1>1, <1>2 DEF NameOf
  <1>4. Rank[k.to] >= i
    BY <1>2, <1>3 DEF AddsFrom
  <1>5. Rank[k.to] < Rank[k.table] /\ Rank[k.to] \in Nat /\ Rank[k.table] \in Nat
    BY <1>2, CascadeKeys
  <1> QED
    BY <1>2, <1>3, <1>4, <1>5

\* Three rounds are enough: what is left refers to nothing that goes.
LEMMA CascadesEnd ==
    ASSUME NEW rs, Tabled(rs), NEW x
    PROVE  LET gone == WithCascades(rs, {x}) IN
           /\ x \in gone
           /\ \A r \in rs, k \in Cascades : RefersTo(r, k, gone) => NameOf(r) \in gone
           /\ \A y \in gone : y = x \/ \E r \in rs : y = NameOf(r)
                 /\ \E k \in Cascades : RefersTo(r, k, gone)
  <1> DEFINE A == Cascaded(rs, {x})
             B == Cascaded(rs, A)
             gone == Cascaded(rs, B)
  <1>1. WithCascades(rs, {x}) = gone
    BY DEF WithCascades
  <1>2. {x} \subseteq A /\ A \subseteq B /\ B \subseteq gone
    BY CascadedMembers
  <1>3. AddsFrom({x}, A, 1)
    <2> SUFFICES ASSUME NEW y \in A, y \notin {x}
                 PROVE  y[1] \in DOMAIN Columns /\ Rank[y[1]] >= 1
      BY DEF AddsFrom
    <2>1. PICK r \in rs, k \in Cascades : y = NameOf(r) /\ RefersTo(r, k, {x})
      BY CascadedMembers
    <2>2. r.table = k.table /\ k.table \in DOMAIN Columns /\ y[1] = k.table
      BY <2>1 DEF RefersTo, Tabled, NameOf
    <2>3. Rank[k.to] < Rank[k.table] /\ Rank[k.to] \in Nat /\ Rank[k.table] \in Nat
      BY <2>2, CascadeKeys
    <2> QED
      BY <2>2, <2>3
  <1>4. AddsFrom(A, B, 2)
    BY <1>3, RoundsGoUp
  <1>5. AddsFrom(B, gone, 3)
    BY <1>4, RoundsGoUp
  <1>6. AddsFrom(gone, Cascaded(rs, gone), 4)
    BY <1>5, RoundsGoUp
  <1>7. ASSUME NEW r \in rs, NEW k \in Cascades, RefersTo(r, k, gone)
        PROVE  NameOf(r) \in gone
    <2>1. NameOf(r) \in Cascaded(rs, gone)
      BY <1>7, CascadedMembers
    <2>2. NameOf(r)[1] = r.table /\ r.table \in DOMAIN Columns
      BY DEF NameOf, Tabled
    <2>3. Rank[r.table] \in 0..3
      BY <2>2, RanksEnd
    <2> QED
      BY <1>6, <2>1, <2>2, <2>3 DEF AddsFrom
  <1>8. ASSUME NEW y \in gone, y # x
        PROVE  \E r \in rs : y = NameOf(r) /\ \E k \in Cascades : RefersTo(r, k, gone)
    <2> HIDE DEF A, B, gone
    <2>1. CASE y \in A
      <3>1. PICK r \in rs, k \in Cascades : y = NameOf(r) /\ RefersTo(r, k, {x})
        BY <1>8, <2>1, CascadedMembers DEF A
      <3> QED
        BY <1>2, <3>1, RefersUp
    <2>2. CASE y \in B \ A
      <3>1. PICK r \in rs, k \in Cascades : y = NameOf(r) /\ RefersTo(r, k, A)
        BY <2>2, CascadedMembers DEF B
      <3> QED
        BY <1>2, <3>1, RefersUp
    <2>3. CASE y \in gone \ B
      <3>1. PICK r \in rs, k \in Cascades : y = NameOf(r) /\ RefersTo(r, k, B)
        BY <2>3, CascadedMembers DEF gone
      <3> QED
        BY <1>2, <3>1, RefersUp
    <2> QED
      BY <2>1, <2>2, <2>3
  <1> HIDE DEF A, B, gone
  <1> QED
    BY <1>1, <1>2, <1>7, <1>8

--------------------------------------------------------------------------------
(* The rows after a step *)

LEMMA OneNameOneRow ==
    ASSUME IsFiniteSet(rows), OneRowPerName
    PROVE  Cardinality(Names(rows)) = Cardinality(rows)
  <1> DEFINE f == [r \in rows |-> NameOf(r)]
  <1>1. Names(rows) = {NameOf(r) : r \in rows}
    BY DEF Names, NameOf
  <1>2. f \in [rows -> Names(rows)] /\ \A x \in Names(rows) : \E r \in rows : f[r] = x
    BY <1>1
  <1>3. \A r, s \in rows : f[r] = f[s] => r = s
    BY DEF OneRowPerName
  <1>4. ExistsBijection(rows, Names(rows))
    <2>1. f \in Bijection(rows, Names(rows))
      BY <1>2, <1>3, Fun_IsBij
    <2> QED
      BY <2>1 DEF ExistsBijection
  <1> QED
    BY <1>4, FS_Bijection

LEMMA ReleasedRow ==
    ASSUME NEW r, Shaped(r), NEW gone
    PROVE  LET s == Released(r, gone) IN
           /\ s.table = r.table /\ s.id = r.id /\ s.data = r.data /\ NameOf(s) = NameOf(r)
           /\ s = Row(s.table, s.id, s.refs, s.data)
           /\ DOMAIN s.refs = DOMAIN r.refs
           /\ \A c \in DOMAIN r.refs :
                 s.refs[c] = IF \E k \in Keys : k.column = c /\ RefersTo(r, k, gone)
                             THEN None ELSE r.refs[c]
  <1> DEFINE refs == [c \in DOMAIN r.refs |->
                        IF \E k \in Keys : k.column = c /\ RefersTo(r, k, gone)
                        THEN None ELSE r.refs[c]]
  <1>1. Released(r, gone) = [r EXCEPT !.refs = refs]
    BY DEF Released
  <1>2. r = Row(r.table, r.id, r.refs, r.data)
    BY DEF Shaped
  <1> HIDE DEF refs
  <1>3. [r EXCEPT !.refs = refs] = Row(r.table, r.id, refs, r.data)
    BY <1>2 DEF Row
  <1>4. LET s == Row(r.table, r.id, refs, r.data) IN
        s.table = r.table /\ s.id = r.id /\ s.data = r.data /\ s.refs = refs
    BY DEF Row
  <1>5. Released(r, gone) = Row(r.table, r.id, refs, r.data)
    BY <1>1, <1>3
  <1>6. /\ DOMAIN refs = DOMAIN r.refs
        /\ \A c \in DOMAIN r.refs :
              refs[c] = IF \E k \in Keys : k.column = c /\ RefersTo(r, k, gone)
                        THEN None ELSE r.refs[c]
    BY DEF refs
  <1> QED
    BY <1>4, <1>5, <1>6 DEF NameOf

LEMMA ShapedTable == \A r : Shaped(r) => r.table \in DOMAIN Columns
  BY DEF Shaped

\* What stays keeps its columns, but for those that name an author.
LEMMA OwnersKept ==
    ASSUME RowsInv, NEW x, NEW r \in rows, NameOf(r) \notin WithCascades(rows, {x}),
           NEW c \in Columns[r.table]
    PROVE  LET gone == WithCascades(rows, {x}) IN
           /\ c \notin Authors => Released(r, gone).refs[c] = r.refs[c]
           /\ <<MeansRow[c], r.refs[c]>> \in gone => Released(r, gone).refs[c] = None
           /\ <<MeansRow[c], r.refs[c]>> \notin gone => Released(r, gone).refs[c] = r.refs[c]
  <1> DEFINE gone == WithCascades(rows, {x})
  <1>1. Shaped(r) /\ r.table \in DOMAIN Columns /\ DOMAIN r.refs = Columns[r.table]
    BY DEF RowsInv, Shaped
  <1>2. Tabled(rows)
    BY ShapedTable DEF RowsInv, Tabled
  <1>3. ASSUME NEW k \in Keys, k.column = c, RefersTo(r, k, gone)
        PROVE  c \in Authors /\ <<MeansRow[c], r.refs[c]>> \in gone
    <2>1. k.table = r.table /\ <<k.to, r.refs[c]>> \in gone
      BY <1>3 DEF RefersTo
    <2>2. Known(k)
      BY <1>1, <2>1, KeysOfTables
    <2>3. k.to = MeansRow[c] /\ (k.onDelete = "CASCADE" <=> c \notin Authors)
      BY <1>3, <2>2 DEF Known
    <2>4. k \notin Cascades
      BY <1>2, <1>3, CascadesEnd
    <2> QED
      BY <2>1, <2>3, <2>4 DEF Cascades
  <1>4. <<MeansRow[c], r.refs[c]>> \in gone
           => \E k \in Keys : k.column = c /\ RefersTo(r, k, gone)
    <2>1. PICK k \in Keys : k.table = r.table /\ k.column = c
      BY <1>1, KeysOfTables
    <2>2. k.to = MeansRow[c]
      BY <1>1, <2>1, KeysOfTables DEF Known
    <2> QED
      BY <2>1, <2>2 DEF RefersTo
  <1> HIDE DEF gone
  <1>5. Released(r, gone).refs[c] = IF \E k \in Keys : k.column = c /\ RefersTo(r, k, gone)
                                    THEN None ELSE r.refs[c]
    BY <1>1, ReleasedRow
  <1> QED
    BY <1>3, <1>4, <1>5 DEF gone

\* A row goes only with a row that it belongs to.
LEMMA GoesWithOwner ==
    ASSUME RowsInv, NEW u, NEW r \in rows,
           NameOf(r) \in WithCascades(rows, {<<"users", u>>}), r.table # "users"
    PROVE  \E c \in Columns[r.table] \ Authors :
              <<MeansRow[c], r.refs[c]>> \in WithCascades(rows, {<<"users", u>>})
  <1> DEFINE x == <<"users", u>>
             gone == WithCascades(rows, {x})
  <1>1. Tabled(rows)
    BY ShapedTable DEF RowsInv, Tabled
  <1>2. NameOf(r) # x
    BY DEF NameOf
  <1>3. PICK s \in rows, k \in Cascades : NameOf(r) = NameOf(s) /\ RefersTo(s, k, gone)
    BY <1>1, <1>2, CascadesEnd
  <1>4. s = r
    BY <1>3 DEF RowsInv, OneRowPerName
  <1>5. r.table = k.table /\ r.table \in DOMAIN Columns /\ <<k.to, r.refs[k.column]>> \in gone
    BY <1>1, <1>3, <1>4 DEF RefersTo, Tabled
  <1> HIDE DEF gone
  <1>6. k.column \in Columns[k.table] /\ k.column \notin Authors /\ k.to = MeansRow[k.column]
    BY <1>5, CascadeKeys
  <1> QED
    BY <1>5, <1>6 DEF gone

\* And it goes with each of them.
LEMMA GoesWithEach ==
    ASSUME RowsInv, NEW x, NEW r \in rows, NEW c \in Columns[r.table] \ Authors,
           <<MeansRow[c], r.refs[c]>> \in WithCascades(rows, {x})
    PROVE  NameOf(r) \in WithCascades(rows, {x})
  <1> DEFINE gone == WithCascades(rows, {x})
  <1>1. Tabled(rows) /\ r.table \in DOMAIN Columns
    BY ShapedTable DEF RowsInv, Tabled
  <1>2. PICK k \in Keys : k.table = r.table /\ k.column = c
    BY <1>1, KeysOfTables
  <1>3. Known(k)
    BY <1>1, <1>2, KeysOfTables
  <1>4. k \in Cascades /\ k.to = MeansRow[c]
    BY <1>2, <1>3 DEF Known, Cascades
  <1>5. RefersTo(r, k, gone)
    BY <1>2, <1>4 DEF RefersTo
  <1> QED
    BY <1>1, <1>4, <1>5, CascadesEnd

LEMMA ColumnsKnown ==
    /\ Columns["users"] = {} /\ Columns["organizations"] = {}
    /\ Columns["designs"] \ Authors = {"owner_user_id", "owner_org_id"}
    /\ Columns["design_revisions"] \ Authors = {"design_id"}
    /\ Columns["memberships"] \ Authors = {"org_id", "user_id"}
    /\ Columns["inventory_parts"] \ Authors = {"owner_user_id", "owner_org_id"}
    /\ Columns["share_links"] \ Authors = {"design_id", "owner_user_id", "owner_org_id"}
    /\ Columns["inventory_mounts"] \ Authors =
          {"share_link_id", "mounter_user_id", "mounter_org_id"}
    /\ Columns["user_settings"] \ Authors = {"user_id"}
    /\ Columns["sessions"] \ Authors = {"user_id"}
    /\ Columns["email_tokens"] \ Authors = {"user_id"}
  BY DEF Columns, Authors

\* What a deletion leaves refers to what it leaves: a key that cascades takes the
\* row along, any other is set to NULL.
LEMMA DeleteKeeps ==
    ASSUME RowsInv, NEW u, rows' = AfterDelete(rows, {<<"users", u>>})
    PROVE  RowsInv'
  <1> DEFINE x == <<"users", u>>
             gone == WithCascades(rows, {x})
             stay == {r \in rows : NameOf(r) \notin gone}
  <1>1. rows' = {Released(r, gone) : r \in stay}
    BY DEF AfterDelete, NameOf
  <1> HIDE DEF gone
  <1>2. ASSUME NEW r \in stay
        PROVE  LET s == Released(r, gone) IN
               /\ s \in rows' /\ NameOf(s) = NameOf(r) /\ Shaped(r) /\ Shaped(s)
               /\ s.table = r.table /\ s.id = r.id /\ s.data = r.data
               /\ \A c \in Columns[r.table] \ Authors : s.refs[c] = r.refs[c]
    <2> DEFINE s == Released(r, gone)
    <2>1. Shaped(r)
      BY DEF RowsInv
    <2>2. /\ s.table = r.table /\ s.id = r.id /\ s.data = r.data /\ NameOf(s) = NameOf(r)
          /\ s = Row(s.table, s.id, s.refs, s.data) /\ DOMAIN s.refs = DOMAIN r.refs
      BY <2>1, ReleasedRow
    <2>3. \A c \in Columns[r.table] \ Authors : s.refs[c] = r.refs[c]
      BY OwnersKept DEF gone
    <2> HIDE DEF s
    <2>4. Shaped(s)
      BY <2>1, <2>2, <2>3, ColumnsKnown DEF Shaped
    <2> QED
      BY <1>1, <2>1, <2>2, <2>3, <2>4 DEF s
  <1>3. IsFiniteSet(rows')
    <2> DEFINE f == [r \in stay |-> Released(r, gone)]
    <2>1. IsFiniteSet(stay)
      BY FS_Subset DEF RowsInv
    <2>2. f \in Surjection(stay, rows')
      BY <1>1, Fun_IsSurj
    <2> QED
      BY <2>1, <2>2, FS_Surjection
  <1>4. ASSUME NEW s \in rows'
        PROVE  Shaped(s) /\ Leads(s, rows')
    <2>1. PICK r \in stay : s = Released(r, gone)
      BY <1>1
    <2>2. Shaped(r) /\ Shaped(s) /\ s.table = r.table
      BY <1>2, <2>1
    <2>3. ASSUME NEW c \in DOMAIN s.refs, s.refs[c] # None
          PROVE  Exists(rows', MeansRow[c], s.refs[c])
      <3>1. c \in Columns[r.table] /\ c \in DOMAIN r.refs
        BY <2>2, <2>3 DEF Shaped
      <3>2. <<MeansRow[c], r.refs[c]>> \notin gone /\ s.refs[c] = r.refs[c]
        BY <2>1, <2>3, <3>1, OwnersKept DEF gone
      <3>3. Exists(rows, MeansRow[c], r.refs[c])
        BY <2>3, <3>1, <3>2 DEF RowsInv, Leads
      <3>4. PICK q \in rows : q.table = MeansRow[c] /\ q.id = r.refs[c]
        BY <3>3 DEF Exists
      <3>5. q \in stay
        BY <3>2, <3>4 DEF NameOf
      <3>6. LET p == Released(q, gone) IN p \in rows' /\ p.table = q.table /\ p.id = q.id
        BY <1>2, <3>5
      <3> QED
        BY <3>2, <3>4, <3>6 DEF Exists
    <2> QED
      BY <2>2, <2>3 DEF Leads
  <1>5. ASSUME NEW p \in RowsOf(rows', "designs")
        PROVE  HasNewest(p.id)'
    <2>1. PICK d \in stay : p = Released(d, gone)
      BY <1>1 DEF RowsOf
    <2>2. d.table = "designs" /\ p.id = d.id
      BY <1>2, <2>1 DEF RowsOf
    <2>3. ASSUME NEW r \in RevisionsOf(d.id)
          PROVE  r \in stay
      <3>1. r \in rows /\ r.table = "design_revisions" /\ r.refs["design_id"] = d.id
        BY DEF RevisionsOf, RowsOf
      <3>2. MeansRow["design_id"] = "designs"
        BY Meanings
      <3>3. <<"designs", r.refs["design_id"]>> \notin gone
        BY <2>2, <3>1 DEF NameOf
      <3>4. NameOf(r) \notin gone
        BY <3>1, <3>2, <3>3, GoesWithOwner, ColumnsKnown DEF gone
      <3> QED
        BY <3>1, <3>4
    <2>4. PICK r \in RevisionsOf(d.id) : \A s \in RevisionsOf(d.id) : s.data <= r.data
      BY <2>2 DEF RowsInv, HasNewest, RowsOf
    <2>5. ASSUME NEW s \in RevisionsOf(d.id)
          PROVE  LET q == Released(s, gone) IN q \in RevisionsOf(d.id)' /\ q.data = s.data
      <3> DEFINE q == Released(s, gone)
      <3>1. s \in stay /\ s.table = "design_revisions" /\ s.refs["design_id"] = d.id
        BY <2>3 DEF RevisionsOf, RowsOf
      <3>2. q \in rows' /\ q.table = s.table /\ q.data = s.data
            /\ \A c \in Columns[s.table] \ Authors : q.refs[c] = s.refs[c]
        BY <1>2, <3>1
      <3> HIDE DEF q
      <3>3. q.refs["design_id"] = d.id
        BY <3>1, <3>2, ColumnsKnown
      <3> QED
        BY <3>1, <3>2, <3>3 DEF RevisionsOf, RowsOf, q
    <2>6. ASSUME NEW q \in RevisionsOf(d.id)'
          PROVE  \E s \in RevisionsOf(d.id) : q.data = s.data
      <3>1. q \in rows' /\ q.table = "design_revisions" /\ q.refs["design_id"] = d.id
        BY DEF RevisionsOf, RowsOf
      <3>2. PICK s \in stay : q = Released(s, gone)
        BY <1>1, <3>1
      <3>3. q.table = s.table /\ q.data = s.data
            /\ \A c \in Columns[s.table] \ Authors : q.refs[c] = s.refs[c]
        BY <1>2, <3>2
      <3>4. s.refs["design_id"] = d.id
        BY <3>1, <3>3, ColumnsKnown
      <3> QED
        BY <3>1, <3>3, <3>4 DEF RevisionsOf, RowsOf
    <2> QED
      BY <2>2, <2>4, <2>5, <2>6 DEF HasNewest
  <1>6. OneRowPerName'
    <2> SUFFICES ASSUME NEW p \in rows', NEW q \in rows', NameOf(p) = NameOf(q)
                 PROVE  p = q
      BY DEF OneRowPerName
    <2>1. PICK r \in stay : p = Released(r, gone)
      BY <1>1
    <2>2. PICK s \in stay : q = Released(s, gone)
      BY <1>1
    <2>3. NameOf(r) = NameOf(s)
      BY <1>2, <2>1, <2>2
    <2> QED
      BY <2>1, <2>2, <2>3 DEF RowsInv, OneRowPerName
  <1> QED
    BY <1>3, <1>4, <1>5, <1>6 DEF RowsInv, RowsOf

LEMMA LeadsOn ==
    ASSUME NEW r, NEW S, NEW T, S \subseteq T, Leads(r, S)
    PROVE  Leads(r, T)
  BY DEF Leads, Exists

LEMMA NewestRevision ==
    ASSUME NEW d, HasNewest(d)
    PROVE  /\ NewestOf(d) \in RevisionsOf(d)
           /\ \A s \in RevisionsOf(d) : NewestOf(d).data >= s.data
  <1>1. PICK r \in RevisionsOf(d) : \A s \in RevisionsOf(d) : s.data <= r.data
    BY DEF HasNewest
  <1>2. \A s \in RevisionsOf(d) : r.data >= s.data
    BY <1>1
  <1> QED
    BY <1>2 DEF NewestOf

\* Whatever has a revision is a design that is there, so one is the newest.
LEMMA RevisionsFound ==
    ASSUME RowsInv, NEW d, RevisionsOf(d) # {}
    PROVE  /\ d # None /\ HasNewest(d) /\ Exists(rows, "designs", d)
           /\ NewestOf(d) \in RevisionsOf(d) /\ NewestOf(d).data \in Nat
  <1>1. PICK r \in rows : r.table = "design_revisions" /\ r.refs["design_id"] = d
    BY DEF RevisionsOf, RowsOf
  <1>2. Shaped(r) /\ Leads(r, rows) /\ d # None /\ "design_id" \in DOMAIN r.refs
    BY <1>1 DEF RowsInv, Shaped, Columns
  <1>3. Exists(rows, "designs", d)
    BY <1>1, <1>2, Meanings DEF Leads
  <1>4. HasNewest(d)
    BY <1>3 DEF RowsInv, RowsOf, Exists
  <1>5. NewestOf(d) \in RevisionsOf(d)
    BY <1>4, NewestRevision
  <1>6. NewestOf(d).data \in Nat
    BY <1>5 DEF RevisionsOf, RowsOf, RowsInv, Shaped
  <1> QED
    BY <1>2, <1>3, <1>4, <1>5, <1>6

LEMMA NewRevision ==
    ASSUME NEW d, NEW n, NEW u
    PROVE  LET new == RevisionRow(d, n, u) IN
           /\ new.table = "design_revisions" /\ new.id = <<d, n>> /\ new.data = n
           /\ DOMAIN new.refs = {"design_id", "saved_by"}
           /\ new.refs["design_id"] = d /\ new.refs["saved_by"] = u
           /\ new = Row(new.table, new.id, new.refs, new.data)
  BY DEF RevisionRow, Row

\* A save adds a revision of a design that is there, by an account that is there,
\* under a name that is free.
LEMMA SaveKeeps ==
    ASSUME RowsInv, NEW d, NEW n \in Nat, NEW u, Exists(rows, "designs", d),
           KeysHold(RevisionRow(d, n, u), rows),
           ~Exists(rows, "design_revisions", <<d, n>>),
           rows' = rows \union {RevisionRow(d, n, u)}
    PROVE  RowsInv'
  <1> DEFINE new == RevisionRow(d, n, u)
  <1>1. /\ new.table = "design_revisions" /\ new.id = <<d, n>> /\ new.data = n
        /\ DOMAIN new.refs = {"design_id", "saved_by"}
        /\ new.refs["design_id"] = d /\ new.refs["saved_by"] = u
        /\ new = Row(new.table, new.id, new.refs, new.data)
    BY NewRevision
  <1>2. KeysHold(new, rows) /\ rows' = rows \union {new}
    OBVIOUS
  <1> HIDE DEF new
  <1>3. d # None /\ HasNewest(d)
    <2>1. HasNewest(d)
      BY DEF Exists, RowsInv, RowsOf
    <2> QED
      BY <2>1, RevisionsFound DEF HasNewest
  <1>4. "design_revisions" \in DOMAIN Columns
        /\ Columns["design_revisions"] = {"design_id", "saved_by"}
    BY DEF Columns
  <1>8. Shaped(new)
    BY <1>1, <1>3, <1>4 DEF Shaped
  <1>9. Leads(new, rows')
    <2> SUFFICES ASSUME NEW c \in {"design_id", "saved_by"}, new.refs[c] # None
                 PROVE  Exists(rows, MeansRow[c], new.refs[c])
      BY <1>1, <1>2, LeadsOn DEF Leads
    <2>1. PICK k \in Keys : k.table = "design_revisions" /\ k.column = c
      BY <1>4, KeysOfTables
    <2>2. k.to = MeansRow[c]
      BY <1>4, <2>1, KeysOfTables DEF Known
    <2> QED
      BY <1>1, <1>2, <2>1, <2>2 DEF KeysHold
  <1>10. \A r \in rows : NameOf(r) # NameOf(new)
    BY <1>1 DEF NameOf, Exists
  <1>11. ASSUME NEW e \in RowsOf(rows', "designs")
         PROVE  HasNewest(e.id)'
    <2>1. e \in rows /\ HasNewest(e.id)
      BY <1>1, <1>2 DEF RowsInv, RowsOf
    <2>2. PICK r \in RevisionsOf(e.id) : \A s \in RevisionsOf(e.id) : s.data <= r.data
      BY <2>1 DEF HasNewest
    <2>3. RevisionsOf(e.id)' = RevisionsOf(e.id) \union (IF e.id = d THEN {new} ELSE {})
      BY <1>1, <1>2 DEF RevisionsOf, RowsOf
    <2>4. \A s \in RevisionsOf(e.id) : s.data \in Nat
      BY DEF RevisionsOf, RowsOf, RowsInv, Shaped
    <2>5. CASE e.id = d /\ r.data <= n
      BY <1>1, <2>2, <2>3, <2>4, <2>5 DEF HasNewest
    <2>6. CASE ~(e.id = d /\ r.data <= n)
      BY <1>1, <2>2, <2>3, <2>4, <2>6 DEF HasNewest
    <2> QED
      BY <2>5, <2>6
  <1>12. IsFiniteSet(rows')
    BY <1>2, FS_AddElement DEF RowsInv
  <1>13. \A r \in rows' : Shaped(r) /\ Leads(r, rows')
    BY <1>2, <1>8, <1>9, LeadsOn DEF RowsInv
  <1>14. OneRowPerName'
    BY <1>2, <1>10 DEF RowsInv, OneRowPerName
  <1> QED
    BY <1>11, <1>12, <1>13, <1>14 DEF RowsInv, RowsOf

\* Settings are written in place of what there was.
LEMMA WriteKeeps ==
    ASSUME RowsInv, NEW u, NEW v, KeysHold(SettingsRow(u, v), rows),
           rows' = (rows \ Settings(u)) \union {SettingsRow(u, v)}
    PROVE  RowsInv'
  <1> DEFINE new == SettingsRow(u, v)
             stay == rows \ Settings(u)
  <1>1. /\ new.table = "user_settings" /\ new.id = u /\ new.data = v
        /\ new.refs = [user_id |-> u]
        /\ new = Row(new.table, new.id, new.refs, new.data)
    BY DEF SettingsRow, Row
  <1>2. DOMAIN new.refs = {"user_id"} /\ new.refs["user_id"] = u
    BY <1>1
  <1>3. KeysHold(new, rows)
    OBVIOUS
  <1>4. rows' = stay \union {new}
    OBVIOUS
  <1>5. stay = {r \in rows : ~(r.table = "user_settings" /\ r.id = u)}
    BY DEF Settings, RowsOf
  <1> HIDE DEF new, stay
  <1>6. "user_settings" \in DOMAIN Columns /\ Columns["user_settings"] = {"user_id"}
    BY DEF Columns
  <1>7. Shaped(new)
    BY <1>1, <1>2, <1>6 DEF Shaped
  <1>8. ASSUME NEW t, NEW id, t # "user_settings", Exists(rows, t, id)
        PROVE  Exists(rows', t, id)
    BY <1>4, <1>5, <1>8 DEF Exists
  <1>9. \A c \in DOMAIN MeansRow : MeansRow[c] # "user_settings"
    BY DEF MeansRow
  <1>10. \A t \in DOMAIN Columns : Columns[t] \subseteq DOMAIN MeansRow
    BY DEF Columns, MeansRow
  <1>11. ASSUME NEW r, Shaped(r), Leads(r, rows)
         PROVE  Leads(r, rows')
    <2> SUFFICES ASSUME NEW c \in DOMAIN r.refs, r.refs[c] # None
                 PROVE  Exists(rows', MeansRow[c], r.refs[c])
      BY DEF Leads
    <2>1. MeansRow[c] # "user_settings"
      BY <1>9, <1>10, <1>11 DEF Shaped
    <2>2. Exists(rows, MeansRow[c], r.refs[c])
      BY <1>11 DEF Leads
    <2> QED
      BY <1>8, <2>1, <2>2
  <1>12. Leads(new, rows)
    <2> SUFFICES ASSUME u # None PROVE Exists(rows, "users", u)
      BY <1>2, Meanings DEF Leads
    <2>1. PICK k \in Keys : k.table = "user_settings" /\ k.column = "user_id"
      BY <1>6, KeysOfTables
    <2>2. k.to = "users"
      BY <1>6, <2>1, KeysOfTables, Meanings DEF Known
    <2> QED
      BY <1>1, <1>2, <1>3, <2>1, <2>2 DEF KeysHold
  <1>13. \A r \in rows' : Shaped(r) /\ Leads(r, rows')
    BY <1>4, <1>5, <1>7, <1>11, <1>12 DEF RowsInv
  <1>14. IsFiniteSet(rows')
    <2>1. IsFiniteSet(stay)
      BY <1>5, FS_Subset DEF RowsInv
    <2> QED
      BY <1>4, <2>1, FS_AddElement
  <1>15. OneRowPerName'
    BY <1>1, <1>4, <1>5 DEF RowsInv, OneRowPerName, NameOf
  <1>16. ASSUME NEW e \in RowsOf(rows', "designs")
         PROVE  HasNewest(e.id)'
    <2>1. e \in RowsOf(rows, "designs")
      BY <1>1, <1>4, <1>5 DEF RowsOf
    <2>2. RevisionsOf(e.id)' = RevisionsOf(e.id)
      BY <1>1, <1>4, <1>5 DEF RevisionsOf, RowsOf
    <2> QED
      BY <2>1, <2>2 DEF RowsInv, HasNewest
  <1> QED
    BY <1>13, <1>14, <1>15, <1>16 DEF RowsInv, RowsOf

--------------------------------------------------------------------------------
(* The rows there are at first *)

\* Where the columns of a first row lead.
FirstTarget(t, id) ==
    \/ t \in {"users", "organizations"} /\ id \in Users
    \/ t = "designs" /\ \E u \in Users : id \in {<<u, "own">>, <<u, "org">>}
    \/ t = "share_links" /\ \E u \in Users : id = <<u, "inventory">>

LeadsToFirst(r) ==
    \A c \in DOMAIN r.refs : r.refs[c] # None => FirstTarget(MeansRow[c], r.refs[c])

\* What the name of a first row says of it.
FirstRow(t, id) ==
    CASE t = "users" -> UserRow(id)
      [] t \in {"sessions", "email_tokens"} -> Row(t, id, [user_id |-> id], None)
      [] t = "organizations" -> Row(t, id, <<>>, None)
      [] t = "designs" -> IF id[2] = "own" THEN DesignRow(id, id[1], None, id[1])
                                           ELSE DesignRow(id, None, id[1], id[1])
      [] t = "design_revisions" -> RevisionRow(id[1], 1, id[1][1])
      [] t = "inventory_parts" -> IF id[2] = "own" THEN PartRow(id, id[1], None, id[1])
                                                   ELSE PartRow(id, None, id[1], id[1])
      [] t = "share_links" ->
            IF id[2] = "inventory" THEN LinkRow(id, None, id[1], id[1])
            ELSE IF id[2] = "design" THEN LinkRow(id, <<id[1], "own">>, None, id[1])
            ELSE LinkRow(id, <<id[1], "org">>, None, id[1])
      [] t = "memberships" ->
            Row(t, id, [org_id |-> id[2], user_id |-> id[1], invited_by |-> id[2]],
                IF id[1] = id[2] THEN "owner" ELSE "viewer")
      [] t = "inventory_mounts" ->
            Row(t, id, [share_link_id |-> <<id[2], "inventory">>, mounter_user_id |-> id[1],
                        mounter_org_id |-> None], None)

First(r) ==
    /\ Shaped(r) /\ LeadsToFirst(r) /\ r = FirstRow(r.table, r.id)
    /\ r.table = "designs" => FirstTarget(r.table, r.id)

\* The rows an account starts with are shaped, and refer to first rows.
LEMMA HoldingsFirst ==
    ASSUME NEW u \in Users, NEW r \in Holdings(u)
    PROVE  First(r)
  <1> DEFINE user == UserRow(u)
             session == Row("sessions", u, [user_id |-> u], None)
             mailed == Row("email_tokens", u, [user_id |-> u], None)
             org == Row("organizations", u, <<>>, None)
             own == DesignRow(<<u, "own">>, u, None, u)
             shared == DesignRow(<<u, "org">>, None, u, u)
             first == RevisionRow(<<u, "own">>, 1, u)
             firstShared == RevisionRow(<<u, "org">>, 1, u)
             ownPart == PartRow(<<u, "own">>, u, None, u)
             sharedPart == PartRow(<<u, "org">>, None, u, u)
             link == LinkRow(<<u, "design">>, <<u, "own">>, None, u)
             sharedLink == LinkRow(<<u, "org">>, <<u, "org">>, None, u)
             inventory == LinkRow(<<u, "inventory">>, None, u, u)
             members == {Row("memberships", <<v, u>>, [org_id |-> u, user_id |-> v, invited_by |-> u],
                   IF v = u THEN "owner" ELSE "viewer") : v \in Users}
             mounts == {Row("inventory_mounts", <<v, u>>,
                   [share_link_id |-> <<u, "inventory">>, mounter_user_id |-> v,
                    mounter_org_id |-> None], None) : v \in Users \ {u}}
  <1>0. r \in {user, session, mailed, org, own, shared, first,
               firstShared, ownPart, sharedPart, link, sharedLink, inventory} \union members \union mounts
    BY DEF Holdings
  <1>1. First(user)
    <2>1. /\ user.table = "users" /\ user.id = u /\ user.data = None
          /\ user.refs = <<>>
          /\ user = Row(user.table, user.id, user.refs, user.data)
      BY RowsAssumption DEF Row, UserRow, DesignRow, RevisionRow, PartRow, LinkRow, MadeFor
    <2>2. DOMAIN user.refs = {}
      BY <2>1
    <2>3. "users" \in DOMAIN Columns /\ Columns["users"] = {}
      BY DEF Columns
    <2>4. user = FirstRow("users", u)
      BY DEF FirstRow
    <2> HIDE DEF user
    <2>5. Shaped(user)
      BY <2>1, <2>2, <2>3, RowsAssumption DEF Shaped
    <2>6. LeadsToFirst(user)
      BY <2>2, Meanings DEF LeadsToFirst, FirstTarget
    <2> QED
      BY <2>1, <2>4, <2>5, <2>6 DEF First, FirstTarget
  <1>2. First(session)
    <2>1. /\ session.table = "sessions" /\ session.id = u /\ session.data = None
          /\ session.refs = [user_id |-> u]
          /\ session = Row(session.table, session.id, session.refs, session.data)
      BY RowsAssumption DEF Row, UserRow, DesignRow, RevisionRow, PartRow, LinkRow, MadeFor
    <2>2. /\ DOMAIN session.refs = {"user_id"}
          /\ session.refs["user_id"] = u
      BY <2>1
    <2>3. "sessions" \in DOMAIN Columns /\ Columns["sessions"] = {"user_id"}
      BY DEF Columns
    <2>4. session = FirstRow("sessions", u)
      BY DEF FirstRow
    <2> HIDE DEF session
    <2>5. Shaped(session)
      BY <2>1, <2>2, <2>3, RowsAssumption DEF Shaped
    <2>6. LeadsToFirst(session)
      BY <2>2, Meanings DEF LeadsToFirst, FirstTarget
    <2> QED
      BY <2>1, <2>4, <2>5, <2>6 DEF First, FirstTarget
  <1>3. First(mailed)
    <2>1. /\ mailed.table = "email_tokens" /\ mailed.id = u /\ mailed.data = None
          /\ mailed.refs = [user_id |-> u]
          /\ mailed = Row(mailed.table, mailed.id, mailed.refs, mailed.data)
      BY RowsAssumption DEF Row, UserRow, DesignRow, RevisionRow, PartRow, LinkRow, MadeFor
    <2>2. /\ DOMAIN mailed.refs = {"user_id"}
          /\ mailed.refs["user_id"] = u
      BY <2>1
    <2>3. "email_tokens" \in DOMAIN Columns /\ Columns["email_tokens"] = {"user_id"}
      BY DEF Columns
    <2>4. mailed = FirstRow("email_tokens", u)
      BY DEF FirstRow
    <2> HIDE DEF mailed
    <2>5. Shaped(mailed)
      BY <2>1, <2>2, <2>3, RowsAssumption DEF Shaped
    <2>6. LeadsToFirst(mailed)
      BY <2>2, Meanings DEF LeadsToFirst, FirstTarget
    <2> QED
      BY <2>1, <2>4, <2>5, <2>6 DEF First, FirstTarget
  <1>4. First(org)
    <2>1. /\ org.table = "organizations" /\ org.id = u /\ org.data = None
          /\ org.refs = <<>>
          /\ org = Row(org.table, org.id, org.refs, org.data)
      BY RowsAssumption DEF Row, UserRow, DesignRow, RevisionRow, PartRow, LinkRow, MadeFor
    <2>2. DOMAIN org.refs = {}
      BY <2>1
    <2>3. "organizations" \in DOMAIN Columns /\ Columns["organizations"] = {}
      BY DEF Columns
    <2>4. org = FirstRow("organizations", u)
      BY DEF FirstRow
    <2> HIDE DEF org
    <2>5. Shaped(org)
      BY <2>1, <2>2, <2>3, RowsAssumption DEF Shaped
    <2>6. LeadsToFirst(org)
      BY <2>2, Meanings DEF LeadsToFirst, FirstTarget
    <2> QED
      BY <2>1, <2>4, <2>5, <2>6 DEF First, FirstTarget
  <1>5. First(own)
    <2>1. /\ own.table = "designs" /\ own.id = <<u, "own">> /\ own.data = None
          /\ own.refs = [owner_user_id |-> u, owner_org_id |-> None, created_by |-> u]
          /\ own = Row(own.table, own.id, own.refs, own.data)
      BY RowsAssumption DEF Row, UserRow, DesignRow, RevisionRow, PartRow, LinkRow, MadeFor
    <2>2. /\ DOMAIN own.refs = {"owner_user_id", "owner_org_id", "created_by"}
          /\ own.refs["owner_user_id"] = u
          /\ own.refs["owner_org_id"] = None
          /\ own.refs["created_by"] = u
      BY <2>1
    <2>3. "designs" \in DOMAIN Columns /\ Columns["designs"] = {"owner_user_id", "owner_org_id", "created_by"}
      BY DEF Columns
    <2>4. own = FirstRow("designs", <<u, "own">>)
      BY DEF FirstRow
    <2> HIDE DEF own
    <2>5. Shaped(own)
      BY <2>1, <2>2, <2>3, RowsAssumption DEF Shaped
    <2>6. LeadsToFirst(own)
      BY <2>2, Meanings DEF LeadsToFirst, FirstTarget
    <2> QED
      BY <2>1, <2>4, <2>5, <2>6 DEF First, FirstTarget
  <1>6. First(shared)
    <2>1. /\ shared.table = "designs" /\ shared.id = <<u, "org">> /\ shared.data = None
          /\ shared.refs = [owner_user_id |-> None, owner_org_id |-> u, created_by |-> u]
          /\ shared = Row(shared.table, shared.id, shared.refs, shared.data)
      BY RowsAssumption DEF Row, UserRow, DesignRow, RevisionRow, PartRow, LinkRow, MadeFor
    <2>2. /\ DOMAIN shared.refs = {"owner_user_id", "owner_org_id", "created_by"}
          /\ shared.refs["owner_user_id"] = None
          /\ shared.refs["owner_org_id"] = u
          /\ shared.refs["created_by"] = u
      BY <2>1
    <2>3. "designs" \in DOMAIN Columns /\ Columns["designs"] = {"owner_user_id", "owner_org_id", "created_by"}
      BY DEF Columns
    <2>4. shared = FirstRow("designs", <<u, "org">>)
      BY DEF FirstRow
    <2> HIDE DEF shared
    <2>5. Shaped(shared)
      BY <2>1, <2>2, <2>3, RowsAssumption DEF Shaped
    <2>6. LeadsToFirst(shared)
      BY <2>2, Meanings DEF LeadsToFirst, FirstTarget
    <2> QED
      BY <2>1, <2>4, <2>5, <2>6 DEF First, FirstTarget
  <1>7. First(first)
    <2>1. /\ first.table = "design_revisions" /\ first.id = <<<<u, "own">>, 1>> /\ first.data = 1
          /\ first.refs = [design_id |-> <<u, "own">>, saved_by |-> u]
          /\ first = Row(first.table, first.id, first.refs, first.data)
      BY RowsAssumption DEF Row, UserRow, DesignRow, RevisionRow, PartRow, LinkRow, MadeFor
    <2>2. /\ DOMAIN first.refs = {"design_id", "saved_by"}
          /\ first.refs["design_id"] = <<u, "own">>
          /\ first.refs["saved_by"] = u
      BY <2>1
    <2>3. "design_revisions" \in DOMAIN Columns /\ Columns["design_revisions"] = {"design_id", "saved_by"}
      BY DEF Columns
    <2>4. first = FirstRow("design_revisions", <<<<u, "own">>, 1>>)
      BY DEF FirstRow
    <2> HIDE DEF first
    <2>5. Shaped(first)
      BY <2>1, <2>2, <2>3, RowsAssumption DEF Shaped
    <2>6. LeadsToFirst(first)
      BY <2>2, Meanings DEF LeadsToFirst, FirstTarget
    <2> QED
      BY <2>1, <2>4, <2>5, <2>6 DEF First, FirstTarget
  <1>8. First(firstShared)
    <2>1. /\ firstShared.table = "design_revisions" /\ firstShared.id = <<<<u, "org">>, 1>> /\ firstShared.data = 1
          /\ firstShared.refs = [design_id |-> <<u, "org">>, saved_by |-> u]
          /\ firstShared = Row(firstShared.table, firstShared.id, firstShared.refs, firstShared.data)
      BY RowsAssumption DEF Row, UserRow, DesignRow, RevisionRow, PartRow, LinkRow, MadeFor
    <2>2. /\ DOMAIN firstShared.refs = {"design_id", "saved_by"}
          /\ firstShared.refs["design_id"] = <<u, "org">>
          /\ firstShared.refs["saved_by"] = u
      BY <2>1
    <2>3. "design_revisions" \in DOMAIN Columns /\ Columns["design_revisions"] = {"design_id", "saved_by"}
      BY DEF Columns
    <2>4. firstShared = FirstRow("design_revisions", <<<<u, "org">>, 1>>)
      BY DEF FirstRow
    <2> HIDE DEF firstShared
    <2>5. Shaped(firstShared)
      BY <2>1, <2>2, <2>3, RowsAssumption DEF Shaped
    <2>6. LeadsToFirst(firstShared)
      BY <2>2, Meanings DEF LeadsToFirst, FirstTarget
    <2> QED
      BY <2>1, <2>4, <2>5, <2>6 DEF First, FirstTarget
  <1>9. First(ownPart)
    <2>1. /\ ownPart.table = "inventory_parts" /\ ownPart.id = <<u, "own">> /\ ownPart.data = None
          /\ ownPart.refs = [owner_user_id |-> u, owner_org_id |-> None, created_by |-> u]
          /\ ownPart = Row(ownPart.table, ownPart.id, ownPart.refs, ownPart.data)
      BY RowsAssumption DEF Row, UserRow, DesignRow, RevisionRow, PartRow, LinkRow, MadeFor
    <2>2. /\ DOMAIN ownPart.refs = {"owner_user_id", "owner_org_id", "created_by"}
          /\ ownPart.refs["owner_user_id"] = u
          /\ ownPart.refs["owner_org_id"] = None
          /\ ownPart.refs["created_by"] = u
      BY <2>1
    <2>3. "inventory_parts" \in DOMAIN Columns /\ Columns["inventory_parts"] = {"owner_user_id", "owner_org_id", "created_by"}
      BY DEF Columns
    <2>4. ownPart = FirstRow("inventory_parts", <<u, "own">>)
      BY DEF FirstRow
    <2> HIDE DEF ownPart
    <2>5. Shaped(ownPart)
      BY <2>1, <2>2, <2>3, RowsAssumption DEF Shaped
    <2>6. LeadsToFirst(ownPart)
      BY <2>2, Meanings DEF LeadsToFirst, FirstTarget
    <2> QED
      BY <2>1, <2>4, <2>5, <2>6 DEF First, FirstTarget
  <1>10. First(sharedPart)
    <2>1. /\ sharedPart.table = "inventory_parts" /\ sharedPart.id = <<u, "org">> /\ sharedPart.data = None
          /\ sharedPart.refs = [owner_user_id |-> None, owner_org_id |-> u, created_by |-> u]
          /\ sharedPart = Row(sharedPart.table, sharedPart.id, sharedPart.refs, sharedPart.data)
      BY RowsAssumption DEF Row, UserRow, DesignRow, RevisionRow, PartRow, LinkRow, MadeFor
    <2>2. /\ DOMAIN sharedPart.refs = {"owner_user_id", "owner_org_id", "created_by"}
          /\ sharedPart.refs["owner_user_id"] = None
          /\ sharedPart.refs["owner_org_id"] = u
          /\ sharedPart.refs["created_by"] = u
      BY <2>1
    <2>3. "inventory_parts" \in DOMAIN Columns /\ Columns["inventory_parts"] = {"owner_user_id", "owner_org_id", "created_by"}
      BY DEF Columns
    <2>4. sharedPart = FirstRow("inventory_parts", <<u, "org">>)
      BY DEF FirstRow
    <2> HIDE DEF sharedPart
    <2>5. Shaped(sharedPart)
      BY <2>1, <2>2, <2>3, RowsAssumption DEF Shaped
    <2>6. LeadsToFirst(sharedPart)
      BY <2>2, Meanings DEF LeadsToFirst, FirstTarget
    <2> QED
      BY <2>1, <2>4, <2>5, <2>6 DEF First, FirstTarget
  <1>11. First(link)
    <2>1. /\ link.table = "share_links" /\ link.id = <<u, "design">> /\ link.data = "design"
          /\ link.refs = [design_id |-> <<u, "own">>, owner_user_id |-> None, owner_org_id |-> None, created_by |-> u]
          /\ link = Row(link.table, link.id, link.refs, link.data)
      BY RowsAssumption DEF Row, UserRow, DesignRow, RevisionRow, PartRow, LinkRow, MadeFor
    <2>2. /\ DOMAIN link.refs = {"design_id", "owner_user_id", "owner_org_id", "created_by"}
          /\ link.refs["design_id"] = <<u, "own">>
          /\ link.refs["owner_user_id"] = None
          /\ link.refs["owner_org_id"] = None
          /\ link.refs["created_by"] = u
      BY <2>1
    <2>3. "share_links" \in DOMAIN Columns /\ Columns["share_links"] = {"design_id", "owner_user_id", "owner_org_id", "created_by"}
      BY DEF Columns
    <2>4. link = FirstRow("share_links", <<u, "design">>)
      BY DEF FirstRow
    <2> HIDE DEF link
    <2>5. Shaped(link)
      BY <2>1, <2>2, <2>3, RowsAssumption DEF Shaped
    <2>6. LeadsToFirst(link)
      BY <2>2, Meanings DEF LeadsToFirst, FirstTarget
    <2> QED
      BY <2>1, <2>4, <2>5, <2>6 DEF First, FirstTarget
  <1>12. First(sharedLink)
    <2>1. /\ sharedLink.table = "share_links" /\ sharedLink.id = <<u, "org">> /\ sharedLink.data = "design"
          /\ sharedLink.refs = [design_id |-> <<u, "org">>, owner_user_id |-> None, owner_org_id |-> None, created_by |-> u]
          /\ sharedLink = Row(sharedLink.table, sharedLink.id, sharedLink.refs, sharedLink.data)
      BY RowsAssumption DEF Row, UserRow, DesignRow, RevisionRow, PartRow, LinkRow, MadeFor
    <2>2. /\ DOMAIN sharedLink.refs = {"design_id", "owner_user_id", "owner_org_id", "created_by"}
          /\ sharedLink.refs["design_id"] = <<u, "org">>
          /\ sharedLink.refs["owner_user_id"] = None
          /\ sharedLink.refs["owner_org_id"] = None
          /\ sharedLink.refs["created_by"] = u
      BY <2>1
    <2>3. "share_links" \in DOMAIN Columns /\ Columns["share_links"] = {"design_id", "owner_user_id", "owner_org_id", "created_by"}
      BY DEF Columns
    <2>4. sharedLink = FirstRow("share_links", <<u, "org">>)
      BY DEF FirstRow
    <2> HIDE DEF sharedLink
    <2>5. Shaped(sharedLink)
      BY <2>1, <2>2, <2>3, RowsAssumption DEF Shaped
    <2>6. LeadsToFirst(sharedLink)
      BY <2>2, Meanings DEF LeadsToFirst, FirstTarget
    <2> QED
      BY <2>1, <2>4, <2>5, <2>6 DEF First, FirstTarget
  <1>13. First(inventory)
    <2>1. /\ inventory.table = "share_links" /\ inventory.id = <<u, "inventory">> /\ inventory.data = "inventory"
          /\ inventory.refs = [design_id |-> None, owner_user_id |-> u, owner_org_id |-> None, created_by |-> u]
          /\ inventory = Row(inventory.table, inventory.id, inventory.refs, inventory.data)
      BY RowsAssumption DEF Row, UserRow, DesignRow, RevisionRow, PartRow, LinkRow, MadeFor
    <2>2. /\ DOMAIN inventory.refs = {"design_id", "owner_user_id", "owner_org_id", "created_by"}
          /\ inventory.refs["design_id"] = None
          /\ inventory.refs["owner_user_id"] = u
          /\ inventory.refs["owner_org_id"] = None
          /\ inventory.refs["created_by"] = u
      BY <2>1
    <2>3. "share_links" \in DOMAIN Columns /\ Columns["share_links"] = {"design_id", "owner_user_id", "owner_org_id", "created_by"}
      BY DEF Columns
    <2>4. inventory = FirstRow("share_links", <<u, "inventory">>)
      BY DEF FirstRow
    <2> HIDE DEF inventory
    <2>5. Shaped(inventory)
      BY <2>1, <2>2, <2>3, RowsAssumption DEF Shaped
    <2>6. LeadsToFirst(inventory)
      BY <2>2, Meanings DEF LeadsToFirst, FirstTarget
    <2> QED
      BY <2>1, <2>4, <2>5, <2>6 DEF First, FirstTarget
  <1>14. ASSUME NEW m \in members
         PROVE  First(m)
    <2>1. PICK v \in Users : m = Row("memberships", <<v, u>>, [org_id |-> u, user_id |-> v, invited_by |-> u],
                                IF v = u THEN "owner" ELSE "viewer")
      OBVIOUS
    <2>2. /\ m.table = "memberships" /\ m.id = <<v, u>> /\ m.data = IF v = u THEN "owner" ELSE "viewer"
          /\ m.refs = [org_id |-> u, user_id |-> v, invited_by |-> u]
          /\ m = Row(m.table, m.id, m.refs, m.data)
      BY <2>1 DEF Row
    <2>3. /\ DOMAIN m.refs = {"org_id", "user_id", "invited_by"}
          /\ m.refs["org_id"] = u
          /\ m.refs["user_id"] = v
          /\ m.refs["invited_by"] = u
      BY <2>2
    <2>4. /\ "memberships" \in DOMAIN Columns
          /\ Columns["memberships"] = {"org_id", "user_id", "invited_by"}
      BY DEF Columns
    <2>8. <<v, u>>[1] = v /\ <<v, u>>[2] = u
      OBVIOUS
    <2>9. \A id : FirstRow("memberships", id) =
                     Row("memberships", id,
                         [org_id |-> id[2], user_id |-> id[1], invited_by |-> id[2]],
                         IF id[1] = id[2] THEN "owner" ELSE "viewer")
      BY DEF FirstRow
    <2>5. m = FirstRow("memberships", <<v, u>>)
      BY <2>1, <2>8, <2>9
    <2>6. Shaped(m)
      BY <2>2, <2>3, <2>4, RowsAssumption DEF Shaped
    <2>7. LeadsToFirst(m)
      BY <2>3, Meanings DEF LeadsToFirst, FirstTarget
    <2> QED
      BY <2>2, <2>5, <2>6, <2>7 DEF First, FirstTarget
  <1>15. ASSUME NEW m \in mounts
         PROVE  First(m)
    <2>1. PICK v \in Users \ {u} : m = Row("inventory_mounts", <<v, u>>,
                                [share_link_id |-> <<u, "inventory">>, mounter_user_id |-> v,
                                 mounter_org_id |-> None], None)
      OBVIOUS
    <2>2. /\ m.table = "inventory_mounts" /\ m.id = <<v, u>> /\ m.data = None
          /\ m.refs = [share_link_id |-> <<u, "inventory">>, mounter_user_id |-> v, mounter_org_id |-> None]
          /\ m = Row(m.table, m.id, m.refs, m.data)
      BY <2>1 DEF Row
    <2>3. /\ DOMAIN m.refs = {"share_link_id", "mounter_user_id", "mounter_org_id"}
          /\ m.refs["share_link_id"] = <<u, "inventory">>
          /\ m.refs["mounter_user_id"] = v
          /\ m.refs["mounter_org_id"] = None
      BY <2>2
    <2>4. /\ "inventory_mounts" \in DOMAIN Columns
          /\ Columns["inventory_mounts"] = {"share_link_id", "mounter_user_id", "mounter_org_id"}
      BY DEF Columns
    <2>8. <<v, u>>[1] = v /\ <<v, u>>[2] = u
      OBVIOUS
    <2>9. \A id : FirstRow("inventory_mounts", id) =
                     Row("inventory_mounts", id,
                         [share_link_id |-> <<id[2], "inventory">>,
                          mounter_user_id |-> id[1], mounter_org_id |-> None], None)
      BY DEF FirstRow
    <2>5. m = FirstRow("inventory_mounts", <<v, u>>)
      BY <2>1, <2>8, <2>9
    <2>6. Shaped(m)
      BY <2>2, <2>3, <2>4, RowsAssumption DEF Shaped
    <2>7. LeadsToFirst(m)
      BY <2>3, Meanings DEF LeadsToFirst, FirstTarget
    <2> QED
      BY <2>2, <2>5, <2>6, <2>7 DEF First, FirstTarget
  <1> HIDE DEF user, session, mailed, org, own, shared, first, firstShared,
           ownPart, sharedPart, link, sharedLink, inventory, members, mounts
  <1> QED
    BY <1>0, <1>1, <1>2, <1>3, <1>4, <1>5, <1>6, <1>7, <1>8,
       <1>9, <1>10, <1>11, <1>12, <1>13, <1>14, <1>15

LEMMA HoldingsFinite ==
    ASSUME NEW u \in Users
    PROVE  IsFiniteSet(Holdings(u))
  <1> DEFINE Mount(v) == Row("inventory_mounts", <<v, u>>,
                 [share_link_id |-> <<u, "inventory">>, mounter_user_id |-> v,
                  mounter_org_id |-> None], None)
             Member(v) == Row("memberships", <<v, u>>, [org_id |-> u, user_id |-> v, invited_by |-> u],
                 IF v = u THEN "owner" ELSE "viewer")
             mounts == {Mount(v) : v \in Users \ {u}}
             members == {Member(v) : v \in Users}
  <1>2. ASSUME NEW a, NEW b, NEW c, NEW d, NEW e
        PROVE  IsFiniteSet({a, b, c, d, e})
    <2>1. IsFiniteSet({a})
      BY FS_Singleton
    <2>2. IsFiniteSet({a} \union {b})
      BY <2>1, FS_AddElement
    <2>3. IsFiniteSet(({a} \union {b}) \union {c})
      BY <2>2, FS_AddElement
    <2>4. IsFiniteSet((({a} \union {b}) \union {c}) \union {d})
      BY <2>3, FS_AddElement
    <2>5. IsFiniteSet(((({a} \union {b}) \union {c}) \union {d}) \union {e})
      BY <2>4, FS_AddElement
    <2>6. ((({a} \union {b}) \union {c}) \union {d}) \union {e} = {a, b, c, d, e}
      OBVIOUS
    <2> QED
      BY <2>5, <2>6
  <1> DEFINE some == {UserRow(u),
                      Row("sessions", u, [user_id |-> u], None),
                      Row("email_tokens", u, [user_id |-> u], None),
                      Row("organizations", u, <<>>, None),
                      DesignRow(<<u, "own">>, u, None, u)}
             others == {DesignRow(<<u, "org">>, None, u, u),
                        RevisionRow(<<u, "own">>, 1, u),
                        RevisionRow(<<u, "org">>, 1, u),
                        PartRow(<<u, "own">>, u, None, u),
                        PartRow(<<u, "org">>, None, u, u)}
             links == {LinkRow(<<u, "design">>, <<u, "own">>, None, u),
                       LinkRow(<<u, "org">>, <<u, "org">>, None, u),
                       LinkRow(<<u, "inventory">>, None, u, u)}
  <1>3. IsFiniteSet(some) /\ IsFiniteSet(others) /\ IsFiniteSet(links)
    <2>1. IsFiniteSet(some) /\ IsFiniteSet(others)
      BY <1>2
    <2>2. \A a, b, c : {a, b, c, c, c} = {a, b, c}
      OBVIOUS
    <2>3. ASSUME NEW a, NEW b, NEW c PROVE IsFiniteSet({a, b, c})
      <3>1. IsFiniteSet({a, b, c, c, c})
        BY <1>2
      <3> QED
        BY <2>2, <3>1
    <2>4. IsFiniteSet(links)
      BY <2>3
    <2> QED
      BY <2>1, <2>4
  <1>4. IsFiniteSet(mounts) /\ IsFiniteSet(members)
    <2> HIDE DEF Mount, Member
    <2> DEFINE f == [v \in Users \ {u} |-> Mount(v)]
               g == [v \in Users |-> Member(v)]
    <2>1. IsFiniteSet(Users \ {u}) /\ IsFiniteSet(Users)
      BY UsersAssumption, FS_Subset
    <2>2. f \in Surjection(Users \ {u}, mounts)
      BY Fun_IsSurj
    <2>3. g \in Surjection(Users, members)
      BY Fun_IsSurj
    <2> HIDE DEF f, g, mounts, members
    <2> QED
      BY <2>1, <2>2, <2>3, FS_Surjection
  <1>5. Holdings(u) = (((some \union others) \union links) \union members) \union mounts
    <2> HIDE DEF Mount, Member
    <2>1. Holdings(u) = ({UserRow(u),
                          Row("sessions", u, [user_id |-> u], None),
                          Row("email_tokens", u, [user_id |-> u], None),
                          Row("organizations", u, <<>>, None),
                          DesignRow(<<u, "own">>, u, None, u),
                          DesignRow(<<u, "org">>, None, u, u),
                          RevisionRow(<<u, "own">>, 1, u),
                          RevisionRow(<<u, "org">>, 1, u),
                          PartRow(<<u, "own">>, u, None, u),
                          PartRow(<<u, "org">>, None, u, u),
                          LinkRow(<<u, "design">>, <<u, "own">>, None, u),
                          LinkRow(<<u, "org">>, <<u, "org">>, None, u),
                          LinkRow(<<u, "inventory">>, None, u, u)}
                             \union members) \union mounts
      BY DEF Holdings, Mount, Member
    <2> HIDE DEF members, mounts
    <2> QED
      BY <2>1
  <1> HIDE DEF some, others, links, mounts, members
  <1> QED
    BY <1>3, <1>4, <1>5, FS_Union

LEMMA InitRows == ASSUME AccountInit PROVE RowsInv
  <1>1. rows = UNION {Holdings(u) : u \in Users}
    BY DEF AccountInit
  <1>4. ASSUME NEW r \in rows PROVE First(r)
    BY <1>1, HoldingsFirst
  <1>5. ASSUME NEW u \in Users
        PROVE  /\ Exists(rows, "users", u) /\ Exists(rows, "organizations", u)
               /\ Exists(rows, "share_links", <<u, "inventory">>)
               /\ \A id \in {<<u, "own">>, <<u, "org">>} :
                     /\ Exists(rows, "designs", id)
                     /\ \E r \in RevisionsOf(id) : r.data = 1
    <2> DEFINE o == Row("organizations", u, <<>>, None)
               l == LinkRow(<<u, "inventory">>, None, u, u)
               own == DesignRow(<<u, "own">>, u, None, u)
               shared == DesignRow(<<u, "org">>, None, u, u)
               first == RevisionRow(<<u, "own">>, 1, u)
               firstShared == RevisionRow(<<u, "org">>, 1, u)
    <2>1. Holdings(u) \subseteq rows
      BY <1>1
    <2>2. /\ UserRow(u) \in rows /\ o \in rows /\ l \in rows /\ own \in rows
          /\ shared \in rows /\ first \in rows /\ firstShared \in rows
      BY <2>1 DEF Holdings
    <2>3. /\ UserRow(u).table = "users" /\ UserRow(u).id = u
          /\ o.table = "organizations" /\ o.id = u
          /\ l.table = "share_links" /\ l.id = <<u, "inventory">>
          /\ own.table = "designs" /\ own.id = <<u, "own">>
          /\ shared.table = "designs" /\ shared.id = <<u, "org">>
          /\ first.table = "design_revisions" /\ first.refs["design_id"] = <<u, "own">>
          /\ first.data = 1
          /\ firstShared.table = "design_revisions"
          /\ firstShared.refs["design_id"] = <<u, "org">> /\ firstShared.data = 1
      BY DEF UserRow, DesignRow, RevisionRow, LinkRow, Row
    <2> HIDE DEF o, l, own, shared, first, firstShared
    <2> QED
      BY <2>2, <2>3 DEF Exists, RevisionsOf, RowsOf
  <1>6. ASSUME NEW t, NEW id, FirstTarget(t, id) PROVE Exists(rows, t, id)
    BY <1>5, <1>6 DEF FirstTarget
  <1>7. \A r \in rows : Shaped(r) /\ Leads(r, rows)
    BY <1>4, <1>6 DEF First, LeadsToFirst, Leads
  <1>8. OneRowPerName
    <2> SUFFICES ASSUME NEW r \in rows, NEW s \in rows, NameOf(r) = NameOf(s)
                 PROVE  r = s
      BY DEF OneRowPerName
    <2>1. r.table = s.table /\ r.id = s.id
      BY DEF NameOf
    <2>2. r = FirstRow(r.table, r.id) /\ s = FirstRow(s.table, s.id)
      BY <1>4 DEF First
    <2> QED
      BY <2>1, <2>2
  <1>9. ASSUME NEW d \in RowsOf(rows, "designs")
        PROVE  HasNewest(d.id)
    <2>1. FirstTarget("designs", d.id)
      BY <1>4 DEF First, RowsOf
    <2>2. PICK u \in Users : d.id \in {<<u, "own">>, <<u, "org">>}
      BY <2>1 DEF FirstTarget
    <2>3. PICK r \in RevisionsOf(d.id) : r.data = 1
      BY <1>5, <2>2
    <2>4. ASSUME NEW s \in RevisionsOf(d.id) PROVE s.data = 1
      <3>1. s.table = "design_revisions" /\ s = FirstRow("design_revisions", s.id)
        BY <1>4 DEF First, RevisionsOf, RowsOf
      <3>2. s = RevisionRow(s.id[1], 1, s.id[1][1])
        BY <3>1 DEF FirstRow
      <3> QED
        BY <3>2 DEF RevisionRow, Row
    <2>5. \A s \in RevisionsOf(d.id) : s.data <= r.data
      BY <2>3, <2>4
    <2> QED
      BY <2>5 DEF HasNewest
  <1>10. IsFiniteSet(rows)
    <2> DEFINE f == [u \in Users |-> Holdings(u)]
               all == {Holdings(u) : u \in Users}
    <2>1. f \in Surjection(Users, all)
      BY Fun_IsSurj
    <2>2. IsFiniteSet(all)
      BY <2>1, FS_Surjection, UsersAssumption
    <2>3. IsFiniteSet(UNION all)
      BY <2>2, HoldingsFinite, FS_UNION
    <2> QED
      BY <1>1, <2>3
  <1> QED
    BY <1>7, <1>8, <1>9, <1>10 DEF RowsInv

--------------------------------------------------------------------------------
(* Consistency *)

LEMMA SameRows ==
    ASSUME RowsInv, UNCHANGED rows
    PROVE  RowsInv'
  BY DEF RowsInv, OneRowPerName, HasNewest, RevisionsOf, RowsOf

LEMMA ServingInit == ASSUME AccountInit PROVE ServingInv
  BY DEF AccountInit, ServingInv, Free

\* A request is one record, and its account one there was.
LEMMA ServingNext ==
    ASSUME RowsInv, ServingInv, [AccountNext]_accountVars
    PROVE  ServingInv'
  <1>1. CASE UNCHANGED serving
    BY <1>1 DEF ServingInv
  <1>2. ASSUME NEW w \in Workers, StartServing(w) PROVE ServingInv'
    <2>4. PICK u \in Users, pc \in {"put", "save", "export", "delete"} :
             \E v \in Sent(u, pc) :
                serving' = [serving EXCEPT ![w] =
                               [Free EXCEPT !.pc = pc, !.user = u, !.value = v]]
      BY <1>2 DEF StartServing
    <2>1. PICK v \in Sent(u, pc) :
             serving' = [serving EXCEPT ![w] =
                            [Free EXCEPT !.pc = pc, !.user = u, !.value = v]]
      BY <2>4
    <2> DEFINE q == [Free EXCEPT !.pc = pc, !.user = u, !.value = v]
    <2>2. DOMAIN q = DOMAIN Free /\ q.user = u /\ q.pc # "commit"
      BY DEF Free
    <2> HIDE DEF q
    <2>3. serving' = [serving EXCEPT ![w] = q]
      BY <2>1 DEF q
    <2> QED
      BY <2>2, <2>3 DEF ServingInv
  <1>3. ASSUME NEW w \in Workers,
               \/ ReadSettings(w) \/ WriteSettings(w) \/ AnswerSettings(w)
               \/ FindDesign(w) \/ FindNewest(w) \/ CommitSave(w) \/ AnswerSave(w)
               \/ ListExport(w) \/ ExportDesign(w) \/ EndExport(w) \/ DeleteAccount(w)
        PROVE  /\ serving[w].pc # "free"
               /\ DOMAIN serving' = DOMAIN serving
               /\ \A v \in Workers \ {w} : serving'[v] = serving[v]
               /\ DOMAIN serving'[w] = DOMAIN serving[w]
               /\ serving'[w].pc # "free" => serving'[w].user = serving[w].user
               /\ serving'[w].pc = "commit" => serving'[w].found \in Nat \union {None}
    <2> USE DEF ServingInv, At, Reply, Step
    <2>1. DOMAIN Free = {"pc", "user", "value", "found", "todo", "exported", "answer"}
          /\ Free.pc = "free"
      BY DEF Free
    <2>2. CASE ReadSettings(w)
      BY <2>1, <2>2 DEF ReadSettings
    <2>3. CASE WriteSettings(w)
      BY <2>1, <2>3 DEF WriteSettings
    <2>4. CASE AnswerSettings(w)
      BY <2>1, <2>4 DEF AnswerSettings
    <2>5. CASE FindDesign(w)
      BY <2>1, <2>5 DEF FindDesign
    <2>6. CASE FindNewest(w)
      <3>1. CASE Reply(w, 500)
        BY <2>1, <2>6, <3>1 DEF FindNewest
      <3>2. CASE ~Reply(w, 500)
        <4>1. RevisionsOf(Served(w).value) # {}
          BY <2>6, <3>2 DEF FindNewest
        <4>2. PICK n \in {None, NewestOf(Served(w).value).data + 1} :
                  serving' = [serving EXCEPT ![w].pc = "commit", ![w].found = n]
          BY <2>6, <4>1 DEF FindNewest
        <4>3. n \in Nat \union {None}
          BY <4>1, RevisionsFound
        <4> QED
          BY <2>1, <2>6, <4>2, <4>3 DEF FindNewest
      <3> QED
        BY <3>1, <3>2
    <2>7. CASE CommitSave(w)
      <3>1. Step(w, "saved") \/ Reply(w, 500)
        BY <2>7 DEF CommitSave
      <3>2. CASE Step(w, "saved")
        BY <2>1, <2>7, <3>2 DEF CommitSave
      <3>3. CASE Reply(w, 500)
        BY <2>1, <2>7, <3>3 DEF CommitSave
      <3> QED
        BY <3>1, <3>2, <3>3
    <2>8. CASE AnswerSave(w)
      BY <2>1, <2>8 DEF AnswerSave
    <2>9. CASE ListExport(w)
      BY <2>1, <2>9 DEF ListExport
    <2>10. CASE ExportDesign(w)
      BY <2>1, <2>10 DEF ExportDesign
    <2>11. CASE EndExport(w)
      BY <2>1, <2>11 DEF EndExport
    <2>12. CASE DeleteAccount(w)
      BY <2>1, <2>12 DEF DeleteAccount
    <2> QED
      BY <1>3, <2>2, <2>3, <2>4, <2>5, <2>6, <2>7, <2>8, <2>9, <2>10, <2>11, <2>12
  <1>4. ASSUME NEW w \in Workers,
               \/ ReadSettings(w) \/ WriteSettings(w) \/ AnswerSettings(w)
               \/ FindDesign(w) \/ FindNewest(w) \/ CommitSave(w) \/ AnswerSave(w)
               \/ ListExport(w) \/ ExportDesign(w) \/ EndExport(w) \/ DeleteAccount(w)
        PROVE  ServingInv'
    BY <1>3, <1>4 DEF ServingInv
  <1> QED
    BY <1>1, <1>2, <1>4 DEF AccountNext, accountVars

\* One step of each kind; requests that only read leave the rows alone.
LEMMA RowsNext ==
    ASSUME RowsInv, ServingInv, [AccountNext]_accountVars
    PROVE  RowsInv'
  <1>1. CASE UNCHANGED accountVars
    BY <1>1, SameRows DEF accountVars
  <1>2. ASSUME NEW w \in Workers, CommitSave(w) PROVE RowsInv'
    <2> DEFINE d == Served(w).value
               n == Served(w).found
               new == RevisionRow(d, n, Served(w).user)
    <2>1. n \in Nat \union {None}
      BY <1>2 DEF CommitSave, ServingInv, At, Served
    <2>2. \/ UNCHANGED rows
          \/ /\ n # None /\ Exists(rows, "designs", d) /\ rows' = rows \union {new}
             /\ KeysHold(new, rows) /\ ~Exists(rows, new.table, new.id)
      BY <1>2 DEF CommitSave
    <2>3. new.table = "design_revisions" /\ new.id = <<d, n>>
      BY NewRevision
    <2> QED
      BY <2>1, <2>2, <2>3, SaveKeeps, SameRows
  <1>3. ASSUME NEW w \in Workers, WriteSettings(w) PROVE RowsInv'
    <2> DEFINE u == Served(w).user
               row == SettingsRow(u, Served(w).value)
    <2>1. \/ KeysHold(row, rows) /\ rows' = (rows \ Settings(u)) \union {row}
          \/ UNCHANGED rows
      BY <1>3 DEF WriteSettings
    <2> QED
      BY <2>1, WriteKeeps, SameRows
  <1>4. ASSUME NEW w \in Workers, DeleteAccount(w) PROVE RowsInv'
    <2>1. \/ rows' = AfterDelete(rows, {<<"users", Served(w).user>>})
          \/ UNCHANGED rows
      BY <1>4 DEF DeleteAccount
    <2> QED
      BY <2>1, DeleteKeeps, SameRows
  <1>5. ASSUME NEW w \in Workers,
               \/ StartServing(w) \/ ReadSettings(w) \/ AnswerSettings(w)
               \/ FindDesign(w) \/ FindNewest(w) \/ AnswerSave(w)
               \/ ListExport(w) \/ ExportDesign(w) \/ EndExport(w)
        PROVE  RowsInv'
    BY <1>5, SameRows DEF StartServing, ReadSettings, AnswerSettings, FindDesign, FindNewest,
                          AnswerSave, ListExport, ExportDesign, EndExport
  <1> QED
    BY <1>1, <1>2, <1>3, <1>4, <1>5 DEF AccountNext

\* However saves, settings, exports and deletions overlap, no key leads nowhere,
\* no design is left without a revision, and no two rows have one name
\* (delete_account, put_settings, update_design).
THEOREM ConsistentHolds == AccountSpec => []Consistent
  <1>1. RowsInv => Consistent
    BY OneNameOneRow DEF RowsInv, Leads, HasNewest, Consistent
  <1> QED
    BY <1>1, InitRows, ServingInit, RowsNext, ServingNext, PTL DEF AccountSpec

--------------------------------------------------------------------------------
(* A deletion takes what is the account's *)

Gone(u) == WithCascades(rows, {<<"users", u>>})

DesignOf(id) == CHOOSE d \in RowsOf(rows, "designs") : d.id = id

OwnsLink(l, u) ==
    IF l.data = "design" THEN DesignOf(l.refs.design_id).refs.owner_user_id = u
    ELSE l.refs.owner_user_id = u

LEMMA MineByTable ==
    ASSUME NEW r, NEW u
    PROVE  Mine(r, u) =
              CASE r.table = "users" -> r.id = u
                [] r.table \in {"designs", "inventory_parts"} -> r.refs.owner_user_id = u
                [] r.table \in {"sessions", "email_tokens", "memberships", "user_settings"} ->
                      r.refs.user_id = u
                [] r.table = "design_revisions" ->
                      DesignOf(r.refs.design_id).refs.owner_user_id = u
                [] r.table = "share_links" -> OwnsLink(r, u)
                [] r.table = "inventory_mounts" ->
                      r.refs.mounter_user_id = u
                          \/ \E l \in RowsOf(rows, "share_links") :
                                l.id = r.refs.share_link_id /\ OwnsLink(l, u)
                [] OTHER -> FALSE
  BY DEF Mine, DesignOf, OwnsLink

\* What goes is the account, or a row that belongs to one that goes.
LEMMA GoneNames ==
    ASSUME RowsInv, NEW u
    PROVE  /\ \A id : <<"users", id>> \in Gone(u) <=> id = u
           /\ \A id : <<"organizations", id>> \notin Gone(u)
           /\ <<"designs", None>> \notin Gone(u)
           /\ \A r \in rows : r.table # "users" =>
                 (NameOf(r) \in Gone(u) <=>
                    \E c \in Columns[r.table] \ Authors :
                       <<MeansRow[c], r.refs[c]>> \in Gone(u))
  <1>1. Tabled(rows)
    BY ShapedTable DEF RowsInv, Tabled
  <1>0. /\ <<"users", u>> \in Gone(u)
        /\ \A r \in rows, k \in Cascades : RefersTo(r, k, Gone(u)) => NameOf(r) \in Gone(u)
        /\ \A y \in Gone(u) : y = <<"users", u>> \/ \E r \in rows : y = NameOf(r)
              /\ \E k \in Cascades : RefersTo(r, k, Gone(u))
    BY <1>1, CascadesEnd DEF Gone
  <1>2. /\ <<"users", u>> \in Gone(u)
        /\ \A y \in Gone(u) : y = <<"users", u>> \/ \E r \in rows : y = NameOf(r)
    BY <1>0
  <1>3. ASSUME NEW r \in rows, r.table # "users"
        PROVE  NameOf(r) \in Gone(u) <=>
                  \E c \in Columns[r.table] \ Authors :
                     <<MeansRow[c], r.refs[c]>> \in Gone(u)
    BY <1>3, GoesWithOwner, GoesWithEach DEF Gone
  <1>4. ASSUME NEW id, <<"users", id>> \in Gone(u) PROVE id = u
    <2> SUFFICES ASSUME id # u PROVE FALSE
      OBVIOUS
    <2>1. \A y \in Gone(u) : y = <<"users", u>> \/ \E r \in rows : y = NameOf(r)
                /\ \E k \in Cascades : RefersTo(r, k, Gone(u))
      BY <1>0
    <2>2. <<"users", id>> # <<"users", u>>
      OBVIOUS
    <2>3. PICK r \in rows, k \in Cascades : <<"users", id>> = NameOf(r) /\ RefersTo(r, k, Gone(u))
      BY <1>4, <2>1, <2>2
    <2>4. r.table = "users" /\ k.table = "users" /\ "users" \in DOMAIN Columns
      BY <1>1, <2>3 DEF NameOf, RefersTo, Tabled
    <2>5. k.column \in Columns["users"]
      BY <2>4, CascadeKeys
    <2> QED
      BY <2>5, ColumnsKnown
  <1>5. ASSUME NEW id, <<"organizations", id>> \in Gone(u) PROVE FALSE
    <2>1. <<"organizations", id>> # <<"users", u>>
      OBVIOUS
    <2>2. PICK r \in rows : <<"organizations", id>> = NameOf(r)
      BY <1>2, <1>5, <2>1
    <2>3. r.table = "organizations"
      BY <2>2 DEF NameOf
    <2> QED
      BY <1>3, <1>5, <2>2, <2>3, ColumnsKnown
  <1>6. ASSUME <<"designs", None>> \in Gone(u) PROVE FALSE
    <2>1. <<"designs", None>> # <<"users", u>>
      OBVIOUS
    <2>2. PICK d \in rows : <<"designs", None>> = NameOf(d)
      BY <1>2, <1>6, <2>1
    <2>3. d.table = "designs" /\ d.id = None
      BY <2>2 DEF NameOf
    <2>4. HasNewest(None)
      BY <2>3 DEF RowsInv, RowsOf
    <2>5. PICK r \in RevisionsOf(None) : TRUE
      BY <2>4 DEF HasNewest
    <2>6. r \in rows /\ r.table = "design_revisions" /\ r.refs["design_id"] = None
      BY DEF RevisionsOf, RowsOf
    <2> QED
      BY <2>6 DEF RowsInv, Shaped
  <1> QED
    BY <1>2, <1>3, <1>4, <1>5, <1>6

\* Table by table.
LEMMA GoneByTable ==
    ASSUME RowsInv, NEW u, NEW r \in rows
    PROVE  /\ r.table \in {"designs", "inventory_parts"} =>
                 (NameOf(r) \in Gone(u) <=> r.refs["owner_user_id"] = u)
           /\ r.table = "memberships" => (NameOf(r) \in Gone(u) <=> r.refs["user_id"] = u)
           /\ r.table \in {"sessions", "email_tokens", "user_settings"} =>
                 (NameOf(r) \in Gone(u) <=> r.refs["user_id"] = u)
           /\ r.table = "design_revisions" =>
                 (NameOf(r) \in Gone(u) <=> <<"designs", r.refs["design_id"]>> \in Gone(u))
           /\ r.table = "share_links" =>
                 (NameOf(r) \in Gone(u) <=>
                    \/ <<"designs", r.refs["design_id"]>> \in Gone(u)
                    \/ r.refs["owner_user_id"] = u)
           /\ r.table = "inventory_mounts" =>
                 (NameOf(r) \in Gone(u) <=>
                    \/ <<"share_links", r.refs["share_link_id"]>> \in Gone(u)
                    \/ r.refs["mounter_user_id"] = u)
  <1> DEFINE Leading(c) == <<MeansRow[c], r.refs[c]>> \in Gone(u)
             columns == Columns[r.table] \ Authors
  <1>1. r.table # "users" => (NameOf(r) \in Gone(u) <=> \E c \in columns : Leading(c))
    BY GoneNames
  <1>2. /\ \A c \in {"user_id", "owner_user_id", "mounter_user_id"} :
              Leading(c) <=> <<"users", r.refs[c]>> \in Gone(u)
        /\ \A c \in {"org_id", "owner_org_id", "mounter_org_id"} :
              Leading(c) <=> <<"organizations", r.refs[c]>> \in Gone(u)
        /\ Leading("design_id") <=> <<"designs", r.refs["design_id"]>> \in Gone(u)
        /\ Leading("share_link_id") <=> <<"share_links", r.refs["share_link_id"]>> \in Gone(u)
    BY Meanings
  <1> HIDE DEF Leading
  <1>3. /\ \A c \in {"user_id", "owner_user_id", "mounter_user_id"} :
              Leading(c) <=> r.refs[c] = u
        /\ \A c \in {"org_id", "owner_org_id", "mounter_org_id"} : ~Leading(c)
    BY <1>2, GoneNames
  <1>4. CASE r.table \in {"designs", "inventory_parts"}
    <2>1. columns = {"owner_user_id", "owner_org_id"} /\ r.table # "users"
      BY <1>4, ColumnsKnown
    <2> HIDE DEF columns
    <2> QED
      BY <1>1, <1>3, <1>4, <2>1
  <1>5. CASE r.table = "memberships"
    <2>1. columns = {"org_id", "user_id"} /\ r.table # "users"
      BY <1>5, ColumnsKnown
    <2> HIDE DEF columns
    <2> QED
      BY <1>1, <1>3, <1>5, <2>1
  <1>6. CASE r.table \in {"sessions", "email_tokens", "user_settings"}
    <2>1. columns = {"user_id"} /\ r.table # "users"
      BY <1>6, ColumnsKnown
    <2> HIDE DEF columns
    <2> QED
      BY <1>1, <1>3, <1>6, <2>1
  <1>7. CASE r.table = "design_revisions"
    <2>1. columns = {"design_id"} /\ r.table # "users"
      BY <1>7, ColumnsKnown
    <2> HIDE DEF columns
    <2> QED
      BY <1>1, <1>2, <1>7, <2>1
  <1>8. CASE r.table = "share_links"
    <2>1. columns = {"design_id", "owner_user_id", "owner_org_id"} /\ r.table # "users"
      BY <1>8, ColumnsKnown
    <2> HIDE DEF columns
    <2> QED
      BY <1>1, <1>2, <1>3, <1>8, <2>1
  <1>9. CASE r.table = "inventory_mounts"
    <2>1. columns = {"share_link_id", "mounter_user_id", "mounter_org_id"} /\ r.table # "users"
      BY <1>9, ColumnsKnown
    <2> HIDE DEF columns
    <2> QED
      BY <1>1, <1>2, <1>3, <1>9, <2>1
  <1> QED
    BY <1>4, <1>5, <1>6, <1>7, <1>8, <1>9

LEMMA DesignFound ==
    ASSUME RowsInv, NEW u, NEW id, Exists(rows, "designs", id)
    PROVE  <<"designs", id>> \in Gone(u) <=> DesignOf(id).refs.owner_user_id = u
  <1>1. PICK d \in rows : d.table = "designs" /\ d.id = id
    BY DEF Exists
  <1>2. PICK e \in rows : e = DesignOf(id) /\ e.table = "designs" /\ e.id = id
    BY <1>1 DEF DesignOf, RowsOf
  <1>3. NameOf(e) = <<"designs", id>>
    BY <1>2 DEF NameOf
  <1>4. NameOf(e) \in Gone(u) <=> e.refs["owner_user_id"] = u
    BY <1>2, GoneByTable
  <1> QED
    BY <1>2, <1>3, <1>4

LEMMA LinkGone ==
    ASSUME RowsInv, NEW u, u # None, NEW l \in rows, l.table = "share_links"
    PROVE  NameOf(l) \in Gone(u) <=> OwnsLink(l, u)
  <1>2. NameOf(l) \in Gone(u) <=>
           <<"designs", l.refs["design_id"]>> \in Gone(u) \/ l.refs["owner_user_id"] = u
    BY GoneByTable
  <1>3. Shaped(l) /\ Leads(l, rows)
    BY DEF RowsInv
  <1>4. CASE l.data = "design"
    <2>1. l.refs["design_id"] # None /\ l.refs["owner_user_id"] = None
      BY <1>3, <1>4 DEF Shaped
    <2>2. "design_id" \in DOMAIN l.refs
      BY <1>3 DEF Shaped, Columns
    <2>3. Exists(rows, "designs", l.refs["design_id"])
      BY <1>3, <2>1, <2>2, Meanings DEF Leads
    <2> QED
      BY <1>2, <1>4, <2>1, <2>3, DesignFound DEF OwnsLink
  <1>5. CASE l.data # "design"
    <2>1. l.refs["design_id"] = None
      BY <1>3, <1>5 DEF Shaped
    <2> QED
      BY <1>2, <1>5, <2>1, GoneNames DEF OwnsLink
  <1> QED
    BY <1>4, <1>5

\* The cascade of an account's row reaches the rows that are the account's.
LEMMA GoneIsMine ==
    ASSUME RowsInv, NEW u, u # None, NEW r \in rows
    PROVE  NameOf(r) \in Gone(u) <=> Mine(r, u)
  <1>1. Shaped(r) /\ Leads(r, rows) /\ r.table \in DOMAIN Columns
    BY DEF RowsInv, Shaped
  <1>3. CASE r.table = "users"
    <2>1. Mine(r, u) <=> r.id = u
      BY <1>3, MineByTable
    <2> QED
      BY <1>3, <2>1, GoneNames DEF NameOf
  <1>4. CASE r.table = "organizations"
    <2>1. ~Mine(r, u)
      BY <1>4, MineByTable
    <2>2. NameOf(r) = <<"organizations", r.id>>
      BY <1>4 DEF NameOf
    <2> QED
      BY <2>1, <2>2, GoneNames
  <1>5. CASE r.table \in {"designs", "inventory_parts"}
    <2>1. Mine(r, u) <=> r.refs["owner_user_id"] = u
      BY <1>5, MineByTable
    <2> QED
      BY <1>5, <2>1, GoneByTable
  <1>6. CASE r.table = "memberships"
    <2>1. Mine(r, u) <=> r.refs["user_id"] = u
      BY <1>6, MineByTable
    <2> QED
      BY <1>6, <2>1, GoneByTable
  <1>7. CASE r.table \in {"sessions", "email_tokens", "user_settings"}
    <2>1. Mine(r, u) <=> r.refs["user_id"] = u
      BY <1>7, MineByTable
    <2> QED
      BY <1>7, <2>1, GoneByTable
  <1>8. CASE r.table = "design_revisions"
    <2>1. Mine(r, u) <=> DesignOf(r.refs["design_id"]).refs.owner_user_id = u
      BY <1>8, MineByTable
    <2>2. r.refs["design_id"] # None /\ "design_id" \in DOMAIN r.refs
      BY <1>1, <1>8 DEF Shaped, Columns
    <2>3. Exists(rows, "designs", r.refs["design_id"])
      BY <1>1, <2>2, Meanings DEF Leads
    <2>4. NameOf(r) \in Gone(u) <=> <<"designs", r.refs["design_id"]>> \in Gone(u)
      BY <1>8, GoneByTable
    <2> QED
      BY <2>1, <2>3, <2>4, DesignFound
  <1>9. CASE r.table = "share_links"
    <2>1. Mine(r, u) <=> OwnsLink(r, u)
      BY <1>9, MineByTable
    <2> QED
      BY <1>9, <2>1, LinkGone
  <1>10. CASE r.table = "inventory_mounts"
    <2>1. Mine(r, u) <=>
             \/ r.refs["mounter_user_id"] = u
             \/ \E l \in RowsOf(rows, "share_links") :
                   l.id = r.refs["share_link_id"] /\ OwnsLink(l, u)
      BY <1>10, MineByTable
    <2>2. r.refs["share_link_id"] # None /\ "share_link_id" \in DOMAIN r.refs
      BY <1>1, <1>10 DEF Shaped, Columns
    <2>3. PICK l \in rows : l.table = "share_links" /\ l.id = r.refs["share_link_id"]
      BY <1>1, <2>2, Meanings DEF Leads, Exists
    <2>4. \A m \in RowsOf(rows, "share_links") : m.id = r.refs["share_link_id"] => m = l
      BY <2>3 DEF RowsOf, RowsInv, OneRowPerName, NameOf
    <2>5. NameOf(l) = <<"share_links", r.refs["share_link_id"]>>
      BY <2>3 DEF NameOf
    <2>9. NameOf(r) \in Gone(u) <=>
             \/ <<"share_links", r.refs["share_link_id"]>> \in Gone(u)
             \/ r.refs["mounter_user_id"] = u
      BY <1>10, GoneByTable
    <2>6. NameOf(r) \in Gone(u) <=>
             NameOf(l) \in Gone(u) \/ r.refs["mounter_user_id"] = u
      BY <2>5, <2>9
    <2>7. NameOf(l) \in Gone(u) <=> OwnsLink(l, u)
      BY <2>3, LinkGone
    <2>8. l \in RowsOf(rows, "share_links")
      BY <2>3 DEF RowsOf
    <2> QED
      BY <2>1, <2>3, <2>4, <2>6, <2>7, <2>8
  <1>11. DOMAIN Columns = {"users", "organizations", "designs", "design_revisions", "memberships",
                           "inventory_parts", "share_links", "inventory_mounts", "user_settings",
                           "sessions", "email_tokens"}
    BY DEF Columns
  <1> QED
    BY <1>1, <1>3, <1>4, <1>5, <1>6, <1>7, <1>8, <1>9, <1>10, <1>11

\* A deletion that has ended took the rows of its account and no other's, whatever
\* was saved, shared or mounted before (delete_account).
THEOREM DeletesItsOwnHolds == AccountSpec => DeletesItsOwn
  <1>1. ASSUME RowsInv, ServingInv, AccountNext, NEW w \in Workers, At(w, "delete"),
               serving'[w].answer = 200, serving'[w].pc = "free"
        PROVE  Names(rows') = Names({r \in rows : ~Mine(r, Served(w).user)})
    <2> DEFINE u == Served(w).user
    <2>1. u \in Users /\ u # None
      BY <1>1, RowsAssumption DEF ServingInv, At, Served
    <2>2. DOMAIN Free = {"pc", "user", "value", "found", "todo", "exported", "answer"}
      BY DEF Free
    <2>3. serving'[w] # serving[w]
      BY <1>1 DEF At
    <2>4. ~At(w, "free") /\ ~At(w, "put") /\ ~At(w, "write") /\ ~At(w, "answer")
          /\ ~At(w, "export") /\ ~At(w, "revisions")
          /\ ~At(w, "save") /\ ~At(w, "newest") /\ ~At(w, "commit") /\ ~At(w, "saved")
      BY <1>1 DEF At
    <2>5. DeleteAccount(w)
      <3>1. DOMAIN serving = Workers
        BY <1>1 DEF ServingInv
      <3>2. ASSUME NEW v \in Workers, v # w,
                   \/ StartServing(v) \/ ReadSettings(v) \/ WriteSettings(v)
                   \/ AnswerSettings(v) \/ FindDesign(v) \/ FindNewest(v) \/ CommitSave(v)
                   \/ AnswerSave(v) \/ ListExport(v) \/ ExportDesign(v) \/ EndExport(v)
                   \/ DeleteAccount(v)
            PROVE  FALSE
        <4> SUFFICES serving'[w] = serving[w]
          BY <2>3
        <4>1. CASE StartServing(v)
          BY <3>1, <3>2, <4>1 DEF StartServing, Step, Reply
        <4>2. CASE ReadSettings(v)
          BY <3>1, <3>2, <4>2 DEF ReadSettings, Step, Reply
        <4>3. CASE WriteSettings(v)
          BY <3>1, <3>2, <4>3 DEF WriteSettings, Step, Reply
        <4>4. CASE AnswerSettings(v)
          BY <3>1, <3>2, <4>4 DEF AnswerSettings, Step, Reply
        <4>5. CASE FindDesign(v)
          BY <3>1, <3>2, <4>5 DEF FindDesign, Step, Reply
        <4>6. CASE FindNewest(v)
          BY <3>1, <3>2, <4>6 DEF FindNewest, Step, Reply
        <4>7. CASE CommitSave(v)
          BY <3>1, <3>2, <4>7 DEF CommitSave, Step, Reply
        <4>8. CASE AnswerSave(v)
          BY <3>1, <3>2, <4>8 DEF AnswerSave, Step, Reply
        <4>9. CASE ListExport(v)
          BY <3>1, <3>2, <4>9 DEF ListExport, Step, Reply
        <4>10. CASE ExportDesign(v)
          BY <3>1, <3>2, <4>10 DEF ExportDesign, Step, Reply
        <4>11. CASE EndExport(v)
          BY <3>1, <3>2, <4>11 DEF EndExport, Step, Reply
        <4>12. CASE DeleteAccount(v)
          BY <3>1, <3>2, <4>12 DEF DeleteAccount, Step, Reply
        <4> QED
          BY <3>2, <4>1, <4>2, <4>3, <4>4, <4>5, <4>6, <4>7, <4>8, <4>9, <4>10, <4>11, <4>12
      <3>4. ~(\/ StartServing(w) \/ ReadSettings(w) \/ WriteSettings(w) \/ AnswerSettings(w)
              \/ FindDesign(w) \/ FindNewest(w) \/ CommitSave(w) \/ AnswerSave(w)
              \/ ListExport(w) \/ ExportDesign(w) \/ EndExport(w))
        BY <2>4 DEF StartServing, ReadSettings, WriteSettings, AnswerSettings, FindDesign,
             FindNewest, CommitSave, AnswerSave, ListExport, ExportDesign, EndExport
      <3> QED
        BY <1>1, <3>2, <3>4 DEF AccountNext
    <2>6. rows' = AfterDelete(rows, {<<"users", u>>})
      <3>1. ASSUME NEW a, a # 200, Reply(w, a) PROVE FALSE
        <4>1. [Free EXCEPT !.answer = a].answer = a
          BY <2>2
        <4>2. serving'[w] = [Free EXCEPT !.answer = a]
          BY <1>1, <3>1 DEF Reply, ServingInv
        <4> QED
          BY <1>1, <3>1, <4>1, <4>2
      <3>2. ~Reply(w, BadRequest) /\ ~Reply(w, 500)
        BY <3>1 DEF BadRequest
      <3> QED
        BY <2>5, <3>2 DEF DeleteAccount
    <2>7. rows' = {Released(r, Gone(u)) : r \in {s \in rows : NameOf(s) \notin Gone(u)}}
      BY <2>6 DEF AfterDelete, Gone, NameOf
    <2>8. {s \in rows : NameOf(s) \notin Gone(u)} = {r \in rows : ~Mine(r, u)}
      BY <1>1, <2>1, GoneIsMine
    <2> DEFINE gone == Gone(u)
               stay == {r \in rows : ~Mine(r, u)}
    <2>9. \A r \in rows : NameOf(Released(r, gone)) = NameOf(r)
      BY <1>1, ReleasedRow DEF RowsInv
    <2>10. \A S : Names(S) = {NameOf(r) : r \in S}
      BY DEF Names, NameOf
    <2>11. rows' = {Released(r, gone) : r \in stay}
      BY <2>7, <2>8
    <2>12. stay \subseteq rows
      OBVIOUS
    <2> HIDE DEF gone, stay, u
    <2>13. {NameOf(r) : r \in rows'} = {NameOf(r) : r \in stay}
      <3>1. ASSUME NEW r \in rows'
            PROVE  \E s \in stay : NameOf(r) = NameOf(s)
        BY <2>9, <2>11, <2>12
      <3>2. ASSUME NEW s \in stay
            PROVE  \E r \in rows' : NameOf(s) = NameOf(r)
        BY <2>9, <2>11, <2>12
      <3> QED
        BY <3>1, <3>2
    <2>14. Names(rows') = Names(stay)
      BY <2>10, <2>13
    <2> QED
      BY <2>14 DEF stay, u
  <1>2. ASSUME RowsInv, ServingInv, [AccountNext]_accountVars
        PROVE  [\A w \in Workers : At(w, "delete") /\ serving'[w].answer = 200
                  /\ serving'[w].pc = "free" =>
                    Names(rows') = Names({r \in rows : ~Mine(r, Served(w).user)})]_accountVars
    BY <1>1, <1>2
  <1> QED
    BY <1>2, InitRows, RowsNext, ServingInit, ServingNext, PTL DEF AccountSpec, DeletesItsOwn

--------------------------------------------------------------------------------
(* One at a time *)

\* A set of at most one element has not two.
LEMMA AtMostOne ==
    ASSUME NEW S, IsFiniteSet(S), Cardinality(S) <= 1, NEW x \in S, NEW y \in S
    PROVE  x = y
  <1> SUFFICES ASSUME x # y PROVE FALSE
    OBVIOUS
  <1>1. IsFiniteSet({x}) /\ Cardinality({x}) = 1
    BY FS_Singleton
  <1>2. Cardinality({x} \union {y}) = Cardinality({x}) + 1
    <2> DEFINE A == {x}
    <2>1. IsFiniteSet(A) /\ y \notin A
      BY <1>1
    <2> HIDE DEF A
    <2>2. Cardinality(A \union {y}) = Cardinality(A) + 1
      BY <2>1, FS_AddElement
    <2> QED
      BY <2>2 DEF A
  <1>3. Cardinality({x} \union {y}) <= Cardinality(S)
    BY FS_Subset
  <1>4. Cardinality(S) \in Nat
    BY FS_CardinalityType
  <1> QED
    BY <1>1, <1>2, <1>3, <1>4

\* As long as one request at a time makes the engine, the one that has come as far
\* as create_engine finds that nobody has been there.
EngineAlone ==
    /\ \A q, r \in Initializing(requests) : q = r
    /\ Cardinality(created) <= 1
    /\ created # {} => engine # None
    /\ \A r \in Requests : In(r, "create") => created = {}

\* With one thread or with more, the steps are those of the pool.
LEMMA NarrowNext == ASSUME Narrow!PoolNext PROVE PoolNext
  <1>1. ASSUME NEW r \in Requests, Narrow!TakeThread(r) PROVE TakeThread(r)
    <2>1. Narrow!Busy(requests) = Busy(requests) /\ Busy(requests) \subseteq Requests
      BY DEF Narrow!Busy, Busy
    <2>2. Cardinality(Busy(requests)) \in Nat
      BY <2>1, PoolAssumption, FS_Subset, FS_CardinalityType
    <2>3. Cardinality(Busy(requests)) < 1
      <3>1. Narrow!Cardinality(Busy(requests)) < 1
        BY <1>1, <2>1 DEF Narrow!TakeThread
      <3>2. Narrow!Cardinality(Busy(requests)) = Cardinality(Busy(requests))
        BY DEF Narrow!Cardinality, Cardinality
      <3> QED
        BY <3>1, <3>2
    <2>4. Cardinality(Busy(requests)) < Threads
      BY <2>2, <2>3, EnginesAssumption
    <2> QED
      BY <1>1, <2>4 DEF Narrow!TakeThread, TakeThread, Narrow!Calls, Calls
  <1>2. ASSUME NEW r \in Requests, Narrow!Works(r) PROVE Works(r)
    <2>1. Narrow!FindFactory(r) => FindFactory(r)
      BY DEF Narrow!FindFactory, FindFactory, Narrow!In, In, Narrow!Go, Go
    <2>2. Narrow!FindEngine(r) => FindEngine(r)
      BY DEF Narrow!FindEngine, FindEngine, Narrow!In, In, Narrow!Go, Go
    <2>3. Narrow!CreateEngine(r) => CreateEngine(r)
      BY DEF Narrow!CreateEngine, CreateEngine, Narrow!In, In, Narrow!Go, Go
    <2>4. Narrow!MakeFactory(r) => MakeFactory(r)
      BY DEF Narrow!MakeFactory, MakeFactory, Narrow!In, In, Narrow!Go, Go
    <2>5. Narrow!WaitsForConnection(r) <=> WaitsForConnection(r)
      BY DEF Narrow!WaitsForConnection, WaitsForConnection
    <2>6. Narrow!CheckOut(r) => CheckOut(r)
      BY <2>5 DEF Narrow!CheckOut, CheckOut, Narrow!HasRoom, HasRoom
    <2>7. Narrow!NoConnection(r) => NoConnection(r)
      BY <2>5 DEF Narrow!NoConnection, NoConnection, Narrow!PoolTimesOut, PoolTimesOut,
                  Narrow!Raise, Raise
    <2>8. Narrow!NotAuthenticated(r) => NotAuthenticated(r)
      BY DEF Narrow!NotAuthenticated, NotAuthenticated, Narrow!In, In, Narrow!Raise, Raise
    <2>9. Narrow!LookUp(r) => LookUp(r)
      BY DEF Narrow!LookUp, LookUp, Narrow!In, In, Narrow!Return, Return, Narrow!Keeps, Keeps,
             Narrow!Commits, Commits, Narrow!GivenBack, GivenBack
    <2>10. Narrow!RunRoute(r) => RunRoute(r)
      BY DEF Narrow!RunRoute, RunRoute, Narrow!In, In, Narrow!Return, Return, Narrow!Raise, Raise,
             Narrow!Keeps, Keeps, Narrow!Commits, Commits, Narrow!GivenBack, GivenBack
    <2>11. Narrow!Refresh(r) => Refresh(r)
      BY DEF Narrow!Refresh, Refresh, Narrow!In, In, Narrow!Return, Return, Narrow!Keeps, Keeps
    <2>12. Narrow!NotConfigured(r) => NotConfigured(r)
      BY DEF Narrow!NotConfigured, NotConfigured, Narrow!In, In, Narrow!Raise, Raise
    <2> QED
      BY <1>2, <2>1, <2>2, <2>3, <2>4, <2>6, <2>7, <2>8, <2>9, <2>10, <2>11, <2>12
      DEF Narrow!Works, Works
  <1>3. ASSUME NEW r \in Requests, Narrow!Begin(r) \/ Narrow!Close(r) PROVE Begin(r) \/ Close(r)
    BY <1>3 DEF Narrow!Begin, Begin, Narrow!Close, Close, Narrow!In, In, Narrow!Idle, Idle,
                Narrow!Closes, Closes, Narrow!GivenBack, GivenBack
  <1>4. ASSUME Narrow!Block \/ Narrow!Unblock PROVE Block \/ Unblock
    BY <1>4 DEF Narrow!Block, Block, Narrow!Unblock, Unblock
  <1> QED
    BY <1>1, <1>2, <1>3, <1>4 DEF Narrow!PoolNext, PoolNext

\* Only get_engine comes to create_engine, and only create_engine creates.
LEMMA OtherSteps ==
    ASSUME PoolInv, NEW r \in Requests,
           \/ Begin(r) \/ TakeThread(r) \/ Close(r) \/ FindFactory(r) \/ MakeFactory(r)
           \/ NotConfigured(r) \/ CheckOut(r) \/ NoConnection(r) \/ NotAuthenticated(r)
           \/ LookUp(r) \/ RunRoute(r) \/ Refresh(r)
    PROVE  /\ UNCHANGED <<engine, created>>
           /\ \A q \in Requests : requests'[q].stage = "create" => requests[q].stage = "create"
  <1>1. requests \in [Requests -> RequestStates]
    BY DEF PoolInv, PoolTypeOK
  <1>2. ASSUME NEW q, requests' = [requests EXCEPT ![r] = q], q.stage # "create"
        PROVE  \A s \in Requests : requests'[s].stage = "create" => requests[s].stage = "create"
    BY <1>1, <1>2
  <1>3. CASE Begin(r)
    BY <1>1, <1>3 DEF Begin, Idle
  <1>4. CASE TakeThread(r)
    BY <1>1, <1>4 DEF TakeThread, RequestStates, Calls
  <1>5. CASE Close(r)
    BY <1>1, <1>5 DEF Close, Idle
  <1>6. CASE FindFactory(r)
    BY <1>1, <1>6 DEF FindFactory, Go, RequestStates
  <1>7. CASE MakeFactory(r)
    BY <1>1, <1>7 DEF MakeFactory, Go, RequestStates
  <1>8. CASE CheckOut(r)
    BY <1>1, <1>8 DEF CheckOut, RequestStates
  <1>9. CASE NoConnection(r)
    BY <1>1, <1>9 DEF NoConnection, Raise, RequestStates
  <1>10. CASE NotAuthenticated(r)
    BY <1>1, <1>10 DEF NotAuthenticated, Raise, RequestStates
  <1>11. CASE LookUp(r)
    BY <1>1, <1>11 DEF LookUp, Return, Keeps, Commits, RequestStates
  <1>12. CASE RunRoute(r)
    BY <1>1, <1>12 DEF RunRoute, Raise, Return, Keeps, Commits, RequestStates
  <1>13. CASE Refresh(r)
    BY <1>1, <1>13 DEF Refresh, Return, Keeps, RequestStates
  <1>14. CASE NotConfigured(r)
    BY <1>1, <1>14 DEF NotConfigured, Raise, RequestStates
  <1> QED
    BY <1>3, <1>4, <1>5, <1>6, <1>7, <1>8, <1>9, <1>10, <1>11, <1>12, <1>13, <1>14

\* Steps of requests of which one at a time makes the engine.
LEMMA EngineAloneNext ==
    ASSUME PoolInv, EngineAlone, PoolNext, Cardinality(Initializing(requests')) <= 1
    PROVE  EngineAlone'
  <1>1. requests \in [Requests -> RequestStates]
    BY DEF PoolInv, PoolTypeOK
  <1>2. \A q, r \in Initializing(requests') : q = r
    <2>1. IsFiniteSet(Initializing(requests'))
      BY PoolAssumption, FS_Subset DEF Initializing
    <2> QED
      BY <2>1, AtMostOne
  <1>3. ASSUME UNCHANGED <<engine, created>>,
               \A q \in Requests : requests'[q].stage = "create" => requests[q].stage = "create"
        PROVE  EngineAlone'
    BY <1>2, <1>3 DEF EngineAlone, In
  <1>4. CASE Block \/ Unblock
    BY <1>3, <1>4 DEF Block, Unblock
  <1>5. ASSUME NEW r \in Requests, FindEngine(r) PROVE EngineAlone'
    <2>1. CASE engine = None
      BY <1>2, <1>5, <2>1 DEF FindEngine, EngineAlone
    <2>2. CASE engine # None
      <3>1. \A q \in Requests : requests'[q].stage = "create" => requests[q].stage = "create"
        BY <1>1, <1>5, <2>2 DEF FindEngine, RequestStates
      <3> QED
        BY <1>3, <1>5, <3>1 DEF FindEngine
    <2> QED
      BY <2>1, <2>2
  <1>6. ASSUME NEW r \in Requests, CreateEngine(r) PROVE EngineAlone'
    <2>1. PICK e \in Engines : engine' = e /\ created' = created \union {e}
      BY <1>6 DEF CreateEngine
    <2>2. created' = {e} /\ engine' # None
      BY <1>6, <2>1, EnginesAssumption DEF CreateEngine, EngineAlone
    <2>3. Cardinality(created') <= 1
      BY <2>2, FS_Singleton
    <2>4. \A q \in Requests : requests'[q].stage # "create"
      BY <1>1, <1>6 DEF CreateEngine, Go, EngineAlone, Initializing, Making, In, RequestStates
    <2> QED
      BY <1>2, <2>2, <2>3, <2>4 DEF EngineAlone, In
  <1> QED
    BY <1>3, <1>4, <1>5, <1>6, OtherSteps DEF PoolNext, Works

--------------------------------------------------------------------------------
(* Statements one at a time *)

\* What kind of object each declaration makes, and of which table.
LEMMA Kinds ==
    /\ \A t : Table(t).kind = "table" /\ Table(t).table = t
    /\ \A t, c, n, a : Key(t, c, n, a).kind = "key" /\ Key(t, c, n, a).table = t
    /\ \A k, t, cs, w : Index(k, t, cs, w).kind = k /\ Index(k, t, cs, w).table = t
                        /\ Index(k, t, cs, w).columns = cs /\ Index(k, t, cs, w).where = w
    /\ \A t, cs : Unique(t, cs).kind = "unique" /\ Unique(t, cs).table = t
                  /\ Unique(t, cs).columns = cs
    /\ \A t, c : NotNull(t, c).kind = "not_null" /\ NotNull(t, c).table = t
                 /\ NotNull(t, c).column = c
    /\ \A t, a, b : ExactlyOne(t, a, b).kind = "exactly_one" /\ ExactlyOne(t, a, b).table = t
                    /\ ExactlyOne(t, a, b).columns = {a, b}
    /\ \A t, c, vs : OneOf(t, c, vs).kind = "one_of" /\ OneOf(t, c, vs).table = t
    /\ \A t : Target(t).kind = "target" /\ Target(t).table = t
  BY DEF Table, Key, Index, Unique, NotNull, ExactlyOne, OneOf, Target

\* Where upgrade makes a table, and where downgrade drops it.
Made ==
    [audit_log |-> 1, organizations |-> 2, users |-> 3, designs |-> 5, email_tokens |-> 8,
     inventory_parts |-> 10, memberships |-> 13, sessions |-> 15, user_settings |-> 17,
     design_revisions |-> 18, share_links |-> 19, inventory_mounts |-> 20]

Unmade ==
    [inventory_mounts |-> 1, share_links |-> 2, design_revisions |-> 3, user_settings |-> 4,
     sessions |-> 6, memberships |-> 8, inventory_parts |-> 11, email_tokens |-> 13,
     designs |-> 16, users |-> 18, organizations |-> 19, audit_log |-> 20]

\* An index of a statement of its own comes after its table.
Later(o) ==
    CASE o.kind = "index" /\ o.table = "designs" ->
            IF o.columns = {"owner_org_id"} THEN 1 ELSE 2
      [] o.kind = "index" /\ o.table # "designs" -> 1
      [] o.kind = "unique" /\ o.table \in {"users", "memberships"} -> 1
      [] o.kind = "unique" /\ o.table = "inventory_parts" -> IF o.where = OrgParts THEN 1 ELSE 2
      [] OTHER -> 0

Place(o) == Made[o.table] + Later(o)

\* Statements followed by statements.
LEMMA Concatenated ==
    ASSUME NEW s \in Seq(CreateStatements), NEW t \in Seq(CreateStatements)
    PROVE  /\ s \o t \in Seq(CreateStatements) /\ Len(s \o t) = Len(s) + Len(t)
           /\ \A i \in 1..Len(s) : (s \o t)[i] = s[i]
           /\ \A i \in 1..Len(t) : (s \o t)[Len(s) + i] = t[i]
  OBVIOUS

\* The twenty statements of upgrade(), one by one.
LEMMA UpgradeInOrder ==
    /\ Len(Upgrade) = 20
    /\ Upgrade[1] = CreateAuditLog
    /\ Upgrade[2] = CreateOrganizations
    /\ Upgrade[3] = CreateUsers
    /\ Upgrade[4] = IndexUsers
    /\ Upgrade[5] = CreateDesigns
    /\ Upgrade[6] = CreateIndex("index", "designs", {"owner_org_id"}, "")
    /\ Upgrade[7] = CreateIndex("index", "designs", {"owner_user_id"}, "")
    /\ Upgrade[8] = CreateEmailTokens
    /\ Upgrade[9] = IndexEmailTokens
    /\ Upgrade[10] = CreateInventoryParts
    /\ Upgrade[11] =
           CreateIndex("unique", "inventory_parts", {"owner_org_id", "part_type", "name"}, OrgParts)
    /\ Upgrade[12] =
           CreateIndex("unique", "inventory_parts", {"owner_user_id", "part_type", "name"},
               UserParts)
    /\ Upgrade[13] = CreateMemberships
    /\ Upgrade[14] = IndexMemberships
    /\ Upgrade[15] = CreateSessions
    /\ Upgrade[16] = IndexSessions
    /\ Upgrade[17] = CreateUserSettings
    /\ Upgrade[18] = CreateDesignRevisions
    /\ Upgrade[19] = CreateShareLinks
    /\ Upgrade[20] = CreateInventoryMounts
  <1> DEFINE s1 == <<CreateAuditLog, CreateOrganizations, CreateUsers, IndexUsers, CreateDesigns>>
             s2 == <<CreateEmailTokens, IndexEmailTokens, CreateInventoryParts>>
             s3 == <<CreateMemberships, IndexMemberships, CreateSessions, IndexSessions,
                     CreateUserSettings, CreateDesignRevisions, CreateShareLinks,
                     CreateInventoryMounts>>
             u1 == s1 \o IndexDesigns
             u2 == u1 \o s2
             u3 == u2 \o IndexInventoryParts
  <1>1. s1 \in Seq(CreateStatements) /\ Len(s1) = 5
    BY StatementsTyped
  <1>2. s2 \in Seq(CreateStatements) /\ Len(s2) = 3
    BY StatementsTyped
  <1>3. s3 \in Seq(CreateStatements) /\ Len(s3) = 8
    BY StatementsTyped
  <1>4. /\ IndexDesigns \in Seq(CreateStatements) /\ Len(IndexDesigns) = 2
        /\ IndexInventoryParts \in Seq(CreateStatements) /\ Len(IndexInventoryParts) = 2
    BY IndexesTyped DEF IndexDesigns, IndexInventoryParts
  <1>5. /\ s1[1] = CreateAuditLog /\ s1[2] = CreateOrganizations /\ s1[3] = CreateUsers
        /\ s1[4] = IndexUsers /\ s1[5] = CreateDesigns
        /\ s2[1] = CreateEmailTokens /\ s2[2] = IndexEmailTokens /\ s2[3] = CreateInventoryParts
    OBVIOUS
  <1>6. /\ s3[1] = CreateMemberships /\ s3[2] = IndexMemberships /\ s3[3] = CreateSessions
        /\ s3[4] = IndexSessions /\ s3[5] = CreateUserSettings
        /\ s3[6] = CreateDesignRevisions /\ s3[7] = CreateShareLinks
        /\ s3[8] = CreateInventoryMounts
    OBVIOUS
  <1>7. /\ IndexDesigns[1] = CreateIndex("index", "designs", {"owner_org_id"}, "")
        /\ IndexDesigns[2] = CreateIndex("index", "designs", {"owner_user_id"}, "")
        /\ IndexInventoryParts[1] =
              CreateIndex("unique", "inventory_parts", {"owner_org_id", "part_type", "name"},
                  OrgParts)
        /\ IndexInventoryParts[2] =
              CreateIndex("unique", "inventory_parts", {"owner_user_id", "part_type", "name"},
                  UserParts)
    BY DEF IndexDesigns, IndexInventoryParts
  <1>8. Upgrade = u3 \o s3
    BY DEF Upgrade
  <1> HIDE DEF s1, s2, s3
  <1>9. /\ u1 \in Seq(CreateStatements) /\ Len(u1) = 7
        /\ \A i \in 1..5 : u1[i] = s1[i]
        /\ u1[6] = IndexDesigns[1] /\ u1[7] = IndexDesigns[2]
    <2>1. /\ u1 \in Seq(CreateStatements) /\ Len(u1) = 5 + 2
          /\ \A i \in 1..5 : u1[i] = s1[i]
          /\ \A i \in 1..2 : u1[5 + i] = IndexDesigns[i]
      <3>1. /\ s1 \o IndexDesigns \in Seq(CreateStatements) /\ Len(s1 \o IndexDesigns) =
                   Len(s1) + Len(IndexDesigns)
            /\ \A i \in 1..Len(s1) : (s1 \o IndexDesigns)[i] = s1[i]
            /\ \A i \in 1..Len(IndexDesigns) : (s1 \o IndexDesigns)[Len(s1) + i] = IndexDesigns[i]
        BY <1>1, <1>4, Concatenated
      <3> QED
        BY <1>1, <1>4, <3>1
    <2>2. u1[5 + 1] = IndexDesigns[1] /\ u1[5 + 2] = IndexDesigns[2]
      BY <2>1
    <2> QED
      BY <2>1, <2>2
  <1> HIDE DEF u1
  <1>10. /\ u2 \in Seq(CreateStatements) /\ Len(u2) = 10
         /\ \A i \in 1..7 : u2[i] = u1[i]
         /\ u2[8] = s2[1] /\ u2[9] = s2[2] /\ u2[10] = s2[3]
    <2>1. /\ u2 \in Seq(CreateStatements) /\ Len(u2) = 7 + 3
          /\ \A i \in 1..7 : u2[i] = u1[i]
          /\ \A i \in 1..3 : u2[7 + i] = s2[i]
      <3>1. /\ u1 \o s2 \in Seq(CreateStatements) /\ Len(u1 \o s2) = Len(u1) + Len(s2)
            /\ \A i \in 1..Len(u1) : (u1 \o s2)[i] = u1[i]
            /\ \A i \in 1..Len(s2) : (u1 \o s2)[Len(u1) + i] = s2[i]
        BY <1>2, <1>9, Concatenated
      <3> QED
        BY <1>2, <1>9, <3>1
    <2>2. 1..3 = {1, 2, 3}
      OBVIOUS
    <2>3. u2[8] = s2[1]
      <3>1. 1 \in 1..3 /\ 7 + 1 = 8
        OBVIOUS
      <3> QED
        BY <2>1, <3>1
    <2>4. u2[9] = s2[2]
      <3>1. 2 \in 1..3 /\ 7 + 2 = 9
        OBVIOUS
      <3> QED
        BY <2>1, <3>1
    <2>5. u2[10] = s2[3]
      <3>1. 3 \in 1..3 /\ 7 + 3 = 10
        OBVIOUS
      <3> QED
        BY <2>1, <3>1
    <2> HIDE DEF u2
    <2> QED
      BY <2>1, <2>3, <2>4, <2>5
  <1> HIDE DEF u2
  <1>11. /\ u3 \in Seq(CreateStatements) /\ Len(u3) = 12
         /\ \A i \in 1..10 : u3[i] = u2[i]
         /\ u3[11] = IndexInventoryParts[1] /\ u3[12] = IndexInventoryParts[2]
    <2>1. /\ u3 \in Seq(CreateStatements) /\ Len(u3) = 10 + 2
          /\ \A i \in 1..10 : u3[i] = u2[i]
          /\ \A i \in 1..2 : u3[10 + i] = IndexInventoryParts[i]
      <3>1. /\ u2 \o IndexInventoryParts \in Seq(CreateStatements)
            /\ Len(u2 \o IndexInventoryParts) = Len(u2) + Len(IndexInventoryParts)
            /\ \A i \in 1..Len(u2) : (u2 \o IndexInventoryParts)[i] = u2[i]
            /\ \A i \in 1..Len(IndexInventoryParts) :
                  (u2 \o IndexInventoryParts)[Len(u2) + i] = IndexInventoryParts[i]
        BY <1>4, <1>10, Concatenated
      <3> QED
        BY <1>4, <1>10, <3>1
    <2>2. 1..2 = {1, 2}
      OBVIOUS
    <2>3. u3[11] = IndexInventoryParts[1]
      <3>1. 1 \in 1..2 /\ 10 + 1 = 11
        OBVIOUS
      <3> QED
        BY <2>1, <3>1
    <2>4. u3[12] = IndexInventoryParts[2]
      <3>1. 2 \in 1..2 /\ 10 + 2 = 12
        OBVIOUS
      <3> QED
        BY <2>1, <3>1
    <2> HIDE DEF u3
    <2> QED
      BY <2>1, <2>3, <2>4
  <1> HIDE DEF u3
  <1>12. /\ Len(Upgrade) = 20
         /\ \A i \in 1..12 : Upgrade[i] = u3[i]
         /\ \A i \in 1..8 : Upgrade[12 + i] = s3[i]
    <2>1. /\ Upgrade \in Seq(CreateStatements) /\ Len(Upgrade) = 12 + 8
          /\ \A i \in 1..12 : Upgrade[i] = u3[i]
          /\ \A i \in 1..8 : Upgrade[12 + i] = s3[i]
      <3>1. /\ u3 \o s3 \in Seq(CreateStatements) /\ Len(u3 \o s3) = Len(u3) + Len(s3)
            /\ \A i \in 1..Len(u3) : (u3 \o s3)[i] = u3[i]
            /\ \A i \in 1..Len(s3) : (u3 \o s3)[Len(u3) + i] = s3[i]
        BY <1>3, <1>11, Concatenated
      <3> QED
        BY <1>3, <1>11, <3>1, <1>8
    <2> QED
      BY <2>1
  <1>13. /\ \A i \in 1..5 : Upgrade[i] = s1[i]
         /\ Upgrade[6] = IndexDesigns[1] /\ Upgrade[7] = IndexDesigns[2]
         /\ Upgrade[8] = s2[1] /\ Upgrade[9] = s2[2] /\ Upgrade[10] = s2[3]
         /\ Upgrade[11] = IndexInventoryParts[1] /\ Upgrade[12] = IndexInventoryParts[2]
    BY <1>9, <1>10, <1>11, <1>12
  <1>14. /\ Upgrade[13] = s3[1] /\ Upgrade[14] = s3[2] /\ Upgrade[15] = s3[3]
         /\ Upgrade[16] = s3[4] /\ Upgrade[17] = s3[5] /\ Upgrade[18] = s3[6]
         /\ Upgrade[19] = s3[7] /\ Upgrade[20] = s3[8]
    BY <1>12
  <1>15. /\ Upgrade[1] = s1[1] /\ Upgrade[2] = s1[2] /\ Upgrade[3] = s1[3]
         /\ Upgrade[4] = s1[4] /\ Upgrade[5] = s1[5]
    BY <1>13
  <1> QED
    BY <1>5, <1>6, <1>7, <1>12, <1>13, <1>14, <1>15, Zenon

\* What goes with a table is made with it.
LEMMA WithTable ==
    ASSUME NEW t \in DOMAIN Made
    PROVE  /\ Made[t] \in Nat /\ Place(Table(t)) = Made[t]
           /\ \A c, n, a : Place(Key(t, c, n, a)) = Made[t]
           /\ \A c : Place(NotNull(t, c)) = Made[t]
           /\ \A a, b : Place(ExactlyOne(t, a, b)) = Made[t]
           /\ \A c, vs : Place(OneOf(t, c, vs)) = Made[t]
           /\ Place(Target(t)) = Made[t]
           /\ t \notin {"users", "memberships", "inventory_parts"} =>
                 \A cs : Place(Unique(t, cs)) = Made[t]
  <1>1. Made[t] \in Nat
    BY DEF Made
  <1>2. ASSUME NEW o, o.table = t, o.kind \notin {"index", "unique"} PROVE Place(o) = Made[t]
    BY <1>1, <1>2 DEF Place, Later
  <1>3. ASSUME NEW o, o.table = t, o.kind = "unique",
               t \notin {"users", "memberships", "inventory_parts"}
        PROVE  Place(o) = Made[t]
    BY <1>1, <1>3 DEF Place, Later
  <1>4. /\ Place(Table(t)) = Made[t] /\ Place(Target(t)) = Made[t]
        /\ \A c : Place(NotNull(t, c)) = Made[t]
    BY <1>2, Kinds
  <1>5. ASSUME NEW c, NEW n, NEW a PROVE Place(Key(t, c, n, a)) = Made[t]
    <2>1. Key(t, c, n, a).table = t /\ Key(t, c, n, a).kind = "key"
      BY Kinds
    <2> QED
      BY <1>2, <2>1
  <1>6. ASSUME NEW a, NEW b
        PROVE  Place(ExactlyOne(t, a, b)) = Made[t] /\ Place(OneOf(t, a, b)) = Made[t]
    BY <1>2, Kinds
  <1>7. ASSUME NEW cs, t \notin {"users", "memberships", "inventory_parts"}
        PROVE  Place(Unique(t, cs)) = Made[t]
    BY <1>3, <1>7, Kinds
  <1> QED
    BY <1>1, <1>4, <1>5, <1>6, <1>7

\* Indexes follow their table.
LEMMA PlaceOfIndex ==
    /\ \A w : /\ Place(Index("unique", "users", {"lower(email)"}, w)) = 4
             /\ Place(Index("index", "designs", {"owner_org_id"}, w)) = 6
             /\ Place(Index("index", "designs", {"owner_user_id"}, w)) = 7
             /\ Place(Index("index", "email_tokens", {"user_id"}, w)) = 9
             /\ Place(Index("unique", "memberships", {"org_id", "user_id"}, w)) = 14
             /\ Place(Index("index", "sessions", {"user_id"}, w)) = 16
    /\ \A cs : /\ Place(Index("unique", "inventory_parts", cs, OrgParts)) = 11
              /\ Place(Index("unique", "inventory_parts", cs, UserParts)) = 12
  <1>1. {"owner_org_id"} # {"owner_user_id"} /\ OrgParts # UserParts
    BY DEF OrgParts, UserParts
  <1>2. ASSUME NEW o, o.kind = "unique", o.table \in {"users", "memberships"}
        PROVE  Place(o) = Made[o.table] + 1
    BY <1>2 DEF Place, Later
  <1>3. ASSUME NEW o, o.kind = "index", o.table \in {"email_tokens", "sessions"}
        PROVE  Place(o) = Made[o.table] + 1
    BY <1>3 DEF Place, Later
  <1>4. ASSUME NEW o, o.kind = "index", o.table = "designs"
        PROVE  /\ o.columns = {"owner_org_id"} => Place(o) = 6
               /\ o.columns = {"owner_user_id"} => Place(o) = 7
    BY <1>1, <1>4 DEF Place, Later, Made
  <1>5. ASSUME NEW o, o.kind = "unique", o.table = "inventory_parts"
        PROVE  /\ o.where = OrgParts => Place(o) = 11
               /\ o.where = UserParts => Place(o) = 12
    BY <1>1, <1>5 DEF Place, Later, Made
  <1>6. /\ Made["users"] = 3 /\ Made["memberships"] = 13
        /\ Made["email_tokens"] = 8 /\ Made["sessions"] = 15
    BY DEF Made
  <1>7. ASSUME NEW w
        PROVE  /\ Place(Index("unique", "users", {"lower(email)"}, w)) = 4
               /\ Place(Index("index", "email_tokens", {"user_id"}, w)) = 9
               /\ Place(Index("unique", "memberships", {"org_id", "user_id"}, w)) = 14
               /\ Place(Index("index", "sessions", {"user_id"}, w)) = 16
    BY <1>2, <1>3, <1>6, Kinds
  <1>8. ASSUME NEW w
        PROVE  /\ Place(Index("index", "designs", {"owner_org_id"}, w)) = 6
               /\ Place(Index("index", "designs", {"owner_user_id"}, w)) = 7
    BY <1>4, Kinds
  <1>9. ASSUME NEW cs
        PROVE  /\ Place(Index("unique", "inventory_parts", cs, OrgParts)) = 11
               /\ Place(Index("unique", "inventory_parts", cs, UserParts)) = 12
    BY <1>5, Kinds
  <1> QED
    BY <1>7, <1>8, <1>9

\* An object is made by one statement.
LEMMA PlaceOf ==
    \A i \in 1..20 : \A o \in Upgrade[i].creates : Place(o) = i
  <1>1. \A o \in Upgrade[1].creates : Place(o) = 1
    <2>1. "audit_log" \in DOMAIN Made /\ Made["audit_log"] = 1
      BY DEF Made
    <2>2. \A o \in CreateAuditLog.creates : Place(o) = Made["audit_log"]
      BY <2>1, WithTable DEF CreateAuditLog, Create
    <2> QED
      BY <2>1, <2>2, UpgradeInOrder
  <1>2. \A o \in Upgrade[2].creates : Place(o) = 2
    <2>1. "organizations" \in DOMAIN Made /\ Made["organizations"] = 2
      BY DEF Made
    <2>2. \A o \in CreateOrganizations.creates : Place(o) = Made["organizations"]
      BY <2>1, WithTable DEF CreateOrganizations, Create
    <2> QED
      BY <2>1, <2>2, UpgradeInOrder
  <1>3. \A o \in Upgrade[3].creates : Place(o) = 3
    <2>1. "users" \in DOMAIN Made /\ Made["users"] = 3
      BY DEF Made
    <2>2. \A o \in CreateUsers.creates : Place(o) = Made["users"]
      BY <2>1, WithTable DEF CreateUsers, Create
    <2> QED
      BY <2>1, <2>2, UpgradeInOrder
  <1>4. \A o \in Upgrade[4].creates : Place(o) = 4
    <2>1. \A o \in IndexUsers.creates : Place(o) = 4
      BY PlaceOfIndex DEF IndexUsers, CreateIndex
    <2> QED
      BY <2>1, UpgradeInOrder
  <1>5. \A o \in Upgrade[5].creates : Place(o) = 5
    <2>1. "designs" \in DOMAIN Made /\ Made["designs"] = 5
      BY DEF Made
    <2>2. \A o \in CreateDesigns.creates : Place(o) = Made["designs"]
      <3>1. /\ Place(Table("designs")) = Made["designs"]
            /\ Place(ExactlyOne("designs", "owner_user_id", "owner_org_id")) = Made["designs"]
            /\ \A a : Place(Key("designs", "created_by", "users", a)) = Made["designs"]
            /\ Place(Key("designs", "owner_org_id", "organizations", "CASCADE")) = Made["designs"]
            /\ Place(Key("designs", "owner_user_id", "users", "CASCADE")) = Made["designs"]
        BY <2>1, WithTable
      <3> QED
        BY <3>1 DEF CreateDesigns, Create
    <2> QED
      BY <2>1, <2>2, UpgradeInOrder
  <1>6. \A o \in Upgrade[6].creates : Place(o) = 6
    <2>1. \A o \in CreateIndex("index", "designs", {"owner_org_id"}, "").creates : Place(o) = 6
      BY PlaceOfIndex DEF CreateIndex
    <2> QED
      BY <2>1, UpgradeInOrder
  <1>7. \A o \in Upgrade[7].creates : Place(o) = 7
    <2>1. \A o \in CreateIndex("index", "designs", {"owner_user_id"}, "").creates : Place(o) = 7
      BY PlaceOfIndex DEF CreateIndex
    <2> QED
      BY <2>1, UpgradeInOrder
  <1>8. \A o \in Upgrade[8].creates : Place(o) = 8
    <2>1. "email_tokens" \in DOMAIN Made /\ Made["email_tokens"] = 8
      BY DEF Made
    <2>2. \A o \in CreateEmailTokens.creates : Place(o) = Made["email_tokens"]
      BY <2>1, WithTable DEF CreateEmailTokens, Create
    <2> QED
      BY <2>1, <2>2, UpgradeInOrder
  <1>9. \A o \in Upgrade[9].creates : Place(o) = 9
    <2>1. \A o \in IndexEmailTokens.creates : Place(o) = 9
      BY PlaceOfIndex DEF IndexEmailTokens, CreateIndex
    <2> QED
      BY <2>1, UpgradeInOrder
  <1>10. \A o \in Upgrade[10].creates : Place(o) = 10
    <2>1. "inventory_parts" \in DOMAIN Made /\ Made["inventory_parts"] = 10
      BY DEF Made
    <2>2. \A o \in CreateInventoryParts.creates : Place(o) = Made["inventory_parts"]
      <3>1. /\ Place(Table("inventory_parts")) = Made["inventory_parts"]
            /\ Place(OneOf("inventory_parts", "lifecycle",
                   {"draft", "approved", "deprecated", "obsolete"})) = Made["inventory_parts"]
            /\ Place(OneOf("inventory_parts", "part_type",
                   {"coreShape", "coreMaterial", "core", "bobbin",
                       "wire"})) = Made["inventory_parts"]
            /\ Place(OneOf("inventory_parts", "source", {"catalog", "private"})) =
                   Made["inventory_parts"]
            /\ Place(ExactlyOne("inventory_parts", "owner_user_id", "owner_org_id")) =
                   Made["inventory_parts"]
            /\ \A a : Place(Key("inventory_parts", "created_by", "users", a)) =
                   Made["inventory_parts"]
            /\ Place(Key("inventory_parts", "owner_org_id", "organizations", "CASCADE")) =
                   Made["inventory_parts"]
            /\ Place(Key("inventory_parts", "owner_user_id", "users", "CASCADE")) =
                   Made["inventory_parts"]
        BY <2>1, WithTable
      <3> QED
        BY <3>1 DEF CreateInventoryParts, Create
    <2> QED
      BY <2>1, <2>2, UpgradeInOrder
  <1>11. \A o \in Upgrade[11].creates : Place(o) = 11
    <2>1. \A o \in CreateIndex("unique", "inventory_parts",
              {"owner_org_id", "part_type", "name"}, OrgParts).creates : Place(o) = 11
      BY PlaceOfIndex DEF CreateIndex
    <2> QED
      BY <2>1, UpgradeInOrder
  <1>12. \A o \in Upgrade[12].creates : Place(o) = 12
    <2>1. \A o \in CreateIndex("unique", "inventory_parts",
              {"owner_user_id", "part_type", "name"}, UserParts).creates : Place(o) = 12
      BY PlaceOfIndex DEF CreateIndex
    <2> QED
      BY <2>1, UpgradeInOrder
  <1>13. \A o \in Upgrade[13].creates : Place(o) = 13
    <2>1. "memberships" \in DOMAIN Made /\ Made["memberships"] = 13
      BY DEF Made
    <2>2. \A o \in CreateMemberships.creates : Place(o) = Made["memberships"]
      <3>1. /\ Place(Table("memberships")) = Made["memberships"]
            /\ Place(NotNull("memberships", "org_id")) = Made["memberships"]
            /\ Place(OneOf("memberships", "role",
                   {"owner", "admin", "librarian", "member", "viewer"})) = Made["memberships"]
            /\ \A a : Place(Key("memberships", "invited_by", "users", a)) = Made["memberships"]
            /\ Place(Key("memberships", "org_id", "organizations", "CASCADE")) = Made["memberships"]
            /\ Place(Key("memberships", "user_id", "users", "CASCADE")) = Made["memberships"]
        BY <2>1, WithTable
      <3> QED
        BY <3>1 DEF CreateMemberships, Create
    <2> QED
      BY <2>1, <2>2, UpgradeInOrder
  <1>14. \A o \in Upgrade[14].creates : Place(o) = 14
    <2>1. \A o \in IndexMemberships.creates : Place(o) = 14
      BY PlaceOfIndex DEF IndexMemberships, CreateIndex
    <2> QED
      BY <2>1, UpgradeInOrder
  <1>15. \A o \in Upgrade[15].creates : Place(o) = 15
    <2>1. "sessions" \in DOMAIN Made /\ Made["sessions"] = 15
      BY DEF Made
    <2>2. \A o \in CreateSessions.creates : Place(o) = Made["sessions"]
      BY <2>1, WithTable DEF CreateSessions, Create
    <2> QED
      BY <2>1, <2>2, UpgradeInOrder
  <1>16. \A o \in Upgrade[16].creates : Place(o) = 16
    <2>1. \A o \in IndexSessions.creates : Place(o) = 16
      BY PlaceOfIndex DEF IndexSessions, CreateIndex
    <2> QED
      BY <2>1, UpgradeInOrder
  <1>17. \A o \in Upgrade[17].creates : Place(o) = 17
    <2>1. "user_settings" \in DOMAIN Made /\ Made["user_settings"] = 17
      BY DEF Made
    <2>2. \A o \in CreateUserSettings.creates : Place(o) = Made["user_settings"]
      BY <2>1, WithTable DEF CreateUserSettings, Create
    <2> QED
      BY <2>1, <2>2, UpgradeInOrder
  <1>18. \A o \in Upgrade[18].creates : Place(o) = 18
    <2>1. "design_revisions" \in DOMAIN Made /\ Made["design_revisions"] = 18
      BY DEF Made
    <2>2. \A o \in CreateDesignRevisions.creates : Place(o) = Made["design_revisions"]
      <3>1. /\ Place(Table("design_revisions")) = Made["design_revisions"]
            /\ Place(NotNull("design_revisions", "design_id")) = Made["design_revisions"]
            /\ Place(Key("design_revisions", "design_id", "designs", "CASCADE")) =
                   Made["design_revisions"]
            /\ \A a : Place(Key("design_revisions", "saved_by", "users", a)) =
                   Made["design_revisions"]
            /\ Place(Unique("design_revisions", {"design_id", "revision"})) =
                   Made["design_revisions"]
        BY <2>1, WithTable
      <3> QED
        BY <3>1 DEF CreateDesignRevisions, Create
    <2> QED
      BY <2>1, <2>2, UpgradeInOrder
  <1>19. \A o \in Upgrade[19].creates : Place(o) = 19
    <2>1. "share_links" \in DOMAIN Made /\ Made["share_links"] = 19
      BY DEF Made
    <2>2. \A o \in CreateShareLinks.creates : Place(o) = Made["share_links"]
      <3>1. /\ Place(Table("share_links")) = Made["share_links"]
            /\ Place(Target("share_links")) = Made["share_links"]
            /\ Place(OneOf("share_links", "kind", {"design", "inventory"})) = Made["share_links"]
            /\ \A a : Place(Key("share_links", "created_by", "users", a)) = Made["share_links"]
            /\ Place(Key("share_links", "design_id", "designs", "CASCADE")) = Made["share_links"]
            /\ Place(Key("share_links", "owner_org_id", "organizations", "CASCADE")) =
                   Made["share_links"]
            /\ Place(Key("share_links", "owner_user_id", "users", "CASCADE")) = Made["share_links"]
            /\ Place(Unique("share_links", {"token"})) = Made["share_links"]
        BY <2>1, WithTable
      <3> QED
        BY <3>1 DEF CreateShareLinks, Create
    <2> QED
      BY <2>1, <2>2, UpgradeInOrder
  <1>20. \A o \in Upgrade[20].creates : Place(o) = 20
    <2>1. "inventory_mounts" \in DOMAIN Made /\ Made["inventory_mounts"] = 20
      BY DEF Made
    <2>2. \A o \in CreateInventoryMounts.creates : Place(o) = Made["inventory_mounts"]
      BY <2>1, WithTable DEF CreateInventoryMounts, Create
    <2> QED
      BY <2>1, <2>2, UpgradeInOrder
  <1> QED
    BY <1>1, <1>2, <1>3, <1>4, <1>5, <1>6, <1>7, <1>8, <1>9, <1>10, <1>11, <1>12, <1>13, <1>14,
       <1>15, <1>16, <1>17, <1>18, <1>19, <1>20

\* A table is made after those it refers to, and dropped before them.
LEMMA KeysRise ==
    \A k \in OfKind(Metadata, "key") :
        /\ Made[k.to] < Made[k.table] /\ Made[k.table] \in 1..20 /\ Made[k.to] \in 1..20
        /\ Unmade[k.table] < Unmade[k.to] /\ Unmade[k.table] \in 1..20 /\ Unmade[k.to] \in 1..20
        /\ Place(k) = Made[k.table] /\ k.to \in DOMAIN Made
  <1> DEFINE Rises(k) ==
          /\ Made[k.to] < Made[k.table] /\ Made[k.table] \in 1..20 /\ Made[k.to] \in 1..20
          /\ Unmade[k.table] < Unmade[k.to] /\ Unmade[k.table] \in 1..20
          /\ Unmade[k.to] \in 1..20
          /\ Place(k) = Made[k.table] /\ k.to \in DOMAIN Made
  <1>1. ASSUME NEW k, k.kind = "key",
               <<k.table, k.to>> \in
                  {<<"sessions", "users">>, <<"email_tokens", "users">>,
                   <<"memberships", "organizations">>, <<"memberships", "users">>,
                   <<"designs", "users">>, <<"designs", "organizations">>,
                   <<"design_revisions", "designs">>, <<"design_revisions", "users">>,
                   <<"inventory_parts", "users">>, <<"inventory_parts", "organizations">>,
                   <<"share_links", "designs">>, <<"share_links", "users">>,
                   <<"share_links", "organizations">>,
                   <<"inventory_mounts", "share_links">>, <<"inventory_mounts", "users">>,
                   <<"inventory_mounts", "organizations">>, <<"user_settings", "users">>}
        PROVE  Rises(k)
    BY <1>1 DEF Made, Unmade, Place, Later
  <1> HIDE DEF Rises
  <1>2. ASSUME NEW t, NEW c, <<t, MeansRow[c]>> \in
                  {<<"sessions", "users">>, <<"email_tokens", "users">>,
                   <<"memberships", "organizations">>, <<"memberships", "users">>,
                   <<"designs", "users">>, <<"designs", "organizations">>,
                   <<"design_revisions", "designs">>, <<"design_revisions", "users">>,
                   <<"inventory_parts", "users">>, <<"inventory_parts", "organizations">>,
                   <<"share_links", "designs">>, <<"share_links", "users">>,
                   <<"share_links", "organizations">>,
                   <<"inventory_mounts", "share_links">>, <<"inventory_mounts", "users">>,
                   <<"inventory_mounts", "organizations">>, <<"user_settings", "users">>}
        PROVE  Rises(Link(t, c)) /\ Rises(Note(t, c))
    <2>1. /\ Link(t, c).kind = "key" /\ Link(t, c).table = t /\ Link(t, c).to = MeansRow[c]
          /\ Note(t, c).kind = "key" /\ Note(t, c).table = t /\ Note(t, c).to = MeansRow[c]
      BY DEF Link, Note, Key
    <2>2. Rises(Link(t, c))
      BY <1>1, <1>2, <2>1
    <2>3. Rises(Note(t, c))
      BY <1>1, <1>2, <2>1
    <2> QED
      BY <2>2, <2>3
  <1>3. OfKind(Metadata, "key") =
            UNION {OfKind(User, "key"), OfKind(Organization, "key"), OfKind(AuditLog, "key"),
                   OfKind(AuthSession, "key"), OfKind(EmailToken, "key"),
                   OfKind(Membership, "key"), OfKind(Design, "key"),
                   OfKind(DesignRevision, "key"), OfKind(InventoryPart, "key"),
                   OfKind(ShareLink, "key"), OfKind(InventoryMount, "key"),
                   OfKind(UserSettings, "key")}
    BY DEF Metadata, OfKind
  <1>4. \A k \in OfKind(AuthSession, "key") : Rises(k)
    BY <1>2, ClassKeys, Meanings
  <1>5. \A k \in OfKind(EmailToken, "key") : Rises(k)
    BY <1>2, ClassKeys, Meanings
  <1>6. \A k \in OfKind(Membership, "key") : Rises(k)
    BY <1>2, ClassKeys, Meanings
  <1>7. \A k \in OfKind(Design, "key") : Rises(k)
    BY <1>2, ClassKeys, Meanings
  <1>8. \A k \in OfKind(DesignRevision, "key") : Rises(k)
    BY <1>2, ClassKeys, Meanings
  <1>9. \A k \in OfKind(InventoryPart, "key") : Rises(k)
    BY <1>2, ClassKeys, Meanings
  <1>10. \A k \in OfKind(ShareLink, "key") : Rises(k)
    BY <1>2, ClassKeys, Meanings
  <1>11. \A k \in OfKind(InventoryMount, "key") : Rises(k)
    BY <1>2, ClassKeys, Meanings
  <1>12. \A k \in OfKind(UserSettings, "key") : Rises(k)
    BY <1>2, ClassKeys, Meanings
  <1>13. \A k \in OfKind(Metadata, "key") : Rises(k)
    BY <1>3, ClassKeys, <1>4, <1>5, <1>6, <1>7, <1>8, <1>9, <1>10, <1>11, <1>12
  <1> QED
    BY <1>13 DEF Rises

\* Either way there are twenty, and those of downgrade() create nothing.
LEMMA TwentyStatements ==
    /\ Len(Upgrade) = 20 /\ DOMAIN Upgrade = 1..20 /\ Upgrade \in Seq(CreateStatements)
    /\ Len(Downgrade) = 20 /\ DOMAIN Downgrade = 1..20
    /\ \A i \in 1..20 : Downgrade[i].creates = {}
  <1>1. Len(Upgrade) = 20
    BY UpgradeInOrder, Zenon
  <1>2. Upgrade \in Seq(CreateStatements)
    BY UpgradeCreates
  <1>3. Len(Downgrade) = 20 /\ DOMAIN Downgrade = 1..20
    BY DEF Downgrade
  <1>4. \A i \in DOMAIN Downgrade : Downgrade[i].creates = {}
    BY DowngradeDrops, Zenon
  <1> QED
    BY <1>1, <1>2, <1>3, <1>4

\* Each table is created by the statement that Made tells.
LEMMA TablesMade ==
    \A t \in DOMAIN Made : Made[t] \in 1..20 /\ Table(t) \in Upgrade[Made[t]].creates
  <1>1. Made["audit_log"] = 1 /\ Table("audit_log") \in Upgrade[1].creates
    <2>1. Table("audit_log") \in CreateAuditLog.creates
      BY DEF CreateAuditLog, Create
    <2>2. Made["audit_log"] = 1
      BY DEF Made
    <2> QED
      BY <2>1, <2>2, UpgradeInOrder, Zenon
  <1>2. Made["organizations"] = 2 /\ Table("organizations") \in Upgrade[2].creates
    <2>1. Table("organizations") \in CreateOrganizations.creates
      BY DEF CreateOrganizations, Create
    <2>2. Made["organizations"] = 2
      BY DEF Made
    <2> QED
      BY <2>1, <2>2, UpgradeInOrder, Zenon
  <1>3. Made["users"] = 3 /\ Table("users") \in Upgrade[3].creates
    <2>1. Table("users") \in CreateUsers.creates
      BY DEF CreateUsers, Create
    <2>2. Made["users"] = 3
      BY DEF Made
    <2> QED
      BY <2>1, <2>2, UpgradeInOrder, Zenon
  <1>4. Made["designs"] = 5 /\ Table("designs") \in Upgrade[5].creates
    <2>1. Table("designs") \in CreateDesigns.creates
      BY DEF CreateDesigns, Create
    <2>2. Made["designs"] = 5
      BY DEF Made
    <2> QED
      BY <2>1, <2>2, UpgradeInOrder, Zenon
  <1>5. Made["email_tokens"] = 8 /\ Table("email_tokens") \in Upgrade[8].creates
    <2>1. Table("email_tokens") \in CreateEmailTokens.creates
      BY DEF CreateEmailTokens, Create
    <2>2. Made["email_tokens"] = 8
      BY DEF Made
    <2> QED
      BY <2>1, <2>2, UpgradeInOrder, Zenon
  <1>6. Made["inventory_parts"] = 10 /\ Table("inventory_parts") \in Upgrade[10].creates
    <2>1. Table("inventory_parts") \in CreateInventoryParts.creates
      BY DEF CreateInventoryParts, Create
    <2>2. Made["inventory_parts"] = 10
      BY DEF Made
    <2> QED
      BY <2>1, <2>2, UpgradeInOrder, Zenon
  <1>7. Made["memberships"] = 13 /\ Table("memberships") \in Upgrade[13].creates
    <2>1. Table("memberships") \in CreateMemberships.creates
      BY DEF CreateMemberships, Create
    <2>2. Made["memberships"] = 13
      BY DEF Made
    <2> QED
      BY <2>1, <2>2, UpgradeInOrder, Zenon
  <1>8. Made["sessions"] = 15 /\ Table("sessions") \in Upgrade[15].creates
    <2>1. Table("sessions") \in CreateSessions.creates
      BY DEF CreateSessions, Create
    <2>2. Made["sessions"] = 15
      BY DEF Made
    <2> QED
      BY <2>1, <2>2, UpgradeInOrder, Zenon
  <1>9. Made["user_settings"] = 17 /\ Table("user_settings") \in Upgrade[17].creates
    <2>1. Table("user_settings") \in CreateUserSettings.creates
      BY DEF CreateUserSettings, Create
    <2>2. Made["user_settings"] = 17
      BY DEF Made
    <2> QED
      BY <2>1, <2>2, UpgradeInOrder, Zenon
  <1>10. Made["design_revisions"] = 18 /\ Table("design_revisions") \in Upgrade[18].creates
    <2>1. Table("design_revisions") \in CreateDesignRevisions.creates
      BY DEF CreateDesignRevisions, Create
    <2>2. Made["design_revisions"] = 18
      BY DEF Made
    <2> QED
      BY <2>1, <2>2, UpgradeInOrder, Zenon
  <1>11. Made["share_links"] = 19 /\ Table("share_links") \in Upgrade[19].creates
    <2>1. Table("share_links") \in CreateShareLinks.creates
      BY DEF CreateShareLinks, Create
    <2>2. Made["share_links"] = 19
      BY DEF Made
    <2> QED
      BY <2>1, <2>2, UpgradeInOrder, Zenon
  <1>12. Made["inventory_mounts"] = 20 /\ Table("inventory_mounts") \in Upgrade[20].creates
    <2>1. Table("inventory_mounts") \in CreateInventoryMounts.creates
      BY DEF CreateInventoryMounts, Create
    <2>2. Made["inventory_mounts"] = 20
      BY DEF Made
    <2> QED
      BY <2>1, <2>2, UpgradeInOrder, Zenon
  <1>13. DOMAIN Made = {"audit_log", "organizations", "users", "designs", "email_tokens",
                        "inventory_parts", "memberships", "sessions", "user_settings",
                        "design_revisions", "share_links", "inventory_mounts"}
    BY DEF Made
  <1> QED
    BY <1>1, <1>2, <1>3, <1>4, <1>5, <1>6, <1>7, <1>8, <1>9, <1>10, <1>11, <1>12, <1>13


\* Where downgrade drops what it names.
Named(o) ==
    CASE o.kind = "table" -> Unmade[o.table]
      [] o.kind # "table" /\ o.table = "sessions" -> 5
      [] o.kind # "table" /\ o.table = "memberships" -> 7
      [] o.kind # "table" /\ o.table = "inventory_parts" -> IF o.where = UserParts THEN 9 ELSE 10
      [] o.kind # "table" /\ o.table = "email_tokens" -> 12
      [] o.kind # "table" /\ o.table = "designs" -> IF o.columns = {"owner_user_id"} THEN 14 ELSE 15
      [] OTHER -> 17

\* Nothing is dropped twice, or after its table.
Right(o, i) ==
    /\ o \in Metadata /\ Named(o) = i
    /\ Unmade[o.table] \in 1..20 /\ Unmade[o.table] >= i
    /\ o.kind = "table" => Unmade[o.table] = i

\* The statements of downgrade(), one by one.
LEMMA DropsInOrder ==
    /\ \A i \in 1..20 : \A o \in Downgrade[i].drops : Right(o, i)
    /\ \A t \in DOMAIN Unmade :
          Unmade[t] \in 1..20 /\ Table(t) \in Downgrade[Unmade[t]].drops
  <1>101. /\ \A t : Drop(t).drops = {Table(t)}
        /\ \A kind, t, columns, where :
              DropIndex(kind, t, columns, where).drops = {Index(kind, t, columns, where)}
    BY DEF Drop, DropIndex
  <1>102. ASSUME NEW t \in DOMAIN Unmade, Table(t) \in Metadata
        PROVE  Right(Table(t), Unmade[t])
    <2>1. Table(t).kind = "table" /\ Table(t).table = t
      BY Kinds
    <2>2. Unmade[t] \in 1..20
      BY DEF Unmade
    <2> QED
      BY <1>102, <2>1, <2>2 DEF Right, Named
  <1>103. ASSUME NEW o \in Metadata, NEW i,
               o.kind # "table",
               \/ o.table = "sessions" /\ i = 5
               \/ o.table = "memberships" /\ i = 7
               \/ o.table = "inventory_parts" /\ o.where = UserParts /\ i = 9
               \/ o.table = "inventory_parts" /\ o.where = OrgParts /\ i = 10
               \/ o.table = "email_tokens" /\ i = 12
               \/ o.table = "designs" /\ o.columns = {"owner_user_id"} /\ i = 14
               \/ o.table = "designs" /\ o.columns = {"owner_org_id"} /\ i = 15
               \/ o.table = "users" /\ i = 17
        PROVE  Right(o, i)
    <2>1. OrgParts # UserParts
      BY DEF OrgParts, UserParts
    <2>2. {"owner_org_id"} # {"owner_user_id"}
      OBVIOUS
    <2>3. Named(o) = i
      BY <1>103, <2>1, <2>2 DEF Named
    <2>4. Unmade[o.table] \in 1..20 /\ Unmade[o.table] >= i
      BY <1>103 DEF Unmade
    <2> QED
      BY <1>103, <2>3, <2>4 DEF Right
  <1>1. /\ Downgrade[1].drops = {Table("inventory_mounts")}
        /\ Right(Table("inventory_mounts"), 1) /\ Unmade["inventory_mounts"] = 1
    <2>1. Downgrade[1] = Drop("inventory_mounts")
      BY DEF Downgrade
    <2>2. Table("inventory_mounts") \in Metadata
      BY DEF Metadata, InventoryMount
    <2>3. "inventory_mounts" \in DOMAIN Unmade /\ Unmade["inventory_mounts"] = 1
      BY DEF Unmade
    <2> QED
      BY <1>101, <1>102, <2>1, <2>2, <2>3
  <1>2. /\ Downgrade[2].drops = {Table("share_links")}
        /\ Right(Table("share_links"), 2) /\ Unmade["share_links"] = 2
    <2>1. Downgrade[2] = Drop("share_links")
      BY DEF Downgrade
    <2>2. Table("share_links") \in Metadata
      BY DEF Metadata, ShareLink
    <2>3. "share_links" \in DOMAIN Unmade /\ Unmade["share_links"] = 2
      BY DEF Unmade
    <2> QED
      BY <1>101, <1>102, <2>1, <2>2, <2>3
  <1>3. /\ Downgrade[3].drops = {Table("design_revisions")}
        /\ Right(Table("design_revisions"), 3) /\ Unmade["design_revisions"] = 3
    <2>1. Downgrade[3] = Drop("design_revisions")
      BY DEF Downgrade
    <2>2. Table("design_revisions") \in Metadata
      BY DEF Metadata, DesignRevision
    <2>3. "design_revisions" \in DOMAIN Unmade /\ Unmade["design_revisions"] = 3
      BY DEF Unmade
    <2> QED
      BY <1>101, <1>102, <2>1, <2>2, <2>3
  <1>4. /\ Downgrade[4].drops = {Table("user_settings")}
        /\ Right(Table("user_settings"), 4) /\ Unmade["user_settings"] = 4
    <2>1. Downgrade[4] = Drop("user_settings")
      BY DEF Downgrade
    <2>2. Table("user_settings") \in Metadata
      BY DEF Metadata, UserSettings
    <2>3. "user_settings" \in DOMAIN Unmade /\ Unmade["user_settings"] = 4
      BY DEF Unmade
    <2> QED
      BY <1>101, <1>102, <2>1, <2>2, <2>3
  <1>5. \A o \in Downgrade[5].drops : Right(o, 5)
    <2>1. Downgrade[5] = DropIndex("index", "sessions", {"user_id"}, "")
      BY DEF Downgrade
    <2>2. Index("index", "sessions", {"user_id"}, "") \in Metadata
      BY DEF Metadata, AuthSession
    <2> DEFINE o == Index("index", "sessions", {"user_id"}, "")
    <2>3. Downgrade[5].drops = {o}
      <3>1. DropIndex("index", "sessions", {"user_id"}, "").drops = {o}
        BY Zenon DEF DropIndex
      <3> QED
        BY <2>1, <3>1, Zenon
    <2>4. o.kind = "index" /\ o.table = "sessions"
      BY DEF Index
    <2> HIDE DEF o
    <2>5. Right(o, 5)
      <3>1. o \in Metadata
        BY <2>2 DEF o
      <3> QED
        BY <1>103, <2>4, <3>1
    <2> QED
      BY <2>3, <2>5
  <1>6. /\ Downgrade[6].drops = {Table("sessions")}
        /\ Right(Table("sessions"), 6) /\ Unmade["sessions"] = 6
    <2>1. Downgrade[6] = Drop("sessions")
      BY DEF Downgrade
    <2>2. Table("sessions") \in Metadata
      BY DEF Metadata, AuthSession
    <2>3. "sessions" \in DOMAIN Unmade /\ Unmade["sessions"] = 6
      BY DEF Unmade
    <2> QED
      BY <1>101, <1>102, <2>1, <2>2, <2>3
  <1>7. \A o \in Downgrade[7].drops : Right(o, 7)
    <2>1. Downgrade[7] = DropIndex("unique", "memberships", {"org_id", "user_id"}, "")
      BY DEF Downgrade
    <2>2. Index("unique", "memberships", {"org_id", "user_id"}, "") \in Metadata
      BY DEF Metadata, Membership, Unique
    <2> DEFINE o == Index("unique", "memberships", {"org_id", "user_id"}, "")
    <2>3. Downgrade[7].drops = {o}
      <3>1. DropIndex("unique", "memberships", {"org_id", "user_id"}, "").drops = {o}
        BY Zenon DEF DropIndex
      <3> QED
        BY <2>1, <3>1, Zenon
    <2>4. o.kind = "unique" /\ o.table = "memberships"
      BY DEF Index
    <2> HIDE DEF o
    <2>5. Right(o, 7)
      <3>1. o \in Metadata
        BY <2>2 DEF o
      <3> QED
        BY <1>103, <2>4, <3>1
    <2> QED
      BY <2>3, <2>5
  <1>8. /\ Downgrade[8].drops = {Table("memberships")}
        /\ Right(Table("memberships"), 8) /\ Unmade["memberships"] = 8
    <2>1. Downgrade[8] = Drop("memberships")
      BY DEF Downgrade
    <2>2. Table("memberships") \in Metadata
      BY DEF Metadata, Membership
    <2>3. "memberships" \in DOMAIN Unmade /\ Unmade["memberships"] = 8
      BY DEF Unmade
    <2> QED
      BY <1>101, <1>102, <2>1, <2>2, <2>3
  <1>9. \A o \in Downgrade[9].drops : Right(o, 9)
    <2>1. Downgrade[9] =
              DropIndex("unique", "inventory_parts", {"owner_user_id", "part_type", "name"},
                  UserParts)
      BY DEF Downgrade
    <2>2. Index("unique", "inventory_parts", {"owner_user_id", "part_type", "name"}, UserParts)
              \in Metadata
      BY DEF Metadata, InventoryPart, UserParts, OrgParts
    <2> DEFINE o == Index("unique", "inventory_parts", {"owner_user_id", "part_type", "name"},
            UserParts)
    <2>3. Downgrade[9].drops = {o}
      <3>1. DropIndex("unique", "inventory_parts", {"owner_user_id", "part_type", "name"},
                UserParts).drops = {o}
        BY Zenon DEF DropIndex
      <3> QED
        BY <2>1, <3>1, Zenon
    <2>4. o.kind = "unique" /\ o.table = "inventory_parts" /\ o.where = UserParts
      BY DEF Index
    <2> HIDE DEF o
    <2>5. Right(o, 9)
      <3>1. o \in Metadata
        BY <2>2 DEF o
      <3> QED
        BY <1>103, <2>4, <3>1
    <2> QED
      BY <2>3, <2>5
  <1>10. \A o \in Downgrade[10].drops : Right(o, 10)
    <2>1. Downgrade[10] =
              DropIndex("unique", "inventory_parts", {"owner_org_id", "part_type", "name"},
                  OrgParts)
      BY DEF Downgrade
    <2>2. Index("unique", "inventory_parts", {"owner_org_id", "part_type", "name"}, OrgParts)
              \in Metadata
      BY DEF Metadata, InventoryPart, UserParts, OrgParts
    <2> DEFINE o == Index("unique", "inventory_parts", {"owner_org_id", "part_type", "name"},
            OrgParts)
    <2>3. Downgrade[10].drops = {o}
      <3>1. DropIndex("unique", "inventory_parts", {"owner_org_id", "part_type", "name"},
                OrgParts).drops = {o}
        BY Zenon DEF DropIndex
      <3> QED
        BY <2>1, <3>1, Zenon
    <2>4. o.kind = "unique" /\ o.table = "inventory_parts" /\ o.where = OrgParts
      BY DEF Index
    <2> HIDE DEF o
    <2>5. Right(o, 10)
      <3>1. o \in Metadata
        BY <2>2 DEF o
      <3> QED
        BY <1>103, <2>4, <3>1
    <2> QED
      BY <2>3, <2>5
  <1>11. /\ Downgrade[11].drops = {Table("inventory_parts")}
        /\ Right(Table("inventory_parts"), 11) /\ Unmade["inventory_parts"] = 11
    <2>1. Downgrade[11] = Drop("inventory_parts")
      BY DEF Downgrade
    <2>2. Table("inventory_parts") \in Metadata
      BY DEF Metadata, InventoryPart
    <2>3. "inventory_parts" \in DOMAIN Unmade /\ Unmade["inventory_parts"] = 11
      BY DEF Unmade
    <2> QED
      BY <1>101, <1>102, <2>1, <2>2, <2>3
  <1>12. \A o \in Downgrade[12].drops : Right(o, 12)
    <2>1. Downgrade[12] = DropIndex("index", "email_tokens", {"user_id"}, "")
      BY DEF Downgrade
    <2>2. Index("index", "email_tokens", {"user_id"}, "") \in Metadata
      BY DEF Metadata, EmailToken
    <2> DEFINE o == Index("index", "email_tokens", {"user_id"}, "")
    <2>3. Downgrade[12].drops = {o}
      <3>1. DropIndex("index", "email_tokens", {"user_id"}, "").drops = {o}
        BY Zenon DEF DropIndex
      <3> QED
        BY <2>1, <3>1, Zenon
    <2>4. o.kind = "index" /\ o.table = "email_tokens"
      BY DEF Index
    <2> HIDE DEF o
    <2>5. Right(o, 12)
      <3>1. o \in Metadata
        BY <2>2 DEF o
      <3> QED
        BY <1>103, <2>4, <3>1
    <2> QED
      BY <2>3, <2>5
  <1>13. /\ Downgrade[13].drops = {Table("email_tokens")}
        /\ Right(Table("email_tokens"), 13) /\ Unmade["email_tokens"] = 13
    <2>1. Downgrade[13] = Drop("email_tokens")
      BY DEF Downgrade
    <2>2. Table("email_tokens") \in Metadata
      BY DEF Metadata, EmailToken
    <2>3. "email_tokens" \in DOMAIN Unmade /\ Unmade["email_tokens"] = 13
      BY DEF Unmade
    <2> QED
      BY <1>101, <1>102, <2>1, <2>2, <2>3
  <1>14. \A o \in Downgrade[14].drops : Right(o, 14)
    <2>1. Downgrade[14] = DropIndex("index", "designs", {"owner_user_id"}, "")
      BY DEF Downgrade
    <2>2. Index("index", "designs", {"owner_user_id"}, "") \in Metadata
      BY DEF Metadata, Design
    <2> DEFINE o == Index("index", "designs", {"owner_user_id"}, "")
    <2>3. Downgrade[14].drops = {o}
      <3>1. DropIndex("index", "designs", {"owner_user_id"}, "").drops = {o}
        BY Zenon DEF DropIndex
      <3> QED
        BY <2>1, <3>1, Zenon
    <2>4. o.kind = "index" /\ o.table = "designs" /\ o.columns = {"owner_user_id"}
      BY DEF Index
    <2> HIDE DEF o
    <2>5. Right(o, 14)
      <3>1. o \in Metadata
        BY <2>2 DEF o
      <3> QED
        BY <1>103, <2>4, <3>1
    <2> QED
      BY <2>3, <2>5
  <1>15. \A o \in Downgrade[15].drops : Right(o, 15)
    <2>1. Downgrade[15] = DropIndex("index", "designs", {"owner_org_id"}, "")
      BY DEF Downgrade
    <2>2. Index("index", "designs", {"owner_org_id"}, "") \in Metadata
      BY DEF Metadata, Design
    <2> DEFINE o == Index("index", "designs", {"owner_org_id"}, "")
    <2>3. Downgrade[15].drops = {o}
      <3>1. DropIndex("index", "designs", {"owner_org_id"}, "").drops = {o}
        BY Zenon DEF DropIndex
      <3> QED
        BY <2>1, <3>1, Zenon
    <2>4. o.kind = "index" /\ o.table = "designs" /\ o.columns = {"owner_org_id"}
      BY DEF Index
    <2> HIDE DEF o
    <2>5. Right(o, 15)
      <3>1. o \in Metadata
        BY <2>2 DEF o
      <3> QED
        BY <1>103, <2>4, <3>1
    <2> QED
      BY <2>3, <2>5
  <1>16. /\ Downgrade[16].drops = {Table("designs")}
        /\ Right(Table("designs"), 16) /\ Unmade["designs"] = 16
    <2>1. Downgrade[16] = Drop("designs")
      BY DEF Downgrade
    <2>2. Table("designs") \in Metadata
      BY DEF Metadata, Design
    <2>3. "designs" \in DOMAIN Unmade /\ Unmade["designs"] = 16
      BY DEF Unmade
    <2> QED
      BY <1>101, <1>102, <2>1, <2>2, <2>3
  <1>17. \A o \in Downgrade[17].drops : Right(o, 17)
    <2>1. Downgrade[17] = DropIndex("unique", "users", {"lower(email)"}, "")
      BY DEF Downgrade
    <2>2. Index("unique", "users", {"lower(email)"}, "") \in Metadata
      BY DEF Metadata, User, Unique
    <2> DEFINE o == Index("unique", "users", {"lower(email)"}, "")
    <2>3. Downgrade[17].drops = {o}
      <3>1. DropIndex("unique", "users", {"lower(email)"}, "").drops = {o}
        BY Zenon DEF DropIndex
      <3> QED
        BY <2>1, <3>1, Zenon
    <2>4. o.kind = "unique" /\ o.table = "users"
      BY DEF Index
    <2> HIDE DEF o
    <2>5. Right(o, 17)
      <3>1. o \in Metadata
        BY <2>2 DEF o
      <3> QED
        BY <1>103, <2>4, <3>1
    <2> QED
      BY <2>3, <2>5
  <1>18. /\ Downgrade[18].drops = {Table("users")}
        /\ Right(Table("users"), 18) /\ Unmade["users"] = 18
    <2>1. Downgrade[18] = Drop("users")
      BY DEF Downgrade
    <2>2. Table("users") \in Metadata
      BY DEF Metadata, User
    <2>3. "users" \in DOMAIN Unmade /\ Unmade["users"] = 18
      BY DEF Unmade
    <2> QED
      BY <1>101, <1>102, <2>1, <2>2, <2>3
  <1>19. /\ Downgrade[19].drops = {Table("organizations")}
        /\ Right(Table("organizations"), 19) /\ Unmade["organizations"] = 19
    <2>1. Downgrade[19] = Drop("organizations")
      BY DEF Downgrade
    <2>2. Table("organizations") \in Metadata
      BY DEF Metadata, Organization
    <2>3. "organizations" \in DOMAIN Unmade /\ Unmade["organizations"] = 19
      BY DEF Unmade
    <2> QED
      BY <1>101, <1>102, <2>1, <2>2, <2>3
  <1>20. /\ Downgrade[20].drops = {Table("audit_log")}
        /\ Right(Table("audit_log"), 20) /\ Unmade["audit_log"] = 20
    <2>1. Downgrade[20] = Drop("audit_log")
      BY DEF Downgrade
    <2>2. Table("audit_log") \in Metadata
      BY DEF Metadata, AuditLog
    <2>3. "audit_log" \in DOMAIN Unmade /\ Unmade["audit_log"] = 20
      BY DEF Unmade
    <2> QED
      BY <1>101, <1>102, <2>1, <2>2, <2>3
  <1>21. \A i \in 1..20 : \A o \in Downgrade[i].drops : Right(o, i)
    <2>1. \A i \in {1, 2, 3, 4, 6, 8, 11, 13, 16, 18, 19, 20} : \A o \in Downgrade[i].drops :
              Right(o, i)
      BY <1>1, <1>2, <1>3, <1>4, <1>6, <1>8, <1>11, <1>13, <1>16, <1>18, <1>19, <1>20
    <2>2. \A i \in {5, 7, 9, 10, 12, 14, 15, 17} : \A o \in Downgrade[i].drops : Right(o, i)
      BY <1>5, <1>7, <1>9, <1>10, <1>12, <1>14, <1>15, <1>17
    <2> QED
      BY <2>1, <2>2
  <1>22. ASSUME NEW t \in DOMAIN Unmade
         PROVE  Unmade[t] \in 1..20 /\ Table(t) \in Downgrade[Unmade[t]].drops
    <2>1. t \in {"inventory_mounts", "share_links", "design_revisions", "user_settings",
              "sessions", "memberships", "inventory_parts", "email_tokens", "designs", "users",
              "organizations", "audit_log"}
      BY DEF Unmade
    <2> QED
      BY <2>1, <1>1, <1>2, <1>3, <1>4, <1>6, <1>8, <1>11, <1>13, <1>16, <1>18, <1>19, <1>20
  <1> QED
    BY <1>21, <1>22

\* Whatever is there after the statements before it, a statement finds what it needs.
LEMMA Accepted ==
    ASSUME NEW to \in {Latest, None}, NEW n \in Nat, n + 1 \in DOMAIN Statements(to)
    PROVE  ~Refused(Partial(to, n), Statements(to)[n + 1])
  <1>0. Len(Upgrade) = 20 /\ Len(Downgrade) = 20
        /\ DOMAIN Upgrade = 1..20 /\ DOMAIN Downgrade = 1..20
    BY TwentyStatements
  <1>1. n + 1 \in 1..20 /\ 1..n \subseteq 1..20
    BY <1>0 DEF Statements
  <1>2. CASE to = Latest
    <2> DEFINE s == Upgrade[n + 1]
    <2>1. s \in CreateStatements /\ s.drops = {} /\ s.creates \subseteq Metadata
      <3>1. s \in CreateStatements
        <4>1. Upgrade \in Seq(CreateStatements) /\ n + 1 \in 1..Len(Upgrade)
          BY <1>1, TwentyStatements
        <4> QED
          BY <4>1
      <3> QED
        BY <3>1 DEF CreateStatements
    <2>2. s.creates \intersect Partial(to, n) = {}
      BY <1>1, <1>2, PlaceOf DEF Partial
    <2>3. \A t \in DOMAIN Made : Made[t] <= n => t \in TablesIn(Partial(to, n))
      <3>1. \A t \in DOMAIN Made : Made[t] \in 1..20 /\ Table(t) \in Upgrade[Made[t]].creates
        BY TablesMade
      <3>2. ASSUME NEW t \in DOMAIN Made, Made[t] <= n
            PROVE  Table(t) \in Partial(to, n)
        BY <1>2, <3>1, <3>2 DEF Partial
      <3> QED
        BY <3>2, Kinds DEF TablesIn, OfKind
    <2>4. ASSUME NEW k \in OfKind(s.creates, "key")
          PROVE  k.to \in TablesIn(Partial(to, n) \union s.creates)
      <3>1. k \in OfKind(Metadata, "key") /\ Place(k) = n + 1
        BY <1>1, <2>1, PlaceOf DEF OfKind
      <3>2. k.to \in DOMAIN Made /\ Made[k.to] <= n
        BY <3>1, KeysRise
      <3>3. k.to \in TablesIn(Partial(to, n))
        BY <2>3, <3>2
      <3> QED
        BY <3>3 DEF TablesIn, OfKind
    <2>5. TablesIn(s.drops) = {}
      BY <2>1 DEF TablesIn, OfKind
    <2> QED
      BY <1>2, <2>1, <2>2, <2>4, <2>5 DEF Refused, Statements
  <1>3. CASE to # Latest
    <2> DEFINE s == Downgrade[n + 1]
    <2>1. s.creates = {}
      BY <1>1, TwentyStatements
    <2>2. \A i \in 1..20 : \A t \in TablesIn(Downgrade[i].drops) : Unmade[t] = i
      BY DropsInOrder DEF TablesIn, OfKind, Right
    <2>3. ASSUME NEW o \in s.drops PROVE o \in Partial(to, n)
      <3>1. ASSUME NEW i \in 1..n PROVE ~Dropped(o, Downgrade[i])
        <4>1. Right(o, n + 1) /\ i \in 1..20 /\ i # n + 1 /\ i < n + 1
          BY <1>1, DropsInOrder
        <4>2. o \notin Downgrade[i].drops
          BY <4>1, DropsInOrder DEF Right
        <4>3. o.table \notin TablesIn(Downgrade[i].drops)
          BY <1>1, <2>2, <4>1 DEF Right
        <4> QED
          BY <4>2, <4>3 DEF Dropped
      <3> QED
        BY <1>1, <1>3, <3>1, DropsInOrder DEF Partial, Right
    <2>4. ASSUME NEW k \in OfKind(Partial(to, n), "key"), k.to \in TablesIn(s.drops)
          PROVE  FALSE
      <3>1. k \in OfKind(Metadata, "key") /\ \A i \in 1..n : ~Dropped(k, Downgrade[i])
        BY <1>3, <2>4 DEF Partial, OfKind
      <3>2. Unmade[k.to] = n + 1
        BY <1>1, <2>2, <2>4
      <3>3. Unmade[k.table] \in 1..n
        BY <3>1, <3>2, KeysRise
      <3>4. k.table \in DOMAIN Unmade
        BY <3>1, MetadataTables DEF OfKind, Tables, Unmade
      <3>5. Table(k.table) \in Downgrade[Unmade[k.table]].drops
        BY <3>4, DropsInOrder
      <3>6. k.table \in TablesIn(Downgrade[Unmade[k.table]].drops)
        BY <3>5, Kinds DEF TablesIn, OfKind
      <3> QED
        BY <3>1, <3>3, <3>6 DEF Dropped
    <2> QED
      BY <1>3, <2>1, <2>3, <2>4 DEF Refused, Statements, OfKind
  <1> QED
    BY <1>2, <1>3

Active(p) == migrators[p].pc \notin {"idle", "failed"}

\* A process that is alone is the only one active, and what it read is still so.
MigratorAlone ==
    /\ \A p, q \in Migrators : Active(p) /\ Active(q) => p = q
    /\ \A p \in Migrators :
          migrators[p].pc # "failed" /\ (InDdl(p) => version # migrators[p].to)

\* Steps of processes of which one at a time migrates.
LEMMA MigratorAloneNext ==
    ASSUME MigrationInv, MigratorAlone, MigrationNext, MigrationAlone
    PROVE  MigratorAlone'
  <1>1. \A p, q \in Migrators : Active(p)' /\ Active(q)' => p = q
    <2> DEFINE S == {p \in Migrators : migrators'[p].pc \notin {"idle", "failed"}}
    <2>1. IsFiniteSet(S) /\ Cardinality(S) <= 1
      BY AloneAssumption, FS_Subset DEF MigrationAlone
    <2> HIDE DEF S
    <2>2. \A p, q \in S : p = q
      BY <2>1, AtMostOne
    <2> QED
      BY <2>2 DEF S, Active
  <1>2. PICK p \in Migrators :
            \/ StartMigration(p) \/ EnsureSchema(p) \/ ReadVersion(p)
            \/ ExecuteStatement(p) \/ CommitMigration(p) \/ MigratorDies(p)
    BY DEF MigrationNext
  <1>3. migrators \in [Migrators -> MigratorStates] /\ migrators[p] \in MigratorStates
    BY DEF MigrationInv
  <1>4. ASSUME NEW m, migrators' = [migrators EXCEPT ![p] = m],
               m.pc # "failed", m.pc = "ddl" => version' # m.to,
               \A q \in Migrators \ {p} : InDdl(q) => version' # migrators[q].to
        PROVE  MigratorAlone'
    BY <1>1, <1>3, <1>4 DEF MigratorAlone, InDdl
  <1>5. ASSUME NEW pc, Became(p, pc), pc \notin {"failed", "ddl"},
               \A q \in Migrators \ {p} : InDdl(q) => version' # migrators[q].to
        PROVE  MigratorAlone'
    <2> DEFINE m == [migrators[p] EXCEPT !.pc = pc]
    <2>1. m.pc = pc /\ migrators' = [migrators EXCEPT ![p] = m]
      BY <1>3, <1>5 DEF Became, MigratorStates
    <2> HIDE DEF m
    <2> QED
      BY <1>4, <1>5, <2>1
  <1>6. UNCHANGED version =>
            \A q \in Migrators \ {p} : InDdl(q) => version' # migrators[q].to
    BY DEF MigratorAlone
  <1>7. CASE StartMigration(p)
    <2>1. PICK to \in {Latest, None} :
             migrators' = [migrators EXCEPT ![p] = [pc |-> "schema", to |-> to, next |-> 1,
                                                    pending |-> {}]]
      BY <1>7 DEF StartMigration
    <2> DEFINE m == [pc |-> "schema", to |-> to, next |-> 1, pending |-> {}]
    <2>2. m.pc = "schema" /\ migrators' = [migrators EXCEPT ![p] = m]
      BY <2>1
    <2>3. UNCHANGED version
      BY <1>7 DEF StartMigration
    <2> HIDE DEF m
    <2> QED
      BY <1>4, <1>6, <2>2, <2>3
  <1>8. CASE EnsureSchema(p)
    <2>1. \A q \in Migrators \ {p} : migrators[q].pc # "schema"
      BY <1>8 DEF EnsureSchema, MigratorAlone, Active
    <2> QED
      BY <1>5, <1>6, <1>8, <2>1 DEF EnsureSchema
  <1>9. CASE ReadVersion(p)
    <2>1. CASE version = migrators[p].to
      BY <1>5, <1>6, <1>9, <2>1 DEF ReadVersion
    <2>2. CASE version # migrators[p].to
      <3> DEFINE m == [migrators[p] EXCEPT !.pc = "ddl", !.pending = db]
      <3>1. m.pc = "ddl" /\ m.to = migrators[p].to
        BY <1>3 DEF MigratorStates
      <3>2. migrators' = [migrators EXCEPT ![p] = m] /\ version' = version
        BY <1>3, <1>9, <2>2 DEF ReadVersion
      <3> HIDE DEF m
      <3> QED
        BY <1>4, <1>6, <2>2, <3>1, <3>2
    <2> QED
      BY <2>1, <2>2
  <1>10. CASE ExecuteStatement(p)
    <2> DEFINE to == migrators[p].to
               i == migrators[p].next
               objects == IF i = 1 THEN db ELSE migrators[p].pending
               s == Statements(to)
    <2>1. /\ i \in DOMAIN s /\ InDdl(p) /\ to \in {Latest, None} /\ version # to
          /\ s \in {Upgrade, Downgrade}
      BY <1>3, <1>10 DEF ExecuteStatement, MigratorAlone, MigratorStates, Statements
    <2>2. i \in 1..20 /\ DOMAIN s = 1..20
      BY <2>1, TwentyStatements
    <2>3. objects = Partial(to, i - 1)
      <3>1. CASE i = 1
        <4>1. db = Partial(to, 0)
          BY <2>1, VersionsAssumption, PartialEnds DEF MigrationInv, WholeVersions
        <4> QED
          BY <3>1, <4>1
      <3>2. CASE i # 1
        BY <2>1, <2>2, <3>2 DEF MigrationInv, Locks, Midway
      <3> QED
        BY <3>1, <3>2
    <2> DEFINE n == i - 1
    <2>4. n \in Nat /\ n + 1 = i
      BY <2>2
    <2> HIDE DEF n
    <2>5. ~Refused(Partial(to, n), s[n + 1])
      <3> HIDE DEF i
      <3> QED
        BY <2>1, <2>4, Accepted
    <2>6. ~Refused(objects, s[i])
      BY <2>3, <2>4, <2>5 DEF n
    <2> DEFINE after == After(objects, s[i])
    <2>7. /\ migrators' = [migrators EXCEPT ![p].next = i + 1, ![p].pending = after]
          /\ version' = version
      BY <1>10, <2>6 DEF ExecuteStatement
    <2> HIDE DEF after
    <2> DEFINE m == [migrators[p] EXCEPT !.next = i + 1, !.pending = after]
    <2>8. m.pc = "ddl" /\ m.to = to
      BY <1>3, <2>1 DEF MigratorStates, InDdl
    <2>9. migrators' = [migrators EXCEPT ![p] = m]
      BY <1>3, <2>7
    <2> HIDE DEF m
    <2> QED
      BY <1>4, <1>6, <2>1, <2>7, <2>8, <2>9
  <1>11. CASE CommitMigration(p)
    <2>1. \A q \in Migrators \ {p} : ~InDdl(q)
      BY <1>11 DEF CommitMigration, MigratorAlone, Active, InDdl
    <2> QED
      BY <1>5, <1>11, <2>1 DEF CommitMigration
  <1>12. CASE MigratorDies(p)
    BY <1>5, <1>6, <1>12 DEF MigratorDies
  <1> QED
    BY <1>2, <1>7, <1>8, <1>9, <1>10, <1>11, <1>12

--------------------------------------------------------------------------------
(* Constraints of rows *)

\* The columns that may not be NULL, and those of which one is.
LEMMA Constraints ==
    /\ \A c \in NotNulls :
          <<c.table, c.column>> \in
              {<<"memberships", "org_id">>, <<"design_revisions", "design_id">>,
               <<"inventory_mounts", "share_link_id">>, <<"user_settings", "user_id">>,
               <<"sessions", "user_id">>, <<"email_tokens", "user_id">>}
    /\ \A c \in ExactlyOnes :
          <<c.table, c.columns>> \in
              {<<"designs", {"owner_user_id", "owner_org_id"}>>,
               <<"inventory_parts", {"owner_user_id", "owner_org_id"}>>,
               <<"inventory_mounts", {"mounter_user_id", "mounter_org_id"}>>}
    /\ NotNull("memberships", "org_id") \in NotNulls
    /\ \A t \in {"sessions", "email_tokens", "user_settings"} :
          NotNull(t, "user_id") \in NotNulls
    /\ ExactlyOne("designs", "owner_user_id", "owner_org_id") \in ExactlyOnes
    /\ ExactlyOne("inventory_parts", "owner_user_id", "owner_org_id") \in ExactlyOnes
    /\ ExactlyOne("inventory_mounts", "mounter_user_id", "mounter_org_id") \in ExactlyOnes
  <1>1. \A o \in User : /\ o.kind = "not_null" => o \in {}
                        /\ o.kind = "exactly_one" => o \in {}
    BY Kinds DEF User
  <1>2. \A o \in AuthSession : /\ o.kind = "not_null" => o \in {NotNull("sessions", "user_id")}
                               /\ o.kind = "exactly_one" => o \in {}
    <2>1. /\ Key("sessions", "user_id", "users", "CASCADE").kind \notin {"not_null", "exactly_one"}
          /\ Table("sessions").kind \notin {"not_null", "exactly_one"}
          /\ Unique("sessions", {"token_hash"}).kind \notin {"not_null", "exactly_one"}
          /\ Index("index", "sessions", {"user_id"}, "").kind \notin {"not_null", "exactly_one"}
          /\ NotNull("sessions", "user_id").kind = "not_null"
      BY DEF Table, Key, Index, Unique, NotNull, ExactlyOne, OneOf, Target
    <2> QED
      BY <2>1, Zenon DEF AuthSession, OfUser
  <1>3. \A o \in EmailToken : /\ o.kind = "not_null" => o \in {NotNull("email_tokens", "user_id")}
                              /\ o.kind = "exactly_one" => o \in {}
    <2>1. /\ Key("email_tokens", "user_id", "users", "CASCADE").kind
                 \notin {"not_null", "exactly_one"}
          /\ Table("email_tokens").kind \notin {"not_null", "exactly_one"}
          /\ Unique("email_tokens", {"token_hash"}).kind \notin {"not_null", "exactly_one"}
          /\ Index("index", "email_tokens", {"user_id"}, "").kind \notin {"not_null", "exactly_one"}
          /\ OneOf("email_tokens", "purpose", {"verify", "reset"}).kind
                 \notin {"not_null", "exactly_one"}
          /\ NotNull("email_tokens", "user_id").kind = "not_null"
      BY DEF Table, Key, Index, Unique, NotNull, ExactlyOne, OneOf, Target
    <2> QED
      BY <2>1, Zenon DEF EmailToken, OfUser
  <1>4. \A o \in Organization : /\ o.kind = "not_null" => o \in {}
                                /\ o.kind = "exactly_one" => o \in {}
    BY Kinds DEF Organization
  <1>5. \A o \in Membership : /\ o.kind = "not_null" => o \in {NotNull("memberships", "org_id")}
                              /\ o.kind = "exactly_one" => o \in {}
    <2>1. /\ Table("memberships").kind \notin {"not_null", "exactly_one"}
          /\ Unique("memberships", {"org_id", "user_id"}).kind \notin {"not_null", "exactly_one"}
          /\ OneOf("memberships", "role",
                 {"owner", "admin", "librarian", "member", "viewer"}).kind
                  \notin {"not_null", "exactly_one"}
          /\ Key("memberships", "org_id", "organizations", "CASCADE").kind
                 \notin {"not_null", "exactly_one"}
          /\ Key("memberships", "user_id", "users", "CASCADE").kind
                 \notin {"not_null", "exactly_one"}
          /\ Key("memberships", "invited_by", "users", "SET NULL").kind
                 \notin {"not_null", "exactly_one"}
          /\ NotNull("memberships", "org_id").kind = "not_null"
      BY DEF Table, Key, Index, Unique, NotNull, ExactlyOne, OneOf, Target
    <2> QED
      BY <2>1, Zenon DEF Membership
  <1>6. \A o \in Design : /\ o.kind = "not_null" => o \in {}
                          /\ o.kind = "exactly_one" =>
                                 o \in {ExactlyOne("designs", "owner_user_id", "owner_org_id")}
    <2>1. /\ Key("designs", "owner_user_id", "users", "CASCADE").kind
                 \notin {"not_null", "exactly_one"}
          /\ Key("designs", "owner_org_id", "organizations", "CASCADE").kind
                 \notin {"not_null", "exactly_one"}
          /\ Table("designs").kind \notin {"not_null", "exactly_one"}
          /\ Index("index", "designs", {"owner_user_id"}, "").kind
                 \notin {"not_null", "exactly_one"}
          /\ Index("index", "designs", {"owner_org_id"}, "").kind \notin {"not_null", "exactly_one"}
          /\ Key("designs", "created_by", "users", "SET NULL").kind
                 \notin {"not_null", "exactly_one"}
          /\ ExactlyOne("designs", "owner_user_id", "owner_org_id").kind = "exactly_one"
      BY DEF Table, Key, Index, Unique, NotNull, ExactlyOne, OneOf, Target
    <2> QED
      BY <2>1, Zenon DEF Design, Owned
  <1>7. \A o \in DesignRevision : /\ o.kind = "not_null" =>
                                         o \in {NotNull("design_revisions", "design_id")}
                                  /\ o.kind = "exactly_one" => o \in {}
    <2>1. /\ Table("design_revisions").kind \notin {"not_null", "exactly_one"}
          /\ Unique("design_revisions", {"design_id", "revision"}).kind
                 \notin {"not_null", "exactly_one"}
          /\ Key("design_revisions", "design_id", "designs", "CASCADE").kind
                 \notin {"not_null", "exactly_one"}
          /\ Key("design_revisions", "saved_by", "users", "SET NULL").kind
                 \notin {"not_null", "exactly_one"}
          /\ NotNull("design_revisions", "design_id").kind = "not_null"
      BY DEF Table, Key, Index, Unique, NotNull, ExactlyOne, OneOf, Target
    <2> QED
      BY <2>1, Zenon DEF DesignRevision
  <1>8. \A o \in InventoryPart : /\ o.kind = "not_null" => o \in {}
                                 /\ o.kind = "exactly_one" =>
                                        o \in {ExactlyOne("inventory_parts", "owner_user_id",
                                            "owner_org_id")}
    <2>1. /\ Key("inventory_parts", "owner_user_id", "users", "CASCADE").kind
                 \notin {"not_null", "exactly_one"}
          /\ Key("inventory_parts", "owner_org_id", "organizations", "CASCADE").kind
                 \notin {"not_null", "exactly_one"}
          /\ Table("inventory_parts").kind \notin {"not_null", "exactly_one"}
          /\ OneOf("inventory_parts", "part_type",
                 {"coreShape", "coreMaterial", "core", "bobbin",
                     "wire"}).kind \notin {"not_null", "exactly_one"}
          /\ OneOf("inventory_parts", "source", {"catalog", "private"}).kind
                 \notin {"not_null", "exactly_one"}
          /\ OneOf("inventory_parts", "lifecycle",
                 {"draft", "approved", "deprecated", "obsolete"}).kind
                  \notin {"not_null", "exactly_one"}
          /\ Index("unique", "inventory_parts", {"owner_user_id", "part_type", "name"},
                 "owner_user_id IS NOT NULL AND deleted_at IS NULL").kind
                  \notin {"not_null", "exactly_one"}
          /\ Index("unique", "inventory_parts", {"owner_org_id", "part_type", "name"},
                 "owner_org_id IS NOT NULL AND deleted_at IS NULL").kind
                  \notin {"not_null", "exactly_one"}
          /\ Key("inventory_parts", "created_by", "users", "SET NULL").kind
                 \notin {"not_null", "exactly_one"}
          /\ ExactlyOne("inventory_parts", "owner_user_id", "owner_org_id").kind = "exactly_one"
      BY DEF Table, Key, Index, Unique, NotNull, ExactlyOne, OneOf, Target
    <2> QED
      BY <2>1, Zenon DEF InventoryPart, Owned
  <1>9. \A o \in ShareLink : /\ o.kind = "not_null" => o \in {}
                             /\ o.kind = "exactly_one" => o \in {}
    <2>1. /\ Key("share_links", "owner_user_id", "users", "CASCADE").kind
                 \notin {"not_null", "exactly_one"}
          /\ Key("share_links", "owner_org_id", "organizations", "CASCADE").kind
                 \notin {"not_null", "exactly_one"}
          /\ Table("share_links").kind \notin {"not_null", "exactly_one"}
          /\ Unique("share_links", {"token"}).kind \notin {"not_null", "exactly_one"}
          /\ OneOf("share_links", "kind", {"design", "inventory"}).kind
                 \notin {"not_null", "exactly_one"}
          /\ Target("share_links").kind \notin {"not_null", "exactly_one"}
          /\ Key("share_links", "design_id", "designs", "CASCADE").kind
                 \notin {"not_null", "exactly_one"}
          /\ Key("share_links", "created_by", "users", "SET NULL").kind
                 \notin {"not_null", "exactly_one"}
      BY DEF Table, Key, Index, Unique, NotNull, ExactlyOne, OneOf, Target
    <2> QED
      BY <2>1, Zenon DEF ShareLink, Owned
  <1>10. \A o \in InventoryMount : /\ o.kind = "not_null" =>
                                          o \in {NotNull("inventory_mounts", "share_link_id")}
                                   /\ o.kind = "exactly_one" =>
                                          o \in {ExactlyOne("inventory_mounts",
                                              "mounter_user_id", "mounter_org_id")}
    BY Kinds DEF InventoryMount, Owned
  <1>11. \A o \in UserSettings : /\ o.kind = "not_null" =>
                                        o \in {NotNull("user_settings", "user_id")}
                                 /\ o.kind = "exactly_one" => o \in {}
    BY Kinds DEF UserSettings, OfUser
  <1>12. \A o \in AuditLog : /\ o.kind = "not_null" => o \in {}
                             /\ o.kind = "exactly_one" => o \in {}
    BY Kinds DEF AuditLog
  <1>13. \A o \in NotNulls : o \in {NotNull("sessions", "user_id"),
                NotNull("email_tokens", "user_id"),
                NotNull("memberships", "org_id"),
                NotNull("design_revisions", "design_id"),
                NotNull("inventory_mounts", "share_link_id"),
                NotNull("user_settings", "user_id")}
    BY <1>1, <1>2, <1>3, <1>4, <1>5, <1>6, <1>7, <1>8, <1>9, <1>10, <1>11, <1>12
    DEF NotNulls, OfKind, Metadata
  <1>14. \A o \in ExactlyOnes : o \in {ExactlyOne("designs", "owner_user_id", "owner_org_id"),
                ExactlyOne("inventory_parts", "owner_user_id", "owner_org_id"),
                ExactlyOne("inventory_mounts", "mounter_user_id", "mounter_org_id")}
    BY <1>1, <1>2, <1>3, <1>4, <1>5, <1>6, <1>7, <1>8, <1>9, <1>10, <1>11, <1>12
    DEF ExactlyOnes, OfKind, Metadata
  <1>16. /\ NotNull("memberships", "org_id") \in Metadata
         /\ NotNull("user_settings", "user_id") \in Metadata
         /\ NotNull("sessions", "user_id") \in Metadata
         /\ NotNull("email_tokens", "user_id") \in Metadata
         /\ ExactlyOne("designs", "owner_user_id", "owner_org_id") \in Metadata
         /\ ExactlyOne("inventory_parts", "owner_user_id", "owner_org_id") \in Metadata
         /\ ExactlyOne("inventory_mounts", "mounter_user_id", "mounter_org_id") \in Metadata
    BY DEF Metadata, Membership, UserSettings, AuthSession, EmailToken, OfUser, Design,
           InventoryPart, InventoryMount
  <1> QED
    BY <1>13, <1>14, <1>16, Kinds DEF NotNulls, ExactlyOnes, OfKind

\* The columns of the two that are NULL.
Nulls(r, a, b) == {x \in {a, b} : r.refs[x] = None}

\* One of two columns is NULL if and only if one is and the other is not.
LEMMA OneNull ==
    ASSUME NEW r, NEW a, NEW b, a # b
    PROVE  Cardinality(Nulls(r, a, b)) = 1 <=> (r.refs[a] = None) # (r.refs[b] = None)
  <1>1. Cardinality({a}) = 1 /\ Cardinality({b}) = 1 /\ IsFiniteSet({a}) /\ Cardinality({}) = 0
    BY FS_Singleton, FS_EmptySet
  <1>2. Cardinality({a} \union {b}) = 2
    <2> DEFINE A == {a}
    <2>1. IsFiniteSet(A) /\ Cardinality(A) = 1 /\ b \notin A
      BY <1>1
    <2> HIDE DEF A
    <2>2. Cardinality(A \union {b}) = 2
      BY <2>1, FS_AddElement
    <2> QED
      BY <2>2 DEF A
  <1>3. CASE r.refs[a] = None /\ r.refs[b] = None
    <2>1. Nulls(r, a, b) = {a} \union {b}
      BY <1>3 DEF Nulls
    <2> QED
      BY <1>2, <1>3, <2>1
  <1>4. CASE r.refs[a] = None /\ r.refs[b] # None
    <2>1. Nulls(r, a, b) = {a}
      BY <1>4 DEF Nulls
    <2> QED
      BY <1>1, <1>4, <2>1
  <1>5. CASE r.refs[a] # None /\ r.refs[b] = None
    <2>1. Nulls(r, a, b) = {b}
      BY <1>5 DEF Nulls
    <2> QED
      BY <1>1, <1>5, <2>1
  <1>6. CASE r.refs[a] # None /\ r.refs[b] # None
    <2>1. Nulls(r, a, b) = {}
      BY <1>6 DEF Nulls
    <2> QED
      BY <1>1, <1>6, <2>1
  <1> QED
    BY <1>3, <1>4, <1>5, <1>6

\* Table by table, what the constraints ask of a row that is shaped.
Fit(r) ==
    /\ r.table = "memberships" => r.refs["org_id"] # None
    /\ r.table \in {"sessions", "email_tokens", "user_settings"} => r.refs["user_id"] # None
    /\ r.table \in {"designs", "inventory_parts"} =>
          (r.refs["owner_user_id"] = None) # (r.refs["owner_org_id"] = None)
    /\ r.table = "inventory_mounts" =>
          (r.refs["mounter_user_id"] = None) # (r.refs["mounter_org_id"] = None)
    /\ r.table = "share_links" /\ r.data # "design" =>
          (r.refs["owner_user_id"] = None) # (r.refs["owner_org_id"] = None)

\* A row with the columns of its table passes if and only if it is Fit.
LEMMA PassesFit ==
    ASSUME NEW r, Shaped(r)
    PROVE  Passes(r) <=> Fit(r)
  <1>1. /\ r.table \in DOMAIN Columns
        /\ r.table = "design_revisions" => r.refs["design_id"] # None
        /\ r.table = "inventory_mounts" => r.refs["share_link_id"] # None
        /\ r.table = "share_links" /\ r.data = "design" => r.refs["design_id"] # None
    BY DEF Shaped
  <1>2. /\ Cardinality(Nulls(r, "owner_user_id", "owner_org_id")) = 1
              <=> (r.refs["owner_user_id"] = None) # (r.refs["owner_org_id"] = None)
        /\ Cardinality(Nulls(r, "mounter_user_id", "mounter_org_id")) = 1
              <=> (r.refs["mounter_user_id"] = None) # (r.refs["mounter_org_id"] = None)
    BY OneNull
  <1>3. ASSUME Fit(r) PROVE Passes(r)
    <2>1. \A c \in NotNulls : c.table = r.table => r.refs[c.column] # None
      BY <1>1, <1>3, Constraints DEF Fit
    <2>2. ASSUME NEW c \in ExactlyOnes, c.table = r.table
          PROVE  Cardinality({x \in c.columns : r.refs[x] = None}) = 1
      <3>1. <<c.table, c.columns>> \in
                {<<"designs", {"owner_user_id", "owner_org_id"}>>,
                 <<"inventory_parts", {"owner_user_id", "owner_org_id"}>>,
                 <<"inventory_mounts", {"mounter_user_id", "mounter_org_id"}>>}
        BY Constraints, Zenon
      <3>2. CASE c.columns = {"owner_user_id", "owner_org_id"}
                 /\ c.table \in {"designs", "inventory_parts"}
        BY <1>2, <1>3, <2>2, <3>2 DEF Fit, Nulls
      <3>3. CASE c.columns = {"mounter_user_id", "mounter_org_id"}
                 /\ c.table = "inventory_mounts"
        BY <1>2, <1>3, <2>2, <3>3 DEF Fit, Nulls
      <3> QED
        BY <3>1, <3>2, <3>3
    <2> QED
      BY <1>1, <1>3, <2>1, <2>2 DEF Passes, Fit
  <1>4. ASSUME Passes(r) PROVE Fit(r)
    <2>1. r.table = "memberships" => r.refs["org_id"] # None
      <3> DEFINE c == NotNull("memberships", "org_id")
      <3>1. c \in NotNulls
        BY Constraints, Zenon
      <3>2. c.table = "memberships" /\ c.column = "org_id"
        BY DEF NotNull
      <3> HIDE DEF c
      <3> QED
        BY <1>4, <3>1, <3>2 DEF Passes
    <2>2. ASSUME NEW t \in {"sessions", "email_tokens", "user_settings"}, r.table = t
          PROVE  r.refs["user_id"] # None
      <3> DEFINE c == NotNull(t, "user_id")
      <3>1. c \in NotNulls
        BY Constraints, Zenon
      <3>2. c.table = t /\ c.column = "user_id"
        BY DEF NotNull
      <3> HIDE DEF c
      <3> QED
        BY <1>4, <2>2, <3>1, <3>2 DEF Passes
    <2>3. ASSUME NEW t, NEW a, NEW b, ExactlyOne(t, a, b) \in ExactlyOnes, r.table = t
          PROVE  Cardinality(Nulls(r, a, b)) = 1
      <3> DEFINE c == ExactlyOne(t, a, b)
      <3>1. c.table = t /\ c.columns = {a, b}
        BY DEF ExactlyOne
      <3>2. c \in ExactlyOnes
        BY <2>3
      <3> HIDE DEF c
      <3>3. Cardinality({x \in c.columns : r.refs[x] = None}) = 1
        BY <1>4, <2>3, <3>1, <3>2 DEF Passes
      <3> QED
        BY <3>1, <3>3 DEF Nulls
    <2>4. /\ ExactlyOne("designs", "owner_user_id", "owner_org_id") \in ExactlyOnes
          /\ ExactlyOne("inventory_parts", "owner_user_id", "owner_org_id") \in ExactlyOnes
          /\ ExactlyOne("inventory_mounts", "mounter_user_id", "mounter_org_id") \in ExactlyOnes
      BY Constraints, Zenon
    <2>5. /\ r.table \in {"designs", "inventory_parts"} =>
                (r.refs["owner_user_id"] = None) # (r.refs["owner_org_id"] = None)
          /\ r.table = "inventory_mounts" =>
                (r.refs["mounter_user_id"] = None) # (r.refs["mounter_org_id"] = None)
      BY <1>2, <2>3, <2>4
    <2>6. r.table = "share_links" /\ r.data # "design" =>
             (r.refs["owner_user_id"] = None) # (r.refs["owner_org_id"] = None)
      BY <1>4 DEF Passes
    <2> QED
      BY <2>1, <2>2, <2>5, <2>6 DEF Fit
  <1> QED
    BY <1>3, <1>4

AllPass == \A r \in rows : Passes(r)

\* No cascade breaks a constraint: what ON DELETE SET NULL touches may be NULL.
LEMMA DeletePasses ==
    ASSUME RowsInv, AllPass, NEW u, NEW s \in AfterDelete(rows, {<<"users", u>>})
    PROVE  Passes(s)
  <1> DEFINE x == <<"users", u>>
             gone == WithCascades(rows, {x})
  <1>1. PICK r \in rows : NameOf(r) \notin gone /\ s = Released(r, gone)
    BY DEF AfterDelete, NameOf
  <1>2. Shaped(r) /\ Fit(r)
    BY PassesFit DEF RowsInv, AllPass
  <1>3. /\ s.table = r.table /\ s.id = r.id /\ s.data = r.data
        /\ s = Row(s.table, s.id, s.refs, s.data) /\ DOMAIN s.refs = DOMAIN r.refs
    BY <1>1, <1>2, ReleasedRow
  <1>4. \A c \in Columns[r.table] \ Authors : s.refs[c] = r.refs[c]
    BY <1>1, OwnersKept
  <1> HIDE DEF gone
  <1>5. Shaped(s)
    BY <1>2, <1>3, <1>4, ColumnsKnown DEF Shaped
  <1>6. Fit(s)
    BY <1>2, <1>3, <1>4, ColumnsKnown DEF Fit
  <1> QED
    BY <1>5, <1>6, PassesFit

\* All that an account holds at first is Fit.
LEMMA HoldingsFit ==
    ASSUME NEW u \in Users, NEW r \in Holdings(u)
    PROVE  Fit(r)
  <1>1. /\ u # None /\ <<u, "own">> # None /\ <<u, "org">> # None
        /\ \A v \in Users : v # None
    BY RowsAssumption
  <1>2. \A t, id, refs, data :
           LET x == Row(t, id, refs, data) IN x.table = t /\ x.refs = refs /\ x.data = data
    BY DEF Row
  <1>3. CASE r \in {UserRow(u), Row("organizations", u, <<>>, None),
                    RevisionRow(<<u, "own">>, 1, u), RevisionRow(<<u, "org">>, 1, u)}
    BY <1>2, <1>3 DEF UserRow, RevisionRow, Fit
  <1>4. CASE r \in {Row("sessions", u, [user_id |-> u], None),
                    Row("email_tokens", u, [user_id |-> u], None)}
    BY <1>1, <1>2, <1>4 DEF Fit
  <1>5. CASE r \in {DesignRow(<<u, "own">>, u, None, u), PartRow(<<u, "own">>, u, None, u)}
    BY <1>1, <1>2, <1>5 DEF DesignRow, PartRow, MadeFor, Fit
  <1>6. CASE r \in {DesignRow(<<u, "org">>, None, u, u), PartRow(<<u, "org">>, None, u, u)}
    BY <1>1, <1>2, <1>6 DEF DesignRow, PartRow, MadeFor, Fit
  <1>7. CASE r \in {LinkRow(<<u, "design">>, <<u, "own">>, None, u),
                    LinkRow(<<u, "org">>, <<u, "org">>, None, u)}
    BY <1>1, <1>2, <1>7 DEF LinkRow, Fit
  <1>8. CASE r = LinkRow(<<u, "inventory">>, None, u, u)
    BY <1>1, <1>2, <1>8 DEF LinkRow, Fit
  <1>9. ASSUME NEW v \in Users,
               r = Row("memberships", <<v, u>>, [org_id |-> u, user_id |-> v, invited_by |-> u],
                       IF v = u THEN "owner" ELSE "viewer")
        PROVE  Fit(r)
    BY <1>1, <1>2, <1>9 DEF Fit
  <1>10. ASSUME NEW v \in Users \ {u},
                r = Row("inventory_mounts", <<v, u>>,
                        [share_link_id |-> <<u, "inventory">>, mounter_user_id |-> v,
                         mounter_org_id |-> None], None)
         PROVE  Fit(r)
    BY <1>1, <1>2, <1>10 DEF Fit
  <1> DEFINE singles == {UserRow(u),
                         Row("sessions", u, [user_id |-> u], None),
                         Row("email_tokens", u, [user_id |-> u], None),
                         Row("organizations", u, <<>>, None),
                         DesignRow(<<u, "own">>, u, None, u),
                         DesignRow(<<u, "org">>, None, u, u),
                         RevisionRow(<<u, "own">>, 1, u),
                         RevisionRow(<<u, "org">>, 1, u),
                         PartRow(<<u, "own">>, u, None, u),
                         PartRow(<<u, "org">>, None, u, u),
                         LinkRow(<<u, "design">>, <<u, "own">>, None, u),
                         LinkRow(<<u, "org">>, <<u, "org">>, None, u),
                         LinkRow(<<u, "inventory">>, None, u, u)}
  <1>11. \/ r \in singles
         \/ \E v \in Users :
              r = Row("memberships", <<v, u>>, [org_id |-> u, user_id |-> v, invited_by |-> u],
                      IF v = u THEN "owner" ELSE "viewer")
         \/ \E v \in Users \ {u} :
              r = Row("inventory_mounts", <<v, u>>,
                      [share_link_id |-> <<u, "inventory">>, mounter_user_id |-> v,
                       mounter_org_id |-> None], None)
    BY DEF Holdings
  <1>12. CASE r \in singles
    BY <1>3, <1>4, <1>5, <1>6, <1>7, <1>8, <1>12
  <1> HIDE DEF singles
  <1> QED
    BY <1>9, <1>10, <1>11, <1>12

\* Rows meet the constraints at first.
LEMMA InitPasses == ASSUME AccountInit PROVE AllPass
  <1>1. \A r \in rows : Fit(r)
    BY HoldingsFit DEF AccountInit
  <1> QED
    BY <1>1, InitRows, PassesFit DEF RowsInv, AllPass

\* Rows that are written, or left by a deletion, meet the constraints.
LEMMA AllPassNext ==
    ASSUME RowsInv, ServingInv, AllPass, [AccountNext]_accountVars
    PROVE  AllPass'
  <1>0. RowsInv'
    BY RowsNext
  <1>1. CASE UNCHANGED rows
    BY <1>1 DEF AllPass
  <1>2. ASSUME NEW w \in Workers, CommitSave(w) PROVE AllPass'
    <2> DEFINE new == RevisionRow(Served(w).value, Served(w).found, Served(w).user)
    <2>1. rows' = rows \/ rows' = rows \union {new}
      BY <1>2 DEF CommitSave
    <2>2. new.table = "design_revisions"
      BY NewRevision
    <2> HIDE DEF new
    <2>3. ASSUME new \in rows' PROVE Passes(new)
      BY <1>0, <2>2, <2>3, PassesFit DEF RowsInv, Fit
    <2> QED
      BY <2>1, <2>3 DEF AllPass
  <1>3. ASSUME NEW w \in Workers, WriteSettings(w) PROVE AllPass'
    <2> DEFINE u == Served(w).user
               new == SettingsRow(u, Served(w).value)
    <2>1. u # None
      BY <1>3, RowsAssumption DEF WriteSettings, ServingInv, At, Served
    <2>2. new.table = "user_settings" /\ new.refs["user_id"] = u
      BY DEF SettingsRow, Row
    <2>3. UNCHANGED rows \/ rows' = (rows \ Settings(u)) \union {new}
      BY <1>3 DEF WriteSettings
    <2> HIDE DEF new
    <2>4. ASSUME rows' = (rows \ Settings(u)) \union {new} PROVE Passes(new)
      BY <1>0, <2>1, <2>2, <2>4, PassesFit DEF RowsInv, Fit
    <2> QED
      BY <1>1, <2>3, <2>4 DEF AllPass
  <1>4. ASSUME NEW w \in Workers, DeleteAccount(w) PROVE AllPass'
    BY <1>1, <1>4 DEF DeleteAccount, AllPass
  <1>5. ASSUME NEW w \in Workers,
               \/ StartServing(w) \/ ReadSettings(w) \/ AnswerSettings(w)
               \/ FindDesign(w) \/ FindNewest(w) \/ AnswerSave(w)
               \/ ListExport(w) \/ ExportDesign(w) \/ EndExport(w)
        PROVE  AllPass'
    BY <1>1, <1>5 DEF StartServing, ReadSettings, AnswerSettings, FindDesign, FindNewest,
                      AnswerSave, ListExport, ExportDesign, EndExport
  <1> QED
    BY <1>1, <1>2, <1>3, <1>4, <1>5 DEF AccountNext, accountVars

--------------------------------------------------------------------------------
(* A request that is alone *)

\* What a request has read is still so, and it has missed nothing.
Quiet(q) ==
    /\ q.answer # 500
    /\ q.pc # "free" => Exists(rows, "users", q.user)
    /\ q.pc = "write" => q.found = (Settings(q.user) # {})
    /\ q.pc = "answer" => Settings(q.user) # {}
    /\ q.pc \in {"newest", "commit", "saved"} => Exists(rows, "designs", q.value)
    /\ q.pc = "commit" => q.found \in {None, NewestOf(q.value).data + 1}
    /\ q.pc = "export" => q.exported = {}
    /\ q.pc = "revisions" =>
          /\ q.todo \subseteq {d.id : d \in DesignsOf(q.user)}
          /\ q.exported = {NewestOf(d.id).id :
                              d \in {e \in DesignsOf(q.user) : e.id \notin q.todo}}

OneServed == \A v, w \in Workers : ~At(v, "free") /\ ~At(w, "free") => v = w

RequestAlone == OneServed /\ \A w \in Workers : Quiet(serving[w])

\* The one request that is served speaks for all.
LEMMA OthersQuiet ==
    ASSUME RequestAlone, OneServed', NEW w \in Workers,
           \A v \in Workers \ {w} : serving'[v] = serving[v],
           ~At(w, "free") \/ ~At(w, "free")', Quiet(serving[w])'
    PROVE  RequestAlone'
  <1>1. ASSUME NEW v \in Workers \ {w} PROVE Quiet(serving[v])'
    <2>1. serving'[v].pc = "free" /\ serving'[v].answer # 500
      BY DEF RequestAlone, OneServed, At, Quiet
    <2> QED
      BY <2>1 DEF Quiet
  <1> QED
    BY <1>1 DEF RequestAlone

\* A request may end with any answer but 500.
LEMMA RepliesQuiet ==
    ASSUME ServingInv, RequestAlone, OneServed', NEW w \in Workers, ~At(w, "free"),
           NEW a, a # 500, Reply(w, a)
    PROVE  RequestAlone'
  <1>1. DOMAIN Free = {"pc", "user", "value", "found", "todo", "exported", "answer"}
    BY DEF Free
  <1>4. [Free EXCEPT !.answer = a].pc = "free" /\ [Free EXCEPT !.answer = a].answer = a
    BY <1>1 DEF Free
  <1>5. /\ serving'[w] = [Free EXCEPT !.answer = a]
        /\ \A v \in Workers \ {w} : serving'[v] = serving[v]
    BY DEF Reply, ServingInv
  <1>2. /\ serving'[w].pc = "free" /\ serving'[w].answer = a
        /\ \A v \in Workers \ {w} : serving'[v] = serving[v]
    BY <1>4, <1>5
  <1>3. Quiet(serving[w])'
    BY <1>2 DEF Quiet
  <1> QED
    BY <1>2, <1>3, OthersQuiet

\* Steps of requests of which one at a time is served.
LEMMA RequestAloneNext ==
    ASSUME RowsInv, AllPass, ServingInv, RequestAlone, AccountNext, AccountAlone
    PROVE  RequestAlone'
  <1> DEFINE S == {w \in Workers : serving'[w].pc # "free"}
  <1>1. IsFiniteSet(S) /\ Cardinality(S) <= 1
    BY AloneAssumption, FS_Subset DEF AccountAlone
  <1>2. OneServed'
    <2>1. \A v, w \in S : v = w
      <3> HIDE DEF S
      <3> QED
        BY <1>1, AtMostOne
    <2> QED
      BY <2>1 DEF OneServed, At
  <1> HIDE DEF S
  <1>4. DOMAIN Free = {"pc", "user", "value", "found", "todo", "exported", "answer"}
    BY DEF Free
  <1>5. \A w \in Workers : DOMAIN serving[w] = DOMAIN Free /\ Quiet(serving[w])
    BY DEF ServingInv, RequestAlone
  <1>6. DOMAIN serving = Workers
    BY DEF ServingInv
  <1>7. UNCHANGED rows => \A x, t : /\ Exists(rows, t, x)' = Exists(rows, t, x)
                                    /\ Settings(x)' = Settings(x)
                                    /\ DesignsOf(x)' = DesignsOf(x)
                                    /\ NewestOf(x)' = NewestOf(x)
    BY DEF Exists, Settings, DesignsOf, NewestOf, RevisionsOf, RowsOf
  <1>8. ASSUME NEW w \in Workers, StartServing(w) PROVE RequestAlone'
    <2>6. PICK u \in Users, pc \in {"put", "save", "export", "delete"} :
             /\ Exists(rows, "users", u)
             /\ \E v \in Sent(u, pc) :
                   serving' = [serving EXCEPT ![w] =
                                  [Free EXCEPT !.pc = pc, !.user = u, !.value = v]]
      BY <1>8 DEF StartServing
    <2>1. PICK v \in Sent(u, pc) :
             /\ Exists(rows, "users", u)
             /\ serving' = [serving EXCEPT ![w] =
                               [Free EXCEPT !.pc = pc, !.user = u, !.value = v]]
      BY <2>6
    <2>2. /\ serving'[w].pc = pc /\ serving'[w].user = u /\ serving'[w].answer = None
          /\ serving'[w].exported = {}
      BY <1>6, <2>1 DEF Free
    <2>3. \A v2 \in Workers \ {w} : serving'[v2] = serving[v2]
      BY <1>6, <2>1
    <2>4. Exists(rows', "users", u)
      BY <1>8, <2>1 DEF StartServing, Exists
    <2>5. Quiet(serving[w])'
      BY <2>2, <2>4, RowsAssumption DEF Quiet
    <2> QED
      BY <1>2, <2>2, <2>3, <2>5, OthersQuiet DEF At
  <1>9. ASSUME NEW w \in Workers, ReadSettings(w) PROVE RequestAlone'
    <2>1. CASE Reply(w, BadRequest)
      BY <1>2, <1>9, <2>1, RepliesQuiet DEF ReadSettings, At, BadRequest
    <2>2. CASE ~Reply(w, BadRequest)
      <3>1. serving' = [serving EXCEPT ![w].pc = "write",
                                       ![w].found = Settings(Served(w).user) # {}]
        BY <1>9, <2>2 DEF ReadSettings
      <3>2. /\ serving'[w].pc = "write" /\ serving'[w].user = serving[w].user
            /\ serving'[w].answer = serving[w].answer
            /\ serving'[w].found = (Settings(serving[w].user) # {})
            /\ \A v \in Workers \ {w} : serving'[v] = serving[v]
        BY <1>4, <1>5, <1>6, <3>1 DEF Served
      <3>3. Quiet(serving[w])'
        BY <1>5, <1>7, <1>9, <3>2 DEF ReadSettings, Quiet, At
      <3> QED
        BY <1>2, <1>9, <3>2, <3>3, OthersQuiet DEF ReadSettings, At
    <2> QED
      BY <2>1, <2>2
  <1>10. ASSUME NEW w \in Workers, WriteSettings(w) PROVE RequestAlone'
    <2> DEFINE u == Served(w).user
               row == SettingsRow(u, Served(w).value)
    <2>1. serving[w].pc = "write" /\ Exists(rows, "users", u) /\ WritesRow(w)
      BY <1>5, <1>10 DEF WriteSettings, At, Quiet, Served, WritesRow
    <2>2. row.table = "user_settings" /\ row.refs["user_id"] = u /\ row.id = u
      BY DEF SettingsRow, Row
    <2> HIDE DEF row
    <2>3. KeysHold(row, rows)
      <3> SUFFICES ASSUME NEW k \in Keys, k.table = "user_settings"
                   PROVE  Exists(rows, k.to, row.refs[k.column])
        BY <2>2 DEF KeysHold
      <3>1. Known(k) /\ Columns["user_settings"] = {"user_id"}
        BY KeysOfTables DEF Columns
      <3>2. k.column = "user_id" /\ k.to = "users"
        BY <3>1, Meanings DEF Known
      <3> QED
        BY <2>1, <2>2, <3>2
    <2>4. rows' = (rows \ Settings(u)) \union {row} /\ Step(w, "answer")
      BY <1>10, <2>1, <2>3 DEF WriteSettings, row
    <2>5. /\ serving'[w].pc = "answer" /\ serving'[w].user = u
          /\ serving'[w].answer = serving[w].answer
          /\ \A v \in Workers \ {w} : serving'[v] = serving[v]
      BY <1>4, <1>5, <1>6, <2>4 DEF Step, Served
    <2>6. row \in {r \in RowsOf(rows', "user_settings") : r.id = u}
      BY <2>2, <2>4 DEF RowsOf
    <2>7. Exists(rows', "users", u)
      BY <2>1, <2>4 DEF Exists, Settings, RowsOf
    <2> HIDE DEF u
    <2>8. Quiet(serving[w])'
      <3>1. serving[w].answer # 500
        BY <1>5 DEF Quiet
      <3>2. /\ {r \in RowsOf(rows', "user_settings") : r.id = serving'[w].user} # {}
            /\ Exists(rows', "users", serving'[w].user)
        BY <2>5, <2>6, <2>7
      <3> QED
        BY <2>5, <3>1, <3>2 DEF Quiet, Settings
    <2> QED
      BY <1>2, <2>1, <2>5, <2>8, OthersQuiet DEF At
  <1>11. ASSUME NEW w \in Workers, AnswerSettings(w) PROVE RequestAlone'
    <2>1. Settings(Served(w).user) # {} /\ ~At(w, "free")
      BY <1>5, <1>11 DEF AnswerSettings, At, Quiet, Served
    <2>2. Reply(w, 200)
      BY <1>11, <2>1 DEF AnswerSettings
    <2> QED
      BY <1>2, <2>1, <2>2, RepliesQuiet
  <1>12. ASSUME NEW w \in Workers, ListExport(w) PROVE RequestAlone'
    <2> DEFINE u == Served(w).user
               all == {d.id : d \in DesignsOf(u)}
    <2>1. serving[w].pc = "export" /\ Exists(rows, "users", u) /\ serving[w].exported = {}
          /\ serving[w].answer # 500
      BY <1>5, <1>12 DEF ListExport, At, Quiet, Served
    <2>2. /\ serving'[w].pc = "revisions" /\ serving'[w].user = u /\ serving'[w].exported = {}
          /\ serving'[w].answer = serving[w].answer /\ serving'[w].todo = all
          /\ \A v \in Workers \ {w} : serving'[v] = serving[v]
      BY <1>4, <1>5, <1>6, <1>12, <2>1 DEF ListExport, Served
    <2>3. UNCHANGED rows
      BY <1>12 DEF ListExport
    <2>4. {e \in DesignsOf(u) : e.id \notin all} = {}
      OBVIOUS
    <2> HIDE DEF u
    <2>5. /\ serving'[w].todo \subseteq {d.id : d \in DesignsOf(serving[w].user)'}
          /\ serving'[w].exported =
                {NewestOf(d.id)'.id :
                     d \in {e \in DesignsOf(serving[w].user)' : e.id \notin serving'[w].todo}}
          /\ Exists(rows', "users", serving'[w].user)
      BY <1>7, <2>1, <2>2, <2>3, <2>4
    <2>6. Quiet(serving[w])'
      BY <2>1, <2>2, <2>5 DEF Quiet
    <2> QED
      BY <1>2, <2>1, <2>2, <2>6, OthersQuiet DEF At
  <1>13. ASSUME NEW w \in Workers, ExportDesign(w) PROVE RequestAlone'
    <2>0. PICK u, todo : u = serving[w].user /\ todo = serving[w].todo
      OBVIOUS
    <2> DEFINE Done(t) == {NewestOf(d.id).id : d \in {e \in DesignsOf(u) : e.id \notin t}}
    <2>1. /\ serving[w].pc = "revisions" /\ serving[w].answer # 500 /\ Exists(rows, "users", u)
          /\ todo \subseteq {d.id : d \in DesignsOf(u)}
          /\ serving[w].exported = Done(todo)
      BY <1>5, <1>13, <2>0 DEF ExportDesign, At, Quiet
    <2>2. PICK i \in todo :
              IF RevisionsOf(i) = {} THEN Reply(w, 500)
              ELSE serving' = [serving EXCEPT ![w].todo = @ \ {i},
                                              ![w].exported = @ \union {NewestOf(i).id}]
      BY <1>13, <2>0 DEF ExportDesign, Served
    <2>3. PICK d \in DesignsOf(u) : i = d.id
      BY <2>1
    <2>4. RevisionsOf(i) # {}
      BY <2>3, NewestRevision DEF RowsInv, DesignsOf
    <2>5. /\ serving'[w].pc = "revisions" /\ serving'[w].user = u
          /\ serving'[w].answer = serving[w].answer
          /\ serving'[w].todo = todo \ {i}
          /\ serving'[w].exported = Done(todo) \union {NewestOf(i).id}
          /\ \A v \in Workers \ {w} : serving'[v] = serving[v]
      BY <1>4, <1>5, <1>6, <2>0, <2>1, <2>2, <2>4
    <2>6. Done(todo) \union {NewestOf(i).id} = Done(todo \ {i})
      BY <2>3
    <2>7. UNCHANGED rows
      BY <1>13 DEF ExportDesign
    <2>8. /\ DesignsOf(u)' = DesignsOf(u) /\ Exists(rows', "users", u)
          /\ \A x : NewestOf(x)' = NewestOf(x)
      BY <1>7, <2>1, <2>7
    <2>9. /\ todo \ {i} \subseteq {e.id : e \in DesignsOf(u)'}
          /\ Done(todo \ {i}) =
                {NewestOf(e.id)'.id : e \in {f \in DesignsOf(u)' : f.id \notin todo \ {i}}}
      BY <2>1, <2>8
    <2> HIDE DEF Done
    <2>10. /\ serving'[w].todo \subseteq {e.id : e \in DesignsOf(serving[w].user)'}
           /\ serving'[w].exported =
                 {NewestOf(e.id)'.id :
                     e \in {f \in DesignsOf(serving[w].user)' : f.id \notin serving'[w].todo}}
      BY <2>5, <2>6, <2>9
    <2>11. Quiet(serving[w])'
      BY <2>1, <2>5, <2>8, <2>10 DEF Quiet
    <2> QED
      BY <1>2, <2>0, <2>1, <2>5, <2>11, OthersQuiet DEF At
  <1>14. ASSUME NEW w \in Workers, EndExport(w) PROVE RequestAlone'
    BY <1>2, <1>14, RepliesQuiet DEF EndExport, At
  <1>15. ASSUME NEW w \in Workers, DeleteAccount(w) PROVE RequestAlone'
    <2>1. \A r \in AfterDelete(rows, {<<"users", Served(w).user>>}) : Passes(r)
      BY DeletePasses
    <2>2. Reply(w, BadRequest) \/ Reply(w, 200)
      BY <1>15, <2>1 DEF DeleteAccount
    <2> QED
      BY <1>2, <1>15, <2>2, RepliesQuiet DEF DeleteAccount, At, BadRequest
  <1>16. ASSUME NEW w \in Workers, FindDesign(w) PROVE RequestAlone'
    <2>1. CASE Reply(w, BadRequest)
      BY <1>2, <1>16, <2>1, RepliesQuiet DEF FindDesign, At, BadRequest
    <2>2. CASE ~Reply(w, BadRequest)
      <3>1. /\ Step(w, "newest")
            /\ \E d \in Editable(Served(w).user) : d.id = Served(w).value
        BY <1>16, <2>2 DEF FindDesign
      <3>2. /\ serving'[w].pc = "newest" /\ serving'[w].user = serving[w].user
            /\ serving'[w].value = serving[w].value
            /\ serving'[w].answer = serving[w].answer
            /\ \A v \in Workers \ {w} : serving'[v] = serving[v]
        BY <1>4, <1>5, <1>6, <3>1 DEF Step
      <3>3. Exists(rows, "designs", serving[w].value)
        BY <3>1 DEF Editable, DesignsOf, RowsOf, Exists, Served
      <3>4. Quiet(serving[w])'
        BY <1>5, <1>7, <1>16, <3>2, <3>3 DEF FindDesign, Quiet, At
      <3> QED
        BY <1>2, <1>16, <3>2, <3>4, OthersQuiet DEF FindDesign, At
    <2> QED
      BY <2>1, <2>2
  <1>17. ASSUME NEW w \in Workers, FindNewest(w) PROVE RequestAlone'
    <2> DEFINE d == serving[w].value
    <2>1. serving[w].pc = "newest" /\ Exists(rows, "designs", d)
      BY <1>5, <1>17 DEF FindNewest, At, Quiet
    <2>2. RevisionsOf(d) # {}
      BY <2>1 DEF Exists, RowsInv, RowsOf, HasNewest
    <2>3. PICK n \in {None, NewestOf(d).data + 1} :
              serving' = [serving EXCEPT ![w].pc = "commit", ![w].found = n]
      BY <1>17, <2>2 DEF FindNewest, Served
    <2>4. /\ serving'[w].pc = "commit" /\ serving'[w].user = serving[w].user
          /\ serving'[w].value = serving[w].value /\ serving'[w].found = n
          /\ serving'[w].answer = serving[w].answer
          /\ \A v \in Workers \ {w} : serving'[v] = serving[v]
      BY <1>4, <1>5, <1>6, <2>3
    <2>5. UNCHANGED rows
      BY <1>17 DEF FindNewest
    <2>6. Quiet(serving[w])'
      BY <1>5, <1>7, <2>1, <2>4, <2>5 DEF Quiet
    <2> QED
      BY <1>2, <2>1, <2>4, <2>6, OthersQuiet DEF At
  <1>18. ASSUME NEW w \in Workers, CommitSave(w) PROVE RequestAlone'
    <2> DEFINE d == Served(w).value
               n == Served(w).found
               u == Served(w).user
               new == RevisionRow(d, n, u)
    <2>1. /\ serving[w].pc = "commit" /\ Exists(rows, "designs", d) /\ Exists(rows, "users", u)
          /\ n \in {None, NewestOf(d).data + 1}
      BY <1>5, <1>18 DEF CommitSave, At, Quiet, Served
    <2>2. /\ new.table = "design_revisions" /\ new.id = <<d, n>>
          /\ new.refs["design_id"] = d /\ new.refs["saved_by"] = u
      BY NewRevision
    <2> HIDE DEF new
    <2>3. KeysHold(new, rows)
      <3> SUFFICES ASSUME NEW k \in Keys, k.table = "design_revisions"
                   PROVE  Exists(rows, k.to, new.refs[k.column])
        BY <2>2 DEF KeysHold
      <3>1. Known(k) /\ Columns["design_revisions"] = {"design_id", "saved_by"}
        BY KeysOfTables DEF Columns
      <3>2. \/ k.column = "design_id" /\ k.to = "designs"
            \/ k.column = "saved_by" /\ k.to = "users"
        BY <3>1, Meanings DEF Known
      <3> QED
        BY <2>1, <2>2, <3>2
    <2>4. n # None => ~Exists(rows, "design_revisions", <<d, n>>)
      <3> SUFFICES ASSUME n # None, NEW r \in rows, r.table = "design_revisions",
                          r.id = <<d, n>>
                   PROVE  FALSE
        BY DEF Exists
      <3>1. r.id = <<r.refs["design_id"], r.data>> /\ r.data \in Nat
        BY DEF RowsInv, Shaped
      <3>2. r \in RevisionsOf(d) /\ r.data = n
        BY <3>1 DEF RevisionsOf, RowsOf
      <3>3. HasNewest(d) /\ NewestOf(d).data \in Nat
        BY <3>2, RevisionsFound
      <3>4. NewestOf(d).data >= r.data
        BY <3>2, <3>3, NewestRevision
      <3> QED
        BY <2>1, <3>1, <3>2, <3>3, <3>4
    <2>5. /\ Step(w, "saved") /\ rows \subseteq rows'
      BY <1>18, <2>1, <2>2, <2>3, <2>4 DEF CommitSave, new
    <2>6. /\ serving'[w].pc = "saved" /\ serving'[w].user = serving[w].user
          /\ serving'[w].value = serving[w].value
          /\ serving'[w].answer = serving[w].answer
          /\ \A v \in Workers \ {w} : serving'[v] = serving[v]
      BY <1>4, <1>5, <1>6, <2>5 DEF Step
    <2>7. Exists(rows', "designs", serving[w].value) /\ Exists(rows', "users", serving[w].user)
      BY <2>1, <2>5 DEF Exists, Served
    <2>8. Quiet(serving[w])'
      BY <1>5, <2>6, <2>7 DEF Quiet
    <2> QED
      BY <1>2, <2>1, <2>6, <2>8, OthersQuiet DEF At
  <1>19. ASSUME NEW w \in Workers, AnswerSave(w) PROVE RequestAlone'
    <2>1. Exists(rows, "designs", Served(w).value) /\ ~At(w, "free")
      BY <1>5, <1>19 DEF AnswerSave, At, Quiet, Served
    <2>2. Reply(w, 200)
      BY <1>19, <2>1 DEF AnswerSave
    <2> QED
      BY <1>2, <2>1, <2>2, RepliesQuiet
  <1> QED
    BY <1>8, <1>9, <1>10, <1>11, <1>12, <1>13, <1>14, <1>15, <1>16, <1>17, <1>18, <1>19
    DEF AccountNext

\* What is said of requests only depends on accounts.
LEMMA SameRequests ==
    ASSUME RequestAlone, UNCHANGED accountVars
    PROVE  RequestAlone'
  <1>1. /\ \A x, t : Exists(rows, t, x)' = Exists(rows, t, x)
        /\ \A x : Settings(x)' = Settings(x) /\ DesignsOf(x)' = DesignsOf(x)
        /\ \A x : NewestOf(x)' = NewestOf(x)
    BY DEF accountVars, Exists, Settings, DesignsOf, NewestOf, RevisionsOf, RowsOf
  <1>2. ASSUME NEW w \in Workers PROVE Quiet(serving[w])'
    BY <1>1 DEF RequestAlone, Quiet, accountVars
  <1> QED
    BY <1>2 DEF RequestAlone, OneServed, At, accountVars

--------------------------------------------------------------------------------
(* The parts together *)

\* What holds of each part whatever happens, and what holds of requests and
\* processes that are alone.
ServiceInv ==
    /\ PoolInv /\ MigrationInv
    /\ RowsInv /\ ServingInv /\ AllPass
    /\ alone => EngineAlone /\ MigratorAlone /\ RequestAlone

\* At first nobody moves.
LEMMA ServiceInvInit == ASSUME Init PROVE ServiceInv
  <1>1. PoolInv /\ MigrationInv /\ RowsInv /\ ServingInv /\ AllPass
    BY PoolInvInit, PoolAssumption, MigrationInvInit, InitRows, ServingInit, InitPasses DEF Init
  <1>2. EngineAlone
    <2>1. Cardinality({}) = 0
      BY FS_EmptySet
    <2> QED
      BY <2>1 DEF Init, PoolInit, Idle, EngineAlone, Initializing, Making, In
  <1>3. MigratorAlone
    BY DEF Init, MigrationInit, MigratorAlone, Active, InDdl
  <1>4. RequestAlone
    BY RowsAssumption DEF Init, AccountInit, Free, RequestAlone, OneServed, At, Quiet
  <1> QED
    BY <1>1, <1>2, <1>3, <1>4 DEF ServiceInv

\* One part moves, and the others keep what they have.
LEMMA ServiceInvNext == ASSUME ServiceInv, [Next]_serviceVars PROVE ServiceInv'
  <1>1. PoolMoves => PoolNext
    BY NarrowNext DEF PoolMoves
  <1>2. /\ [PoolNext]_poolVars /\ [AccountNext]_accountVars /\ [MigrationNext]_migrationVars
        /\ alone' => alone
    <2>1. CASE PoolMoves
      <3>1. /\ PoolNext /\ accountVars' = accountVars /\ migrationVars' = migrationVars
        BY <1>1, <2>1 DEF PoolMoves
      <3>2. alone' = (alone /\ Cardinality(Initializing(requests')) <= 1)
        BY <2>1 DEF PoolMoves
      <3> QED
        BY <3>1, <3>2
    <2>2. CASE TelemetryMoves
      BY <2>2 DEF TelemetryMoves
    <2>3. CASE AccountMoves
      <3>1. /\ AccountNext /\ poolVars' = poolVars /\ migrationVars' = migrationVars
        BY <2>3 DEF AccountMoves
      <3>2. alone' = (alone /\ AccountAlone)
        BY <2>3 DEF AccountMoves
      <3> QED
        BY <3>1, <3>2
    <2>4. CASE MigrationMoves
      <3>1. /\ MigrationNext /\ poolVars' = poolVars /\ accountVars' = accountVars
        BY <2>4 DEF MigrationMoves
      <3>2. alone' = (alone /\ MigrationAlone)
        BY <2>4 DEF MigrationMoves
      <3> QED
        BY <3>1, <3>2
    <2>5. CASE UNCHANGED serviceVars
      BY <2>5 DEF serviceVars
    <2> QED
      BY <2>1, <2>2, <2>3, <2>4, <2>5 DEF Next
  <1>3. PoolInv' /\ MigrationInv' /\ RowsInv' /\ ServingInv' /\ AllPass'
    BY <1>2, PoolInvNext, PoolAssumption, MigrationInvNext, RowsNext, ServingNext, AllPassNext
    DEF ServiceInv
  <1>4. ASSUME alone' PROVE EngineAlone'
    <2>1. CASE UNCHANGED poolVars
      BY <1>2, <1>4, <2>1 DEF ServiceInv, EngineAlone, Initializing, In, poolVars
    <2>2. CASE PoolMoves
      <3>1. Cardinality(Initializing(requests')) <= 1
        BY <1>4, <2>2 DEF PoolMoves
      <3> QED
        BY <1>1, <1>2, <1>4, <2>2, <3>1, EngineAloneNext DEF ServiceInv
    <2> QED
      BY <2>1, <2>2 DEF Next, serviceVars, TelemetryMoves, AccountMoves, MigrationMoves
  <1>5. ASSUME alone' PROVE MigratorAlone'
    <2>1. CASE UNCHANGED migrationVars
      BY <1>2, <1>5, <2>1 DEF ServiceInv, MigratorAlone, Active, InDdl, migrationVars
    <2>2. CASE MigrationMoves
      BY <1>2, <1>5, <2>2, MigratorAloneNext DEF ServiceInv, MigrationMoves
    <2> QED
      BY <2>1, <2>2 DEF Next, serviceVars, PoolMoves, TelemetryMoves, AccountMoves
  <1>6. ASSUME alone' PROVE RequestAlone'
    <2>1. CASE UNCHANGED accountVars
      BY <1>2, <1>6, <2>1, SameRequests DEF ServiceInv
    <2>2. CASE AccountMoves
      BY <1>2, <1>6, <2>2, RequestAloneNext DEF ServiceInv, AccountMoves
    <2> QED
      BY <2>1, <2>2 DEF Next, serviceVars, PoolMoves, TelemetryMoves, MigrationMoves
  <1> QED
    BY <1>3, <1>4, <1>5, <1>6 DEF ServiceInv

\* One request or process at a time has no reason to fail: one engine is made
\* (get_engine), put_settings, export and delete_account answer, an export is the
\* newest revision of each design, and no statement of a migration is refused.
THEOREM AloneNothingFailsHolds == Spec => []AloneNothingFails
  <1>1. ASSUME ServiceInv PROVE AloneNothingFails
    <2>1. SUFFICES ASSUME alone PROVE AloneNothingFails
      BY DEF AloneNothingFails
    <2>2. EngineAlone /\ MigratorAlone /\ RequestAlone
      BY <1>1, <2>1 DEF ServiceInv
    <2>3. ASSUME NEW w \in Workers
          PROVE  /\ serving[w].answer # 500
                 /\ serving[w].pc = "revisions" /\ serving[w].todo = {} =>
                       serving[w].exported =
                          {NewestOf(d.id).id : d \in DesignsOf(serving[w].user)}
      BY <2>2 DEF RequestAlone, Quiet
    <2> QED
      BY <2>2, <2>3 DEF AloneNothingFails, EngineAlone, MigratorAlone
  <1> QED
    BY <1>1, ServiceInvInit, ServiceInvNext, PTL DEF Spec
================================================================================
