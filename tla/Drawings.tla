-------------------------------- MODULE Drawings --------------------------------
(***************************************************************************)
(* The 3D model and drawing routes of api.py, the Celery tasks of          *)
(* app/backend/plotter.py and the cache of app/backend/models.py.          *)
(*                                                                         *)
(* The routes are coroutines that block: between reading the request and   *)
(* answering it nothing yields, so the one event loop serves one of them   *)
(* at a time, while routes that run in threads may purge the queue under   *)
(* it.  Only the result of a request's newest task is waited for; a task   *)
(* that is not awaited still runs, and its result is dropped.              *)
(***************************************************************************)
EXTENDS Naturals, Sequences

CONSTANTS
    Shapes,         \* cores, as the models normalize them
    Valid,          \* those that can be built
    Products,       \* what clients ask for
    Processes,      \* processes of the Celery worker
    Prefetch,       \* tasks the worker reserves ahead of its processes
    MaxRetries,     \* number_retries
    UseCelery,      \* USE_CELERY
    BrokerFails,    \* whether the broker may be unreachable
    Restarts,       \* whether the worker may be restarted
    CacheUp,        \* whether the cache's database can be opened
    QueueBound,     \* bound of the model: no new request above this queue length
    Api,            \* the API's own process, when it runs a task itself
    Nothing,        \* what a task returned: None
    Failure,        \* or raised
    WrongDimensions,    \* the answer 418
    ServerError,        \* the answer 500
    None

ASSUME ProductsAssumption == Products \subseteq {"stl", "stp", "drawing", "gapping"}
ASSUME NumbersAssumption ==
    /\ Prefetch \in Nat /\ MaxRetries \in Nat \ {0} /\ QueueBound \in Nat
ASSUME SetsAssumption == Valid \subseteq Shapes /\ Api \notin Processes

VARIABLES
    handler,        \* the request being served, or the last one and its answer
    result,         \* the reply of the awaited task
    queue,          \* tasks in the broker
    reserved,       \* tasks the worker has fetched
    runners,        \* what each process, and the API itself, is running
    files,          \* the model file of each core: whole, or who opened it last
    cache           \* table plot_cache

vars == <<handler, result, queue, reserved, runners, files, cache>>

Runners == Processes \union {Api}

Tasks == [product : Products, shape : Shapes, awaited : BOOLEAN]

\* kind is what the data really is, whole whether it was read from a whole file.
Data == [kind : Products, shape : Shapes, whole : BOOLEAN]

Outcomes == Data \union {Nothing, Failure}

Answers == Data \union {WrongDimensions, ServerError}

ASSUME MarksAssumption ==
    /\ \A mark \in {None, Nothing, Failure, WrongDimensions, ServerError} :
          mark \notin Data \union Tasks
    /\ None \notin {Nothing, Failure, WrongDimensions, ServerError}
    /\ Nothing # Failure /\ WrongDimensions # ServerError

Handlers == [pc : {"idle", "publish", "waiting", "direct"},
             product : Products \union {None}, shape : Shapes \union {None},
             tries : 0..MaxRetries, answer : Answers \union {None}]

RunnerStates == [pc : {"idle", "read", "build", "building", "file", "insert"},
                 task : Tasks \union {None}, data : Data \union {None}]

Idle == [pc |-> "idle", task |-> None, data |-> None]

Running(task) == [pc |-> "read", task |-> task, data |-> None]

\* Mutant: the hash leaves the dimensions out.
Key_NoShape(product, shape) ==
    <<IF product = "drawing" THEN "coreShape" ELSE "core", CHOOSE s \in Shapes : TRUE>>

\* The hash of {"core": core} or {"coreShape": coreShape}: the format of the
\* model is not in it.
Key(product, shape) ==
    <<IF product = "drawing" THEN "coreShape" ELSE "core", shape>>

Keys == {"core", "coreShape"} \X Shapes

--------------------------------------------------------------------------------
(* The route *)

StartRequest ==
    /\ handler.pc = "idle"
    /\ Len(queue) + Len(reserved) <= QueueBound
    /\ \E p \in Products, s \in Shapes :
          handler' = [pc |-> IF UseCelery THEN "publish" ELSE "direct",
                      product |-> p, shape |-> s, tries |-> 0, answer |-> None]
    /\ UNCHANGED <<result, queue, reserved, runners, files, cache>>

Answer(a) == handler' = [handler EXCEPT !.pc = "idle", !.answer = a]

Forget(task) == [task EXCEPT !.awaited = FALSE]

ForgetAll(tasks) == [i \in DOMAIN tasks |-> Forget(tasks[i])]

\* delay(): the tasks of earlier tries are no longer waited for.
Publish ==
    /\ handler.pc = "publish"
    /\ handler.tries < MaxRetries
    /\ queue' = Append(ForgetAll(queue), [product |-> handler.product,
                                          shape |-> handler.shape, awaited |-> TRUE])
    /\ reserved' = ForgetAll(reserved)
    /\ runners' = [r \in Runners |->
                      IF runners[r].task = None THEN runners[r]
                      ELSE [runners[r] EXCEPT !.task = Forget(@)]]
    /\ result' = None
    /\ handler' = [handler EXCEPT !.pc = "waiting"]
    /\ UNCHANGED <<files, cache>>

\* Mutant: tries are not counted.
TriesAfter_Uncounted(tries) == tries

TriesAfter(tries) == tries + 1

Again == handler' = [handler EXCEPT !.pc = "publish", !.tries = TriesAfter(@)]

\* The timeout of get(), or a connection that was reset.
TimeOut ==
    /\ handler.pc = "waiting"
    /\ result = None
    /\ Again
    /\ UNCHANGED <<result, queue, reserved, runners, files, cache>>

GetResult ==
    /\ handler.pc = "waiting"
    /\ result # None
    /\ \/ result = Nothing /\ Again
       \/ result = Failure /\ Answer(ServerError)
       \/ result \in Data /\ Answer(result)
    /\ result' = None
    /\ UNCHANGED <<queue, reserved, runners, files, cache>>

GiveUp ==
    /\ handler.pc = "publish"
    /\ handler.tries = MaxRetries
    /\ queue' = <<>>
    /\ Answer(WrongDimensions)
    /\ UNCHANGED <<result, reserved, runners, files, cache>>

\* kombu's OperationalError, from delay() or from the purge.
BrokerUnreachable ==
    /\ BrokerFails
    /\ handler.pc = "publish"
    /\ handler' = [handler EXCEPT !.pc = "direct"]
    /\ UNCHANGED <<result, queue, reserved, runners, files, cache>>

\* The API runs the task itself.  For a gapping drawing it calls the task of
\* the core drawing, whose model refuses the data.
RunDirectly ==
    /\ handler.pc = "direct"
    /\ runners[Api].pc = "idle"
    /\ IF handler.product = "gapping"
       THEN Answer(ServerError) /\ UNCHANGED runners
       ELSE /\ runners' = [runners EXCEPT ![Api] =
                  Running([product |-> handler.product, shape |-> handler.shape,
                           awaited |-> TRUE])]
            /\ UNCHANGED handler
    /\ UNCHANGED <<result, queue, reserved, files, cache>>

\* core_compute_shape and core_compute_shape_stp, in a thread, for a shape that
\* cannot be built.
PurgeByShapeRoute ==
    /\ Valid # Shapes
    /\ queue # <<>>
    /\ queue' = <<>>
    /\ UNCHANGED <<handler, result, reserved, runners, files, cache>>

--------------------------------------------------------------------------------
(* The worker *)

Reserve ==
    /\ queue # <<>>
    /\ Len(reserved) < Prefetch
    /\ reserved' = Append(reserved, Head(queue))
    /\ queue' = Tail(queue)
    /\ UNCHANGED <<handler, result, runners, files, cache>>

TakeTask(p) ==
    /\ runners[p].pc = "idle"
    /\ reserved # <<>>
    /\ runners' = [runners EXCEPT ![p] = Running(Head(reserved))]
    /\ reserved' = Tail(reserved)
    /\ UNCHANGED <<handler, result, queue, files, cache>>

\* Tasks are acknowledged when they start: a restart loses those that run and
\* gives those that were reserved back.
Restart ==
    /\ Restarts
    /\ runners' = [r \in Runners |-> IF r = Api THEN runners[r] ELSE Idle]
    /\ queue' = reserved \o queue
    /\ reserved' = <<>>
    /\ UNCHANGED <<handler, result, files, cache>>

--------------------------------------------------------------------------------
(* The tasks.  A task ends in a reply to whoever waits for it, or as the   *)
(* value of a call in the API.                                             *)

EndOf(r, outcome) ==
    /\ runners' = [runners EXCEPT ![r] = Idle]
    /\ IF r = Api
       THEN /\ Answer(CASE outcome = Nothing -> WrongDimensions
                        [] outcome = Failure -> ServerError
                        [] OTHER -> outcome)
            /\ UNCHANGED result
       ELSE /\ result' = IF runners[r].task.awaited THEN outcome ELSE result
            /\ UNCHANGED handler

Continue(r, stage) ==
    /\ runners' = [runners EXCEPT ![r].pc = stage]
    /\ UNCHANGED <<handler, result>>

TaskKey(r) == Key(runners[r].task.product, runners[r].task.shape)

\* Mutant: the cache is only written.
Cached_Never(k) == None

Cached(k) == IF CacheUp THEN cache[k] ELSE None

\* Drawings are cached as text; anything else is not the text of a drawing.
Decoded(product, data) ==
    IF product = "gapping" /\ data.kind # "gapping" THEN Failure ELSE data

\* Mutant: a model file that is there is used as it is.
AfterMiss_Reuse(shape) == IF files[shape] # "absent" THEN "file" ELSE "build"

AfterMiss(shape) == "build"

ReadCache(r) ==
    LET task == runners[r].task
        hit == Cached(TaskKey(r))
    IN  /\ runners[r].pc = "read"
        /\ IF hit # None THEN EndOf(r, Decoded(task.product, hit))
           ELSE Continue(r, AfterMiss(task.shape))
        /\ UNCHANGED <<queue, reserved, files, cache>>

IsModel(task) == task.product \in {"stl", "stp"}

\* The builder: FreeCAD writes the model to a file named by the hash.
Build(r) ==
    LET task == runners[r].task IN
    /\ runners[r].pc = "build"
    /\ IF task.shape \notin Valid THEN EndOf(r, Nothing) /\ UNCHANGED files
       ELSE IF IsModel(task)
       THEN /\ files' = [files EXCEPT ![task.shape] = r]
            /\ Continue(r, "building")
       ELSE /\ runners' = [runners EXCEPT
                  ![r].pc = "insert",
                  ![r].data = [kind |-> task.product, shape |-> task.shape,
                               whole |-> TRUE]]
            /\ UNCHANGED <<handler, result, files>>
    /\ UNCHANGED <<queue, reserved, cache>>

\* What is written is the same whoever writes it, but opening the file empties
\* it: it is whole when the last to open it ends, and may be so before.
Built(r) ==
    LET shape == runners[r].task.shape IN
    /\ runners[r].pc = "building"
    /\ \E content \in {files[shape], "whole"} :
          /\ files[shape] = r => content = "whole"
          /\ files' = [files EXCEPT ![shape] = content]
    /\ Continue(r, "file")
    /\ UNCHANGED <<queue, reserved, cache>>

ReadFile(r) ==
    LET task == runners[r].task IN
    /\ runners[r].pc = "file"
    /\ runners' = [runners EXCEPT
          ![r].pc = "insert",
          ![r].data = [kind |-> task.product, shape |-> task.shape,
                       whole |-> files[task.shape] = "whole"]]
    /\ UNCHANGED <<handler, result, queue, reserved, files, cache>>

\* Mutant: the plot is not kept.
Kept_Not(k, data) == cache

Kept(k, data) == [cache EXCEPT ![k] = data]

\* insert_plot: the primary key refuses a second row of the same hash.
Insert(r) ==
    LET k == TaskKey(r)
        data == runners[r].data
    IN  /\ runners[r].pc = "insert"
        /\ IF ~CacheUp THEN EndOf(r, data) /\ UNCHANGED cache
           ELSE IF cache[k] # None THEN EndOf(r, Failure) /\ UNCHANGED cache
           ELSE cache' = Kept(k, data) /\ EndOf(r, data)
        /\ UNCHANGED <<queue, reserved, files>>

Run(r) == ReadCache(r) \/ Build(r) \/ Built(r) \/ ReadFile(r) \/ Insert(r)

--------------------------------------------------------------------------------

Init ==
    /\ handler = [pc |-> "idle", product |-> None, shape |-> None, tries |-> 0,
                  answer |-> None]
    /\ result = None
    /\ queue = <<>>
    /\ reserved = <<>>
    /\ runners = [r \in Runners |-> Idle]
    /\ files = [s \in Shapes |-> "absent"]
    /\ cache = [k \in Keys |-> None]

\* What the API's event loop does while it serves a request.
Serve ==
    \/ Publish \/ TimeOut \/ GetResult \/ GiveUp \/ BrokerUnreachable
    \/ RunDirectly \/ Run(Api)

Next ==
    \/ StartRequest \/ Serve \/ PurgeByShapeRoute
    \/ Reserve \/ Restart
    \/ \E p \in Processes : TakeTask(p) \/ Run(p)

Spec == Init /\ [][Next]_vars

\* The event loop goes on: get() returns or times out, and a call in the API
\* itself ends.  Nothing is assumed of the worker or of the broker.
FairSpec == Spec /\ WF_vars(Serve)

--------------------------------------------------------------------------------
(* Properties *)

\* Every variable has its type.
TypeOK ==
    /\ handler \in Handlers
    /\ result \in Outcomes \union {None}
    /\ queue \in Seq(Tasks)
    /\ reserved \in Seq(Tasks)
    /\ runners \in [Runners -> RunnerStates]
    /\ files \in [Shapes -> {"absent", "whole"} \union Runners]
    /\ cache \in [Keys -> Data \union {None}]

Answered == handler.answer \in Data

\* Whatever is retried, late, lost or found in the cache, a request is answered
\* with a drawing of its own core, and with a drawing.
OwnShape ==
    /\ TypeOK
    /\ Answered => handler.answer.shape = handler.shape

\* The next request for the same thing finds what this one was answered with:
\* a task that loses the race to the cache does not answer with its own copy.
AnswerIsCached ==
    Answered => cache[Key(handler.product, handler.shape)] = handler.answer

\* Every request is answered, even with the worker gone: after number_retries
\* tries it gives up.
EveryRequestAnswered == handler.pc # "idle" ~> handler.pc = "idle"
================================================================================
