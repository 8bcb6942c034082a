------------------------------ MODULE DrawingsProofs -----------------------------
(***************************************************************************)
(* Theorems of Drawings, for any number of shapes, processes and retries.  *)
(*                                                                         *)
(* Tasks outlive the tries and the requests they were published for, and   *)
(* what they return is told apart only by which of them is awaited.  The   *)
(* invariant says that, while a request waits, the awaited tasks in the    *)
(* queue, in the worker and in its processes are all its own (TasksOwn).   *)
(***************************************************************************)
EXTENDS MCDrawingsHistory, SequenceTheorems, TLAPS

\* The task is no longer awaited, or is for what the handler h is serving.
Own(task, h) ==
    task.awaited => task.product = h.product /\ task.shape = h.shape

\* What a request looks like while it is served, and when it has its data.
RequestKnown ==
    /\ handler.pc # "idle" => handler.answer = None
    /\ handler.pc # "idle" \/ Answered =>
          handler.product \in Products /\ handler.shape \in Shapes
    /\ handler.pc = "waiting" => handler.tries < MaxRetries

\* What process or API r, in state q, is running: the data it is about to
\* insert are those of its task.
RunnerKnown(q) ==
    /\ IF q.pc = "idle" THEN q.task = None ELSE q.task \in Tasks
    /\ q.pc = "insert" =>
          q.data \in Data /\ q.data.kind = q.task.product /\ q.data.shape = q.task.shape

RunnersKnown == \A r \in Runners : RunnerKnown(runners[r])

\* The API runs a task only for the request it is serving.
ApiServes ==
    runners[Api].pc # "idle" =>
        /\ handler.pc = "direct"
        /\ runners[Api].task.product = handler.product
        /\ runners[Api].task.shape = handler.shape

\* Whatever tasks of earlier tries and earlier requests are about, no reply of
\* theirs reaches the request that waits.
TasksOwn ==
    handler.pc = "waiting" =>
        /\ \A i \in DOMAIN queue : Own(queue[i], handler)
        /\ \A i \in DOMAIN reserved : Own(reserved[i], handler)
        /\ \A p \in Processes : runners[p].pc # "idle" => Own(runners[p].task, handler)
        /\ result \in Data => result.shape = handler.shape

CacheSorted == \A k \in Keys : cache[k] # None => cache[k].shape = k[2]

Inv ==
    /\ TypeOK /\ RequestKnown /\ RunnersKnown /\ ApiServes /\ TasksOwn /\ CacheSorted
    /\ OwnShape

--------------------------------------------------------------------------------

LEMMA IdleKnown ==
    /\ Idle \in RunnerStates /\ RunnerKnown(Idle) /\ Idle.pc = "idle" /\ Idle.task = None
  BY DEF Idle, RunnerStates, RunnerKnown

LEMMA StartRequestKeeps == ASSUME Inv, StartRequest PROVE Inv'
  BY MarksAssumption, NumbersAssumption
  DEF Inv, StartRequest, TypeOK, Handlers, RequestKnown, RunnersKnown, ApiServes, TasksOwn,
      CacheSorted, OwnShape, Answered, Runners

\* What the handler may become while the tasks are left alone.
LEMMA HandlerMoves ==
    ASSUME Inv, NEW pc \in {"idle", "publish", "direct"}, NEW tries \in 0..MaxRetries,
           NEW answer \in Answers \union {None},
           handler.pc # "idle", runners[Api].pc = "idle",
           handler' = [handler EXCEPT !.pc = pc, !.tries = tries, !.answer = answer],
           IF pc = "idle" THEN answer \in Data => answer.shape = handler.shape
           ELSE answer = None,
           result' \in {result, None}, queue' \in {queue, <<>>},
           UNCHANGED <<reserved, runners, files, cache>>
    PROVE  Inv'
  <1> USE DEF Inv
  <1>1. /\ handler' \in Handlers
        /\ handler'.pc = pc /\ handler'.answer = answer /\ handler'.tries = tries
        /\ handler'.product = handler.product /\ handler'.shape = handler.shape
    BY DEF TypeOK, Handlers
  <1>2. TypeOK'
    <2>1. <<>> \in Seq(Tasks)
      OBVIOUS
    <2> QED
      BY <1>1, <2>1 DEF TypeOK
  <1>3. RequestKnown' /\ TasksOwn'
    BY <1>1 DEF RequestKnown, TasksOwn
  <1>4. RunnersKnown' /\ ApiServes' /\ CacheSorted'
    BY <1>1 DEF RunnersKnown, ApiServes, CacheSorted
  <1>5. OwnShape'
    BY <1>1, <1>2, MarksAssumption DEF OwnShape, Answered
  <1> QED
    BY <1>2, <1>3, <1>4, <1>5

\* A request that is not idle has no answer, and its next try is within bounds.
LEMMA Unanswered ==
    ASSUME Inv, handler.pc # "idle"
    PROVE  /\ handler.answer = None /\ handler.tries \in 0..MaxRetries
           /\ handler.pc # "direct" => runners[Api].pc = "idle"
           /\ handler.pc = "waiting" => handler.tries + 1 \in 0..MaxRetries
           /\ \A pc, tries, answer :
                 [[[handler EXCEPT !.pc = pc] EXCEPT !.tries = tries] EXCEPT !.answer = answer]
                    = [handler EXCEPT !.pc = pc, !.tries = tries, !.answer = answer]
  BY NumbersAssumption DEF Inv, TypeOK, Handlers, RequestKnown, ApiServes

LEMMA AgainMoves ==
    ASSUME Inv, handler.pc = "waiting", Again, result' = None,
           UNCHANGED <<queue, reserved, runners, files, cache>>
    PROVE  Inv'
  <1>1. handler' = [handler EXCEPT !.pc = "publish", !.tries = handler.tries + 1,
                                   !.answer = None]
    BY Unanswered DEF Again, TriesAfter, Inv, TypeOK, Handlers
  <1> QED
    BY <1>1, Unanswered, HandlerMoves

LEMMA AnswerMoves ==
    ASSUME Inv, NEW a \in Answers, handler.pc # "idle", runners[Api].pc = "idle", Answer(a),
           a \in Data => a.shape = handler.shape,
           result' \in {result, None}, queue' \in {queue, <<>>},
           UNCHANGED <<reserved, runners, files, cache>>
    PROVE  Inv'
  <1>1. handler' = [handler EXCEPT !.pc = "idle", !.tries = handler.tries, !.answer = a]
    BY DEF Answer, Inv, TypeOK, Handlers
  <1> QED
    BY <1>1, Unanswered, HandlerMoves

LEMMA TimeOutKeeps == ASSUME Inv, TimeOut PROVE Inv'
  BY AgainMoves DEF TimeOut

LEMMA GetResultKeeps == ASSUME Inv, GetResult PROVE Inv'
  <1>1. CASE result = Nothing /\ Again
    BY <1>1, AgainMoves DEF GetResult
  <1>2. CASE result = Failure /\ Answer(ServerError)
    <2>1. ServerError \in Answers \ Data
      BY MarksAssumption DEF Answers
    <2> QED
      BY <1>2, <2>1, Unanswered, AnswerMoves DEF GetResult
  <1>3. CASE result \in Data /\ Answer(result)
    <2>1. result \in Answers /\ result.shape = handler.shape
      BY <1>3 DEF Answers, Inv, TasksOwn, GetResult
    <2> QED
      BY <1>3, <2>1, Unanswered, AnswerMoves DEF GetResult
  <1> QED
    BY <1>1, <1>2, <1>3 DEF GetResult

LEMMA GiveUpKeeps == ASSUME Inv, GiveUp PROVE Inv'
  <1>1. WrongDimensions \in Answers \ Data
    BY MarksAssumption DEF Answers
  <1> QED
    BY <1>1, Unanswered, AnswerMoves DEF GiveUp

LEMMA BrokerUnreachableKeeps == ASSUME Inv, BrokerUnreachable PROVE Inv'
  BY MarksAssumption, NumbersAssumption
  DEF Inv, BrokerUnreachable, TypeOK, Handlers, RequestKnown, RunnersKnown, ApiServes,
      TasksOwn, CacheSorted, OwnShape, Answered

LEMMA RunDirectlyKeeps == ASSUME Inv, RunDirectly PROVE Inv'
  <1> USE DEF Inv
  <1>1. CASE handler.product = "gapping"
    <2>1. ServerError \in Answers \ Data
      BY MarksAssumption DEF Answers
    <2> QED
      BY <1>1, <2>1, AnswerMoves DEF RunDirectly
  <1>2. CASE handler.product # "gapping"
    <2> DEFINE task == [product |-> handler.product, shape |-> handler.shape, awaited |-> TRUE]
    <2>1. /\ handler.pc = "direct" /\ task \in Tasks /\ UNCHANGED handler
          /\ runners' = [runners EXCEPT ![Api] = Running(task)]
      BY <1>2 DEF RunDirectly, RequestKnown, Tasks
    <2>2. /\ Running(task) \in RunnerStates /\ RunnerKnown(Running(task))
          /\ Running(task).pc = "read" /\ Running(task).task = task
      BY <2>1 DEF Running, RunnerStates, RunnerKnown
    <2>3. TypeOK' /\ RunnersKnown'
      BY <2>1, <2>2 DEF RunDirectly, TypeOK, RunnersKnown
    <2>4. RequestKnown' /\ TasksOwn' /\ CacheSorted' /\ OwnShape'
      BY <2>1, <2>3, SetsAssumption
      DEF RunDirectly, RequestKnown, TasksOwn, CacheSorted, OwnShape, Answered, TypeOK
    <2>5. ApiServes'
      BY <2>1, <2>2 DEF ApiServes, TypeOK, Runners
    <2> QED
      BY <2>3, <2>4, <2>5
  <1> QED
    BY <1>1, <1>2

\* Tasks that are no longer awaited are nobody's own, and keep what they are about.
LEMMA Forgotten ==
    ASSUME NEW task \in Tasks
    PROVE  /\ Forget(task) \in Tasks /\ \A h : Own(Forget(task), h)
           /\ Forget(task).product = task.product /\ Forget(task).shape = task.shape
  BY DEF Forget, Tasks, Own

LEMMA AllForgotten ==
    ASSUME NEW tasks \in Seq(Tasks)
    PROVE  /\ ForgetAll(tasks) \in Seq(Tasks)
           /\ \A h : \A i \in DOMAIN ForgetAll(tasks) : Own(ForgetAll(tasks)[i], h)
  <1>1. \A i \in DOMAIN tasks : tasks[i] \in Tasks
    OBVIOUS
  <1>2. DOMAIN ForgetAll(tasks) = 1..Len(tasks) /\ Len(tasks) \in Nat
    BY DEF ForgetAll
  <1>3. \A i \in 1..Len(tasks) : ForgetAll(tasks)[i] = Forget(tasks[i])
    BY DEF ForgetAll
  <1>4. ForgetAll(tasks) = [i \in 1..Len(tasks) |-> ForgetAll(tasks)[i]]
    BY DEF ForgetAll
  <1>5. \A i \in 1..Len(tasks) : ForgetAll(tasks)[i] \in Tasks
    BY <1>1, <1>3, Forgotten
  <1> QED
    BY <1>1, <1>2, <1>3, <1>4, <1>5, Forgotten, SeqDef

LEMMA PublishKeeps == ASSUME Inv, Publish PROVE Inv'
  <1> USE DEF Inv
  <1> DEFINE task == [product |-> handler.product, shape |-> handler.shape, awaited |-> TRUE]
  <1>1. task \in Tasks /\ Own(task, handler')
    BY DEF Publish, RequestKnown, Tasks, Own, TypeOK, Handlers
  <1>2. /\ handler' \in Handlers
        /\ handler'.pc = "waiting" /\ handler'.answer = None
        /\ handler'.product \in Products /\ handler'.shape \in Shapes
        /\ handler'.tries < MaxRetries
    BY DEF Publish, TypeOK, Handlers, RequestKnown
  <1>3. /\ queue' \in Seq(Tasks)
        /\ \A i \in DOMAIN queue' : Own(queue'[i], handler')
    <2> DEFINE q == ForgetAll(queue)
    <2>1. queue' = Append(q, task) /\ q \in Seq(Tasks)
          /\ \A i \in DOMAIN q : Own(q[i], handler')
      BY AllForgotten DEF Publish, TypeOK
    <2> HIDE DEF q, task
    <2> QED
      BY <1>1, <2>1
  <1>4. /\ reserved' \in Seq(Tasks)
        /\ \A i \in DOMAIN reserved' : Own(reserved'[i], handler')
    BY AllForgotten DEF Publish, TypeOK
  <1>5. ASSUME NEW r \in Runners
        PROVE  /\ runners'[r] \in RunnerStates /\ RunnerKnown(runners'[r])
               /\ runners'[r].pc = runners[r].pc
               /\ runners'[r].pc # "idle" => Own(runners'[r].task, handler')
    <2>1. runners[r] \in RunnerStates /\ RunnerKnown(runners[r])
      BY DEF TypeOK, RunnersKnown
    <2>2. CASE runners[r].pc = "idle"
      BY <2>1, <2>2 DEF Publish, RunnerKnown
    <2>3. CASE runners[r].pc # "idle"
      <3>1. runners[r].task \in Tasks /\ runners[r].task # None
        BY <2>1, <2>3, MarksAssumption DEF RunnerKnown
      <3>2. runners'[r] = [runners[r] EXCEPT !.task = Forget(runners[r].task)]
        BY <3>1 DEF Publish
      <3> QED
        BY <2>1, <2>3, <3>1, <3>2, Forgotten DEF RunnerStates, RunnerKnown
    <2> QED
      BY <2>2, <2>3
  <1>6. TypeOK'
    <2>1. runners' \in [Runners -> RunnerStates]
      BY <1>5 DEF Publish
    <2> QED
      BY <1>2, <1>3, <1>4, <2>1 DEF Publish, TypeOK
  <1>7. RequestKnown' /\ RunnersKnown' /\ CacheSorted'
    BY <1>2, <1>5 DEF RequestKnown, RunnersKnown, CacheSorted, Publish
  <1>8. ApiServes' /\ TasksOwn'
    BY <1>2, <1>3, <1>4, <1>5, MarksAssumption
    DEF ApiServes, TasksOwn, Publish, Runners
  <1>9. OwnShape'
    BY <1>2, <1>6, MarksAssumption DEF OwnShape, Answered
  <1> QED
    BY <1>6, <1>7, <1>8, <1>9

LEMMA PurgeKeeps == ASSUME Inv, PurgeByShapeRoute PROVE Inv'
  BY DEF Inv, PurgeByShapeRoute, TypeOK, RequestKnown, RunnersKnown, ApiServes, TasksOwn,
         CacheSorted, OwnShape, Answered

--------------------------------------------------------------------------------
(* The worker *)

LEMMA ReserveKeeps == ASSUME Inv, Reserve PROVE Inv'
  BY DEF Inv, Reserve, TypeOK, RequestKnown, RunnersKnown, ApiServes, TasksOwn,
         CacheSorted, OwnShape, Answered

LEMMA TakeTaskKeeps == ASSUME Inv, NEW p \in Processes, TakeTask(p) PROVE Inv'
  BY MarksAssumption, SetsAssumption
  DEF Inv, TakeTask, Running, TypeOK, RequestKnown, RunnersKnown, RunnerKnown, ApiServes,
      TasksOwn, CacheSorted, OwnShape, Answered, Runners, RunnerStates

LEMMA RestartKeeps == ASSUME Inv, Restart PROVE Inv'
  BY MarksAssumption, SetsAssumption, IdleKnown
  DEF Inv, Restart, TypeOK, RequestKnown, RunnersKnown, ApiServes, TasksOwn, CacheSorted,
      OwnShape, Answered, Runners

--------------------------------------------------------------------------------
(* The tasks *)

LEMMA RunnerContinues ==
    ASSUME Inv, NEW r \in Runners, NEW q \in RunnerStates, RunnerKnown(q),
           runners[r].pc # "idle", q.pc # "idle", q.task = runners[r].task,
           runners' = [runners EXCEPT ![r] = q],
           files' \in [Shapes -> {"absent", "whole"} \union Runners],
           UNCHANGED <<handler, result, queue, reserved, cache>>
    PROVE  Inv'
  <1> USE DEF Inv
  <1>1. TypeOK' /\ RunnersKnown'
    BY DEF TypeOK, RunnersKnown
  <1>2. RequestKnown' /\ CacheSorted' /\ OwnShape'
    BY <1>1 DEF RequestKnown, CacheSorted, OwnShape, Answered
  <1>3. ApiServes' /\ TasksOwn'
    BY DEF ApiServes, TasksOwn, TypeOK, Runners
  <1> QED
    BY <1>1, <1>2, <1>3

\* What a task ends with reaches the request it was published for, or nobody.
LEMMA EndOfKeeps ==
    ASSUME Inv, NEW r \in Runners, runners[r].pc # "idle",
           NEW outcome \in Outcomes, EndOf(r, outcome),
           outcome \in Data => outcome.shape = runners[r].task.shape,
           cache' \in [Keys -> Data \union {None}], CacheSorted',
           UNCHANGED <<queue, reserved, files>>
    PROVE  Inv'
  <1> USE DEF Inv
  <1>1. /\ runners' = [runners EXCEPT ![r] = Idle]
        /\ runners' \in [Runners -> RunnerStates] /\ RunnersKnown'
    BY IdleKnown DEF EndOf, TypeOK, RunnersKnown
  <1>2. CASE r = Api
    <2> DEFINE a == CASE outcome = Nothing -> WrongDimensions
                      [] outcome = Failure -> ServerError
                      [] OTHER -> outcome
    <2>1. a \in Answers /\ (a \in Data => a.shape = handler.shape)
      BY <1>2, MarksAssumption DEF Answers, Outcomes, ApiServes
    <2>2. /\ handler' = [handler EXCEPT !.pc = "idle", !.answer = a] /\ result' = result
          /\ handler'.pc = "idle"
      BY <1>2 DEF EndOf, Answer, TypeOK, Handlers
    <2> HIDE DEF a
    <2>3. TypeOK' /\ OwnShape'
      BY <1>1, <2>1, <2>2 DEF TypeOK, Handlers, OwnShape, Answered
    <2>4. RequestKnown' /\ TasksOwn' /\ ApiServes'
      BY <1>1, <1>2, <2>2, IdleKnown DEF RequestKnown, TasksOwn, ApiServes, TypeOK
    <2> QED
      BY <1>1, <2>3, <2>4
  <1>3. CASE r # Api
    <2>1. /\ handler' = handler
          /\ result' = IF runners[r].task.awaited THEN outcome ELSE result
      BY <1>3 DEF EndOf
    <2>2. TypeOK' /\ OwnShape'
      BY <1>1, <2>1 DEF TypeOK, OwnShape, Answered, Outcomes
    <2>3. RequestKnown' /\ ApiServes'
      BY <1>1, <1>3, <2>1 DEF RequestKnown, Answered, ApiServes, Runners, TypeOK
    <2>4. TasksOwn'
      BY <1>1, <1>3, <2>1, IdleKnown DEF TasksOwn, Own, Runners, TypeOK
    <2> QED
      BY <1>1, <2>2, <2>3, <2>4
  <1> QED
    BY <1>2, <1>3

\* What a task under way is about, and its key.
LEMMA TaskOf ==
    ASSUME Inv, NEW r \in Runners, runners[r].pc # "idle"
    PROVE  /\ runners[r] \in RunnerStates /\ RunnerKnown(runners[r])
           /\ runners[r].task \in Tasks
           /\ runners[r].task.product \in Products /\ runners[r].task.shape \in Shapes
           /\ TaskKey(r) \in Keys /\ TaskKey(r)[2] = runners[r].task.shape
  <1>1. runners[r] \in RunnerStates /\ RunnerKnown(runners[r])
    BY DEF Inv, TypeOK, RunnersKnown
  <1>2. /\ runners[r].task \in Tasks
        /\ runners[r].task.product \in Products /\ runners[r].task.shape \in Shapes
    BY <1>1 DEF RunnerKnown, Tasks
  <1> QED
    BY <1>1, <1>2 DEF TaskKey, Key, Keys

\* The task goes on to a stage in which it has no data to insert yet.
LEMMA ContinueKeeps ==
    ASSUME Inv, NEW r \in Runners, runners[r].pc # "idle",
           NEW stage \in {"build", "building", "file"}, Continue(r, stage),
           files' \in [Shapes -> {"absent", "whole"} \union Runners],
           UNCHANGED <<queue, reserved, cache>>
    PROVE  Inv'
  <1> DEFINE q == [runners[r] EXCEPT !.pc = stage]
  <1>1. /\ q \in RunnerStates /\ RunnerKnown(q)
        /\ q.pc # "idle" /\ q.task = runners[r].task
    BY TaskOf DEF RunnerStates, RunnerKnown
  <1>2. runners' = [runners EXCEPT ![r] = q]
    BY DEF Continue, Inv, TypeOK
  <1> HIDE DEF q
  <1> QED
    BY <1>1, <1>2, RunnerContinues DEF Continue

\* The task has its data.
LEMMA DataKeeps ==
    ASSUME Inv, NEW r \in Runners, runners[r].pc # "idle", NEW whole \in BOOLEAN,
           runners' = [runners EXCEPT ![r].pc = "insert",
                         ![r].data = [kind |-> runners[r].task.product,
                                      shape |-> runners[r].task.shape, whole |-> whole]],
           UNCHANGED <<handler, result, queue, reserved, files, cache>>
    PROVE  Inv'
  <1> DEFINE d == [kind |-> runners[r].task.product, shape |-> runners[r].task.shape,
                   whole |-> whole]
             q == [runners[r] EXCEPT !.pc = "insert", !.data = d]
  <1>1. d \in Data /\ d.kind = runners[r].task.product /\ d.shape = runners[r].task.shape
    BY TaskOf DEF Data
  <1>2. runners' = [runners EXCEPT ![r] = q]
    BY DEF Inv, TypeOK
  <1> HIDE DEF d
  <1>3. /\ q \in RunnerStates /\ RunnerKnown(q)
        /\ q.pc # "idle" /\ q.task = runners[r].task
    BY <1>1, TaskOf DEF RunnerStates, RunnerKnown
  <1> HIDE DEF q
  <1> QED
    BY <1>2, <1>3, RunnerContinues DEF Inv, TypeOK

LEMMA ReadCacheKeeps == ASSUME Inv, NEW r \in Runners, ReadCache(r) PROVE Inv'
  <1> DEFINE hit == Cached(TaskKey(r))
             task == runners[r].task
  <1>1. runners[r].pc # "idle" /\ UNCHANGED <<queue, reserved, files, cache>>
    BY DEF ReadCache
  <1>2. CASE hit # None
    <2>1. hit \in Data /\ hit.shape = task.shape
      BY <1>1, <1>2, TaskOf DEF Cached, Inv, TypeOK, CacheSorted
    <2>2. EndOf(r, Decoded(task.product, hit))
      BY <1>2 DEF ReadCache
    <2>3. /\ Decoded(task.product, hit) \in Outcomes
          /\ Decoded(task.product, hit) \in Data => Decoded(task.product, hit).shape = task.shape
      BY <2>1, MarksAssumption DEF Decoded, Outcomes
    <2> QED
      BY <1>1, <2>2, <2>3, EndOfKeeps DEF Inv, TypeOK, CacheSorted
  <1>3. CASE hit = None
    BY <1>1, <1>3, ContinueKeeps DEF ReadCache, AfterMiss, Inv, TypeOK
  <1> QED
    BY <1>2, <1>3

LEMMA BuildKeeps == ASSUME Inv, NEW r \in Runners, Build(r) PROVE Inv'
  <1> DEFINE task == runners[r].task
  <1>1. runners[r].pc # "idle" /\ UNCHANGED <<queue, reserved, cache>>
    BY DEF Build
  <1>2. CASE task.shape \notin Valid
    <2>1. Nothing \in Outcomes \ Data
      BY MarksAssumption DEF Outcomes
    <2> QED
      BY <1>1, <1>2, <2>1, EndOfKeeps DEF Build, Inv, TypeOK, CacheSorted
  <1>3. CASE task.shape \in Valid /\ IsModel(task)
    <2>1. files' \in [Shapes -> {"absent", "whole"} \union Runners]
      BY <1>3 DEF Build, Inv, TypeOK
    <2> QED
      BY <1>1, <1>3, <2>1, ContinueKeeps DEF Build
  <1>4. CASE task.shape \in Valid /\ ~IsModel(task)
    BY <1>1, <1>4, DataKeeps DEF Build
  <1> QED
    BY <1>2, <1>3, <1>4

LEMMA RunKeeps == ASSUME Inv, NEW r \in Runners, Run(r) PROVE Inv'
  <1>1. CASE ReadCache(r)
    BY <1>1, ReadCacheKeeps
  <1>2. CASE Build(r)
    BY <1>2, BuildKeeps
  <1>3. CASE Built(r)
    <2>1. files' \in [Shapes -> {"absent", "whole"} \union Runners]
      BY <1>3 DEF Built, Inv, TypeOK
    <2> QED
      BY <1>3, <2>1, ContinueKeeps DEF Built
  <1>4. CASE ReadFile(r)
    <2> DEFINE whole == files[runners[r].task.shape] = "whole"
    <2>1. whole \in BOOLEAN
      OBVIOUS
    <2>2. /\ runners[r].pc # "idle" /\ UNCHANGED <<handler, result, queue, reserved, files, cache>>
          /\ runners' = [runners EXCEPT ![r].pc = "insert",
                         ![r].data = [kind |-> runners[r].task.product,
                                      shape |-> runners[r].task.shape, whole |-> whole]]
      BY <1>4 DEF ReadFile
    <2> HIDE DEF whole
    <2> QED
      BY <2>1, <2>2, DataKeeps
  <1>5. CASE Insert(r)
    <2> DEFINE data == runners[r].data
    <2>1. /\ runners[r].pc # "idle" /\ UNCHANGED <<queue, reserved, files>>
          /\ data \in Data /\ data.shape = runners[r].task.shape
      BY <1>5, TaskOf DEF Insert, RunnerKnown
    <2>2. cache' \in [Keys -> Data \union {None}] /\ CacheSorted'
      BY <1>5, <2>1, TaskOf DEF Insert, Kept, Inv, TypeOK, CacheSorted
    <2>3. EndOf(r, data) \/ EndOf(r, Failure)
      BY <1>5 DEF Insert
    <2> QED
      BY <2>1, <2>2, <2>3, EndOfKeeps, MarksAssumption DEF Outcomes
  <1> QED
    BY <1>1, <1>2, <1>3, <1>4, <1>5 DEF Run

LEMMA InvInit == ASSUME Init PROVE Inv
  BY MarksAssumption, NumbersAssumption, IdleKnown
  DEF Init, Inv, TypeOK, Handlers, RequestKnown, RunnersKnown, ApiServes, TasksOwn,
      CacheSorted, OwnShape, Answered, Runners

LEMMA InvNext == ASSUME Inv, [Next]_vars PROVE Inv'
  <1>1. CASE UNCHANGED vars
    BY <1>1 DEF vars, Inv, TypeOK, RequestKnown, RunnersKnown, ApiServes, TasksOwn,
                CacheSorted, OwnShape, Answered
  <1>2. CASE Serve
    BY <1>2, PublishKeeps, TimeOutKeeps, GetResultKeeps, GiveUpKeeps,
       BrokerUnreachableKeeps, RunDirectlyKeeps, RunKeeps DEF Serve, Runners
  <1>3. CASE \E p \in Processes : TakeTask(p) \/ Run(p)
    BY <1>3, TakeTaskKeeps, RunKeeps DEF Runners
  <1> QED
    BY <1>1, <1>2, <1>3, StartRequestKeeps, PurgeKeeps, ReserveKeeps, RestartKeeps DEF Next

\* Whatever is retried, arrives late, is lost or was in the cache, a request is
\* answered with a drawing of its own core or with an error (the routes of api.py,
\* the tasks of plotter.py), and every variable keeps its type.
THEOREM OwnShapeHolds == Spec => []OwnShape
  <1>1. Init => Inv
    BY InvInit
  <1>2. Inv /\ [Next]_vars => Inv'
    BY InvNext
  <1>3. Inv => OwnShape
    BY DEF Inv
  <1> QED
    BY <1>1, <1>2, <1>3, PTL DEF Spec

--------------------------------------------------------------------------------
(* The cache *)

\* With the cache up, a reply that waits to be fetched is in the cache.
ReplyIsCached ==
    handler.pc = "waiting" /\ result \in Data =>
        cache[Key(handler.product, handler.shape)] = result

CachedInv == Inv /\ ReplyIsCached /\ AnswerIsCached

\* A step of a task leaves it under way, or ends it with an outcome; data that it
\* ends with are in the cache, and what was in the cache stays.
LEMMA EndsOrGoesOn ==
    ASSUME Inv, NEW r \in Runners, Run(r)
    PROVE  /\ \A k \in Keys : cache[k] # None => cache'[k] = cache[k]
           /\ runners[r].pc # "idle"
           /\ \/ UNCHANGED <<handler, result, cache>>
              \/ \E outcome \in Outcomes :
                    /\ EndOf(r, outcome)
                    /\ CacheUp /\ outcome \in Data => cache'[TaskKey(r)] = outcome
  <1>1. runners[r].pc # "idle"
    BY DEF Run, ReadCache, Build, Built, ReadFile, Insert
  <1>2. CASE ReadCache(r)
    <2> DEFINE hit == Cached(TaskKey(r))
               outcome == Decoded(runners[r].task.product, hit)
    <2>1. cache' = cache
      BY <1>2 DEF ReadCache
    <2>2. CASE hit = None
      BY <1>1, <1>2, <2>1, <2>2 DEF ReadCache, Continue
    <2>3. CASE hit # None
      <3>1. CacheUp /\ hit = cache[TaskKey(r)] /\ hit \in Data
        BY <1>1, <2>3, TaskOf DEF Cached, Inv, TypeOK
      <3>2. outcome \in {hit, Failure} /\ outcome \in Outcomes
        BY <3>1 DEF Decoded, Outcomes
      <3>3. EndOf(r, outcome)
        BY <1>2, <2>3 DEF ReadCache
      <3> QED
        BY <1>1, <2>1, <3>1, <3>2, <3>3, MarksAssumption
    <2> QED
      BY <2>2, <2>3
  <1>3. CASE Build(r) \/ Built(r) \/ ReadFile(r)
    <2>1. cache' = cache
      BY <1>3 DEF Build, Built, ReadFile
    <2>2. UNCHANGED <<handler, result>> \/ EndOf(r, Nothing)
      BY <1>3 DEF Build, Built, ReadFile, Continue
    <2> QED
      BY <1>1, <2>1, <2>2, MarksAssumption DEF Outcomes
  <1>4. CASE Insert(r)
    <2> DEFINE data == runners[r].data
    <2>1. data \in Outcomes /\ Failure \in Outcomes \ Data /\ TaskKey(r) \in Keys
      BY <1>1, <1>4, TaskOf, MarksAssumption DEF Insert, RunnerKnown, Outcomes
    <2>2. CASE ~CacheUp
      BY <1>1, <1>4, <2>1, <2>2 DEF Insert
    <2>3. CASE CacheUp /\ cache[TaskKey(r)] # None
      BY <1>1, <1>4, <2>1, <2>3 DEF Insert
    <2>4. CASE CacheUp /\ cache[TaskKey(r)] = None
      <3>1. cache' = [cache EXCEPT ![TaskKey(r)] = data] /\ EndOf(r, data)
        BY <1>4, <2>4 DEF Insert, Kept
      <3> QED
        BY <1>1, <2>1, <2>4, <3>1 DEF Inv, TypeOK
    <2> QED
      BY <2>2, <2>3, <2>4
  <1> QED
    BY <1>2, <1>3, <1>4 DEF Run

LEMMA RequestKey ==
    ASSUME Inv, handler.pc # "idle"
    PROVE  Key(handler.product, handler.shape) \in Keys
  BY DEF Inv, RequestKnown, Key, Keys

LEMMA RunCached ==
    ASSUME CacheUp, CachedInv, NEW r \in Runners, Run(r)
    PROVE  ReplyIsCached' /\ AnswerIsCached'
  <1> USE DEF CachedInv
  <1>1. /\ \A k \in Keys : cache[k] # None => cache'[k] = cache[k]
        /\ runners[r].pc # "idle"
    BY EndsOrGoesOn
  <1>2. CASE UNCHANGED <<handler, result, cache>>
    BY <1>2 DEF ReplyIsCached, AnswerIsCached, Answered
  <1>3. ASSUME NEW outcome \in Outcomes, EndOf(r, outcome),
               outcome \in Data => cache'[TaskKey(r)] = outcome
        PROVE  ReplyIsCached' /\ AnswerIsCached'
    <2>1. CASE r = Api
      <3>1. /\ handler.pc = "direct" /\ TaskKey(r) = Key(handler.product, handler.shape)
        BY <1>1, <2>1 DEF Inv, ApiServes, TaskKey
      <3>2. /\ handler'.pc = "idle" /\ handler'.product = handler.product
            /\ handler'.shape = handler.shape
            /\ handler'.answer \in {outcome, WrongDimensions, ServerError}
        BY <1>3, <2>1 DEF EndOf, Answer, Inv, TypeOK, Handlers
      <3> QED
        BY <1>3, <3>1, <3>2, MarksAssumption DEF ReplyIsCached, AnswerIsCached, Answered
    <2>2. CASE r # Api
      <3>1. /\ handler' = handler
            /\ result' = IF runners[r].task.awaited THEN outcome ELSE result
        BY <1>3, <2>2 DEF EndOf
      <3>2. ReplyIsCached'
        <4>1. SUFFICES ASSUME handler.pc = "waiting", result' \in Data
                       PROVE  cache'[Key(handler.product, handler.shape)] = result'
          BY <3>1 DEF ReplyIsCached
        <4>2. CASE runners[r].task.awaited
          <5>1. TaskKey(r) = Key(handler.product, handler.shape)
            BY <1>1, <2>2, <4>1, <4>2 DEF Inv, TasksOwn, Own, TaskKey, Runners
          <5> QED
            BY <1>3, <3>1, <4>1, <4>2, <5>1
        <4>3. CASE ~runners[r].task.awaited
          <5>1. cache[Key(handler.product, handler.shape)] = result' /\ result' # None
            BY <3>1, <4>1, <4>3, MarksAssumption DEF ReplyIsCached
          <5> QED
            BY <1>1, <4>1, <5>1, RequestKey
        <4> QED
          BY <4>2, <4>3
      <3>3. AnswerIsCached'
        <4>1. CASE handler.answer \notin Data
          BY <3>1, <4>1 DEF AnswerIsCached, Answered
        <4>2. CASE handler.answer \in Data
          <5>1. Key(handler.product, handler.shape) \in Keys
            BY <4>2 DEF Inv, RequestKnown, Answered, Key, Keys
          <5>2. cache[Key(handler.product, handler.shape)] = handler.answer
                /\ handler.answer # None
            BY <4>2, MarksAssumption DEF AnswerIsCached, Answered
          <5> QED
            BY <1>1, <3>1, <5>1, <5>2 DEF AnswerIsCached, Answered
        <4> QED
          BY <4>1, <4>2
      <3> QED
        BY <3>2, <3>3
    <2> QED
      BY <2>1, <2>2
  <1> QED
    BY <1>2, <1>3, EndsOrGoesOn

LEMMA HandlerCached ==
    ASSUME CachedInv, \/ StartRequest \/ Publish \/ TimeOut \/ GetResult \/ GiveUp
                      \/ BrokerUnreachable \/ RunDirectly
    PROVE  ReplyIsCached' /\ AnswerIsCached'
  <1> USE DEF CachedInv, Inv, TypeOK, Handlers, ReplyIsCached, AnswerIsCached, Answered
  <1>1. CASE StartRequest
    BY <1>1, MarksAssumption DEF StartRequest
  <1>2. CASE Publish
    BY <1>2, MarksAssumption DEF Publish
  <1>3. CASE TimeOut
    BY <1>3, MarksAssumption DEF TimeOut, Again
  <1>4. CASE GetResult
    BY <1>4, MarksAssumption DEF GetResult, Again, Answer
  <1>5. CASE GiveUp
    BY <1>5, MarksAssumption DEF GiveUp, Answer
  <1>6. CASE BrokerUnreachable
    BY <1>6, MarksAssumption DEF BrokerUnreachable
  <1>7. CASE RunDirectly
    <2>1. CASE handler' = handler
      BY <1>7, <2>1 DEF RunDirectly
    <2>2. CASE Answer(ServerError)
      BY <1>7, <2>2, MarksAssumption DEF RunDirectly, Answer
    <2> QED
      BY <1>7, <2>1, <2>2 DEF RunDirectly
  <1> QED
    BY <1>1, <1>2, <1>3, <1>4, <1>5, <1>6, <1>7

LEMMA CachedNext ==
    ASSUME CacheUp, CachedInv, [Next]_vars
    PROVE  CachedInv'
  <1>1. CASE \E r \in Runners : Run(r)
    BY <1>1, RunCached, InvNext DEF CachedInv
  <1>2. CASE \/ StartRequest \/ Publish \/ TimeOut \/ GetResult \/ GiveUp
             \/ BrokerUnreachable \/ RunDirectly
    BY <1>2, HandlerCached, InvNext DEF CachedInv
  <1>3. CASE UNCHANGED <<handler, result, cache>>
    BY <1>3, InvNext DEF CachedInv, ReplyIsCached, AnswerIsCached, Answered
  <1>4. \/ \E r \in Runners : Run(r)
        \/ StartRequest \/ Publish \/ TimeOut \/ GetResult \/ GiveUp
        \/ BrokerUnreachable \/ RunDirectly
        \/ UNCHANGED <<handler, result, cache>>
    BY DEF Next, Serve, vars, PurgeByShapeRoute, Reserve, Restart, TakeTask, Runners
  <1> QED
    BY <1>1, <1>2, <1>3, <1>4

\* While the cache's database is up, a task that loses the race to insert does not
\* answer with its own copy: what a request got is what the cache holds.
THEOREM AnswerIsCachedHolds ==
    ASSUME CacheUp
    PROVE  Spec => []AnswerIsCached
  <1>1. Init => CachedInv
    BY InvInit, MarksAssumption
    DEF Init, CachedInv, ReplyIsCached, AnswerIsCached, Answered
  <1>2. CachedInv /\ [Next]_vars => CachedInv'
    BY CachedNext
  <1>3. CachedInv => AnswerIsCached
    BY DEF CachedInv
  <1> QED
    BY <1>1, <1>2, <1>3, PTL DEF Spec

--------------------------------------------------------------------------------
(* The files *)

\* A task that another's opening of its file has not disturbed has the file to
\* itself, and read it whole.
Undisturbed(r) ==
    LET q == runners[r] IN
    /\ q.pc = "building" => files[q.task.shape] \in {r, "whole"}
    /\ q.pc = "file" => files[q.task.shape] = "whole"
    /\ q.pc = "insert" => q.data.whole

FilesInv == Inv /\ \A r \in Runners \ disturbed : Undisturbed(r)

\* A runner that does not run its task has the same one as before the step, only
\* perhaps no longer awaited, or has not looked into the cache yet.
LEMMA StaysAtStage ==
    ASSUME Inv, [Next]_vars, NEW r \in Runners, ~Run(r), runners'[r].pc \notin {"idle", "read"}
    PROVE  /\ runners[r].pc = runners'[r].pc /\ runners[r].data = runners'[r].data
           /\ runners[r].task.product = runners'[r].task.product
           /\ runners[r].task.shape = runners'[r].task.shape
           /\ Publish => ~runners'[r].task.awaited
           /\ ~Publish => runners'[r] = runners[r]
  <1>1. CASE runners'[r] = runners[r] /\ ~Publish
    BY <1>1
  <1>2. CASE Publish
    <2>1. runners[r].task # None /\ runners'[r] = [runners[r] EXCEPT !.task = Forget(@)]
      BY <1>2, IdleKnown, MarksAssumption DEF Publish, Inv, TypeOK, RunnersKnown, RunnerKnown
    <2>2. runners[r].pc # "idle"
      BY <2>1 DEF Inv, TypeOK, RunnersKnown, RunnerKnown
    <2> QED
      BY <1>2, <2>1, <2>2, TaskOf, Forgotten DEF RunnerStates, Forget, Tasks
  <1>3. CASE ~Publish /\ (RunDirectly \/ Restart \/ \E p \in Processes : TakeTask(p))
    BY <1>1, <1>3, IdleKnown DEF RunDirectly, Restart, TakeTask, Running, Inv, TypeOK
  <1>4. CASE \E q \in Runners : Run(q)
    <2> PICK q \in Runners : Run(q)
      BY <1>4
    <2>1. \E n : runners' = [runners EXCEPT ![q] = n]
      BY DEF Run, ReadCache, Build, Built, ReadFile, Insert, EndOf, Continue
    <2>2. runners'[r] = runners[r]
      BY <2>1 DEF Inv, TypeOK
    <2>3. CASE Publish
      BY <1>2, <2>3
    <2> QED
      BY <1>1, <2>2, <2>3
  <1> QED
    BY <1>1, <1>2, <1>3, <1>4
    DEF Next, Serve, vars, StartRequest, TimeOut, GetResult, GiveUp, BrokerUnreachable,
        PurgeByShapeRoute, Reserve, Runners

\* The stages of a task.
LEMMA RunStages ==
    ASSUME Inv, NEW r \in Runners, Run(r), runners'[r].pc \notin {"idle", "read"}
    PROVE  /\ runners'[r].task = runners[r].task
           /\ \/ ReadCache(r) /\ runners'[r].pc = "build" /\ Cached(TaskKey(r)) = None
              \/ Build(r) /\ runners'[r].pc = "building" /\ IsModel(runners[r].task)
              \/ Build(r) /\ runners'[r].pc = "insert" /\ runners'[r].data.whole
                          /\ ~IsModel(runners[r].task)
              \/ Built(r) /\ runners'[r].pc = "file"
              \/ /\ ReadFile(r) /\ runners'[r].pc = "insert"
                 /\ runners'[r].data.whole = (files[runners[r].task.shape] = "whole")
  <1> DEFINE q == runners[r]
  <1>1. q \in RunnerStates /\ runners \in [Runners -> RunnerStates]
    BY DEF Inv, TypeOK
  <1>2. ~\E outcome : EndOf(r, outcome)
    BY <1>1, IdleKnown DEF EndOf
  <1>3. ASSUME NEW stage, Continue(r, stage)
        PROVE  runners'[r].pc = stage /\ runners'[r].task = q.task
    BY <1>1, <1>3 DEF Continue, RunnerStates
  <1>4. ASSUME NEW d, runners' = [runners EXCEPT ![r].pc = "insert", ![r].data = d]
        PROVE  runners'[r].pc = "insert" /\ runners'[r].task = q.task /\ runners'[r].data = d
    BY <1>1, <1>4 DEF RunnerStates
  <1>5. CASE ReadCache(r)
    BY <1>2, <1>3, <1>5 DEF ReadCache, AfterMiss
  <1>6. CASE Build(r)
    <2>1. CASE IsModel(q.task)
      BY <1>2, <1>3, <1>6, <2>1 DEF Build
    <2>2. CASE ~IsModel(q.task)
      BY <1>2, <1>4, <1>6, <2>2 DEF Build
    <2> QED
      BY <2>1, <2>2
  <1>7. CASE Built(r)
    BY <1>3, <1>7 DEF Built
  <1>8. CASE ReadFile(r)
    <2> DEFINE d == [kind |-> q.task.product, shape |-> q.task.shape,
                     whole |-> files[q.task.shape] = "whole"]
    <2>1. runners' = [runners EXCEPT ![r].pc = "insert", ![r].data = d]
      BY <1>8 DEF ReadFile
    <2>2. runners'[r].pc = "insert" /\ runners'[r].task = q.task /\ runners'[r].data = d
      BY <1>4, <2>1
    <2> QED
      BY <1>8, <2>2
  <1>9. CASE Insert(r)
    BY <1>2, <1>9 DEF Insert
  <1> QED
    BY <1>5, <1>6, <1>7, <1>8, <1>9 DEF Run

\* What a step does to the file of a core.
LEMMA FileSteps ==
    ASSUME Inv, [Next]_vars, NEW s \in Shapes
    PROVE  \/ files'[s] \in {files[s], "whole"}
           \/ \E q \in Runners : Build(q) /\ Opens(q) /\ runners[q].task.shape = s
                                /\ files'[s] = q
  <1>1. CASE \E q \in Runners : Run(q)
    <2> PICK q \in Runners : Run(q)
      BY <1>1
    <2>1. CASE Build(q)
      <3>1. CASE files' = files
        BY <3>1
      <3>2. CASE files' # files
        <4>1. /\ files' = [files EXCEPT ![runners[q].task.shape] = q] /\ Continue(q, "building")
              /\ runners[q].pc = "build"
          BY <2>1, <3>2 DEF Build
        <4>2. Opens(q)
          BY <4>1 DEF Opens, Continue, Inv, TypeOK, RunnerStates
        <4> QED
          BY <2>1, <4>1, <4>2 DEF Inv, TypeOK
      <3> QED
        BY <3>1, <3>2
    <2>2. CASE Built(q)
      BY <2>2 DEF Built, Inv, TypeOK
    <2>3. CASE ReadCache(q) \/ ReadFile(q) \/ Insert(q)
      BY <2>3 DEF ReadCache, ReadFile, Insert
    <2> QED
      BY <2>1, <2>2, <2>3 DEF Run
  <1>2. CASE ~\E q \in Runners : Run(q)
    BY <1>2 DEF Next, Serve, vars, StartRequest, Publish, TimeOut, GetResult, GiveUp,
                BrokerUnreachable, RunDirectly, PurgeByShapeRoute, Reserve, Restart,
                TakeTask, Runners
  <1> QED
    BY <1>1, <1>2

LEMMA FilesNext ==
    ASSUME FilesInv, [HistoryNext]_HistoryVars
    PROVE  FilesInv'
  <1> USE DEF FilesInv
  <1>1. [Next]_vars /\ Inv'
    BY InvNext DEF HistoryNext, HistoryVars
  <1>2. ASSUME NEW r \in Runners, PastFile(r)', r \notin disturbed'
        PROVE  /\ r \in disturbed => ~[HistoryNext]_HistoryVars
               /\ \A q \in Runners : ~Disturbs(q, r)
    <2>1. CASE HistoryNext
      BY <1>2, <2>1 DEF HistoryNext
    <2>2. CASE UNCHANGED HistoryVars
      BY <1>2, <2>2 DEF HistoryVars, vars, Disturbs, Opens
    <2> QED
      BY <2>1, <2>2
  <1>3. ASSUME NEW r \in Runners \ disturbed'
        PROVE  Undisturbed(r)'
    <2> DEFINE s == runners[r].task.shape
    <2>1. CASE ~PastFile(r)'
      BY <2>1 DEF PastFile, HasFile, Undisturbed
    <2>2. CASE PastFile(r)' /\ ~Run(r)
      <3>1. /\ runners[r].pc = runners'[r].pc /\ runners[r].data = runners'[r].data
            /\ runners'[r].task.shape = s
        BY <1>1, <2>2, StaysAtStage DEF PastFile, HasFile
      <3>2. Undisturbed(r)
        BY <1>2, <2>2
      <3>3. CASE HasFile(r)
        <4>1. s \in Shapes
          BY <3>3, TaskOf DEF HasFile
        <4>2. files'[s] \in {files[s], "whole"}
          BY <1>1, <1>2, <2>2, <3>3, <4>1, FileSteps DEF Disturbs, Run
        <4> QED
          BY <3>1, <3>2, <4>2 DEF Undisturbed
      <3>4. CASE ~HasFile(r)
        BY <3>1, <3>2, <3>4 DEF Undisturbed, HasFile
      <3> QED
        BY <3>3, <3>4
    <2>3. CASE PastFile(r)' /\ Run(r)
      <3>1. runners'[r].pc \notin {"idle", "read", "build"}
        BY <2>3 DEF PastFile, HasFile
      <3>2. runners'[r].task = runners[r].task /\ s \in Shapes
        BY <2>3, <3>1, RunStages, TaskOf, EndsOrGoesOn
      <3>3. CASE Build(r) /\ runners'[r].pc = "building" /\ IsModel(runners[r].task)
        BY <3>2, <3>3, IdleKnown DEF Build, EndOf, Undisturbed, Inv, TypeOK
      <3>4. CASE Build(r) /\ runners'[r].pc = "insert" /\ runners'[r].data.whole
        BY <3>4 DEF Undisturbed
      <3>5. CASE Built(r) /\ runners'[r].pc = "file"
        <4>1. files[s] \in {r, "whole"}
          BY <1>2, <2>3, <3>5 DEF Built, Undisturbed
        <4>2. files'[s] = "whole"
          BY <3>2, <3>5, <4>1 DEF Built, Inv, TypeOK
        <4> QED
          BY <3>2, <3>5, <4>2 DEF Undisturbed
      <3>6. CASE /\ ReadFile(r) /\ runners'[r].pc = "insert"
                 /\ runners'[r].data.whole = (files[s] = "whole")
        BY <1>2, <2>3, <3>6 DEF ReadFile, Undisturbed
      <3> QED
        BY <2>3, <3>1, <3>3, <3>4, <3>5, <3>6, RunStages
    <2> QED
      BY <2>1, <2>2, <2>3
  <1> QED
    BY <1>1, <1>3

\* A step that fills an entry of the cache is an insert of what a task has read.
LEMMA Inserts ==
    ASSUME Inv, [Next]_vars, NEW k \in Keys, cache'[k] # cache[k]
    PROVE  /\ cache[k] = None
           /\ \E r \in Runners : /\ Run(r) /\ runners[r].pc = "insert" /\ TaskKey(r) = k
                               /\ CacheUp /\ cache'[k] = runners[r].data
  <1>1. PICK r \in Runners : Run(r)
    BY DEF Next, Serve, vars, StartRequest, Publish, TimeOut, GetResult, GiveUp,
           BrokerUnreachable, RunDirectly, PurgeByShapeRoute, Reserve, Restart,
           TakeTask, Runners
  <1>2. Insert(r)
    BY <1>1 DEF Run, ReadCache, Build, Built, ReadFile
  <1> QED
    BY <1>1, <1>2 DEF Insert, Kept, Inv, TypeOK

\* A truncated model gets into the cache only by a task whose file another opened
\* after it had, for any number of processes and tasks: a restart that leaves half a
\* file never does it, because a task that misses the cache builds the file anew
\* (task_generate_core_3d_model calls get_core before it reads).
THEOREM TruncatedOnlyIfDisturbedHolds == HistorySpec => TruncatedOnlyIfDisturbed
  <1>1. HistoryInit => FilesInv
    BY InvInit, IdleKnown DEF HistoryInit, Init, FilesInv, Undisturbed
  <1>2. FilesInv /\ [HistoryNext]_HistoryVars => FilesInv'
    BY FilesNext
  <1>3. FilesInv /\ [HistoryNext]_HistoryVars =>
            [\A k \in Keys : cache'[k] # cache[k] /\ ~cache'[k].whole
                => \E r \in disturbed : runners[r].pc = "insert" /\ TaskKey(r) = k]_HistoryVars
    <2> SUFFICES ASSUME FilesInv, HistoryNext, NEW k \in Keys,
                        cache'[k] # cache[k], ~cache'[k].whole
                 PROVE  \E r \in disturbed : runners[r].pc = "insert" /\ TaskKey(r) = k
      OBVIOUS
    <2> QED
      BY Inserts DEF FilesInv, HistoryNext, Undisturbed
  <1> QED
    BY <1>1, <1>2, <1>3, PTL DEF HistorySpec, TruncatedOnlyIfDisturbed

--------------------------------------------------------------------------------
(* Failures *)

MayFail == "rivals" \in events \/ Misled

\* Once the cache has an entry at the key of a task that is waited for and has
\* missed it, another task of that key has been beside it.
Overtaken ==
    \A r \in Runners :
        /\ HasMissed(r) /\ IsAwaited(r) /\ CacheUp
        /\ cache[TaskKey(r)] # None
        => "rivals" \in events

Seen ==
    /\ Rivals => "rivals" \in events
    /\ handler.pc = "direct" => "direct" \in events

RequestAsked == handler.product \in Products /\ handler.shape \in Shapes

HasCause ==
    /\ handler.pc = "waiting" /\ result = Failure => MayFail
    /\ handler.answer = ServerError => MayFail /\ RequestAsked

FailuresInv == Inv /\ Seen /\ Overtaken /\ HasCause

\* What a step leaves of the request's events.
LEMMA EventsNext ==
    ASSUME FailuresInv, [HistoryNext]_HistoryVars
    PROVE  Seen' /\ (~Begins => events \subseteq events')
  BY DEF FailuresInv, Seen, HistoryNext, HistoryVars, vars, EventsNow, Begins, Rivals,
         HasMissed, PastFile, HasFile, IsAwaited, TaskKey

\* The cause of a failure stays while the request is served.
LEMMA MayFailStays ==
    ASSUME FailuresInv, [HistoryNext]_HistoryVars, MayFail, ~Begins,
           handler.product \in Products, handler.shape \in Shapes,
           handler'.product = handler.product, handler'.shape = handler.shape
    PROVE  MayFail'
  <1> DEFINE k == Key(handler.product, handler.shape)
  <1>1. k \in Keys /\ Key(handler'.product, handler'.shape) = k
    BY DEF Key, Keys
  <1>2. cache[k] # None => cache'[k] = cache[k]
    BY <1>1, Inserts DEF FailuresInv, HistoryNext, HistoryVars
  <1> QED
    BY <1>1, <1>2, EventsNext DEF MayFail, Misled

\* The task that a request waits for is at the request's key.
LEMMA AwaitedKey ==
    ASSUME Inv, NEW r \in Runners, runners[r].pc # "idle", IsAwaited(r)
    PROVE  /\ runners[r].task.product = handler.product
           /\ runners[r].task.shape = handler.shape
           /\ handler.pc \in {"waiting", "direct"}
           /\ handler.product \in Products /\ handler.shape \in Shapes
           /\ TaskKey(r) = Key(handler.product, handler.shape)
  BY DEF Inv, IsAwaited, ApiServes, TasksOwn, Own, Runners, TaskKey, RequestKnown

LEMMA WaitsSincePublish ==
    ASSUME Inv, [Next]_vars, ~Publish, handler'.pc = "waiting"
    PROVE  handler.pc = "waiting"
  <1>1. handler \in Handlers
    BY DEF Inv, TypeOK
  <1>2. CASE handler' = handler
    BY <1>2
  <1>3. CASE \E r \in Runners : Run(r)
    <2>1. \/ handler' = handler
          \/ \E a : handler' = [handler EXCEPT !.pc = "idle", !.answer = a]
      BY <1>3 DEF Run, ReadCache, Build, Built, ReadFile, Insert, EndOf, Continue, Answer
    <2> QED
      BY <1>1, <2>1 DEF Handlers
  <1>4. CASE StartRequest
    BY <1>4 DEF StartRequest
  <1>5. CASE TimeOut \/ GetResult \/ GiveUp \/ BrokerUnreachable \/ RunDirectly
    BY <1>1, <1>5 DEF TimeOut, GetResult, GiveUp, BrokerUnreachable, RunDirectly, Again,
                      Answer, Handlers
  <1> QED
    BY <1>2, <1>3, <1>4, <1>5
    DEF Next, Serve, vars, PurgeByShapeRoute, Reserve, Restart, TakeTask, Runners

LEMMA OvertakenNext ==
    ASSUME FailuresInv, [HistoryNext]_HistoryVars
    PROVE  Overtaken'
  <1> USE DEF FailuresInv
  <1>1. [Next]_vars
    BY DEF HistoryNext, HistoryVars
  <1> SUFFICES ASSUME NEW r \in Runners, HasMissed(r)', IsAwaited(r)', CacheUp,
                      (cache[TaskKey(r)])' # None
               PROVE  "rivals" \in events'
    BY DEF Overtaken
  <1>2. runners'[r].pc \notin {"idle", "read"}
    BY DEF HasMissed, PastFile, HasFile
  <1>3. runners[r].pc # "idle" /\ TaskKey(r)' = TaskKey(r) /\ TaskKey(r) \in Keys
    <2>1. runners[r].pc # "idle" /\ TaskKey(r)' = TaskKey(r)
      BY <1>1, <1>2, StaysAtStage, RunStages, EndsOrGoesOn DEF TaskKey
    <2> QED
      BY <2>1, TaskOf
  <1>4. IsAwaited(r) /\ ~Begins
    <2>1. CASE r = Api
      BY <1>3, <2>1 DEF IsAwaited, Begins, Inv, ApiServes
    <2>2. CASE r # Api
      <3>1. handler'.pc = "waiting" /\ runners'[r].task.awaited
        BY <2>2 DEF IsAwaited
      <3>2. ~Publish
        <4>1. CASE Run(r)
          BY <2>2, <4>1 DEF Publish, Run, ReadCache, Build, Built, ReadFile, Insert, EndOf,
                            Continue, Inv, TypeOK, Handlers
        <4>2. CASE ~Run(r)
          BY <1>1, <1>2, <3>1, <4>2, StaysAtStage
        <4> QED
          BY <4>1, <4>2
      <3>3. handler.pc = "waiting"
        BY <1>1, <3>1, <3>2, WaitsSincePublish
      <3>4. runners[r].task.awaited
        BY <1>1, <1>2, <3>1, <3>2, StaysAtStage, RunStages
      <3> QED
        BY <3>3, <3>4 DEF IsAwaited, Begins
    <2> QED
      BY <2>1, <2>2
  <1>5. events \subseteq events'
    BY <1>4, EventsNext
  <1>6. CASE HasMissed(r) /\ cache[TaskKey(r)] # None
    BY <1>4, <1>5, <1>6 DEF Overtaken
  <1>7. CASE HasMissed(r) /\ cache[TaskKey(r)] = None
    <2>1. cache'[TaskKey(r)] # cache[TaskKey(r)]
      BY <1>3, <1>7
    <2>2. PICK q \in Runners : Run(q) /\ runners[q].pc = "insert" /\ TaskKey(q) = TaskKey(r)
      BY <1>1, <1>3, <2>1, Inserts
    <2>3. q # r
      BY <1>2, <2>2, RunStages DEF ReadCache, Build, Built, ReadFile
    <2>4. Rivals
      BY <1>4, <1>7, <2>2, <2>3 DEF Rivals, HasMissed, PastFile
    <2> QED
      BY <1>5, <2>4 DEF Seen
  <1>8. CASE ~HasMissed(r)
    <2>1. Run(r)
      BY <1>1, <1>2, <1>8, StaysAtStage DEF HasMissed, PastFile, HasFile
    <2>2. ReadCache(r) /\ Cached(TaskKey(r)) = None
      BY <1>2, <1>8, <2>1, RunStages DEF HasMissed, PastFile, HasFile, Build, Built, ReadFile
    <2> QED
      BY <1>3, <2>2 DEF Cached, ReadCache, TaskKey
  <1> QED
    BY <1>6, <1>7, <1>8

\* A task that is waited for fails only with a cause.
LEMMA RunFails ==
    ASSUME FailuresInv, NEW r \in Runners, Run(r), IsAwaited(r), ~MayFail
    PROVE  \/ UNCHANGED <<handler, result>>
           \/ \E outcome \in Outcomes \ {Failure} : EndOf(r, outcome)
  <1> USE DEF FailuresInv
  <1> DEFINE q == runners[r]
             k == TaskKey(r)
  <1>1. /\ q.pc # "idle" /\ RunnerKnown(q) /\ q.task.product = handler.product
        /\ k \in Keys /\ k = Key(handler.product, handler.shape)
    BY EndsOrGoesOn, TaskOf, AwaitedKey
  <1>2. Data \subseteq Outcomes \ {Failure} /\ Nothing \in Outcomes \ {Failure}
    BY MarksAssumption DEF Outcomes
  <1>3. CASE ReadCache(r)
    <2> DEFINE hit == Cached(k)
    <2>1. CASE hit = None
      BY <1>3, <2>1 DEF ReadCache, Continue
    <2>2. CASE hit # None
      <3>1. hit = cache[k] /\ hit \in Data
        BY <1>1, <2>2 DEF Cached, Inv, TypeOK
      <3>2. Decoded(q.task.product, hit) = hit
        BY <1>1, <2>2, <3>1 DEF Decoded, MayFail, Misled
      <3>3. EndOf(r, hit)
        BY <1>3, <2>2, <3>2 DEF ReadCache
      <3> QED
        BY <1>2, <3>1, <3>3
    <2> QED
      BY <2>1, <2>2
  <1>4. CASE Build(r) \/ Built(r) \/ ReadFile(r)
    BY <1>2, <1>4 DEF Build, Built, ReadFile, Continue
  <1>5. CASE Insert(r)
    <2>1. q.data \in Data /\ HasMissed(r)
      BY <1>1, <1>5 DEF Insert, RunnerKnown, HasMissed, PastFile
    <2>2. CacheUp => cache[k] = None
      BY <2>1 DEF Overtaken, MayFail
    <2> QED
      BY <1>2, <1>5, <2>1, <2>2 DEF Insert
  <1> QED
    BY <1>3, <1>4, <1>5 DEF Run

LEMMA FailuresNext ==
    ASSUME FailuresInv, [HistoryNext]_HistoryVars
    PROVE  FailuresInv'
  <1> USE DEF FailuresInv
  <1>1. [Next]_vars
    BY DEF HistoryNext, HistoryVars
  <1>2. Inv' /\ Seen' /\ Overtaken'
    BY <1>1, InvNext, EventsNext, OvertakenNext
  <1> SUFFICES HasCause'
    BY <1>2
  <1>3. ServerError # None /\ Failure # None /\ ServerError \notin Data /\ Failure \notin Data
        /\ WrongDimensions # ServerError /\ handler \in Handlers
    BY MarksAssumption DEF Inv, TypeOK
  <1>4. handler.pc # "idle" => RequestAsked /\ handler.answer = None
    BY DEF Inv, RequestKnown, RequestAsked
  <1>5. ASSUME MayFail, RequestAsked, ~Begins, UNCHANGED <<handler.product, handler.shape>>
        PROVE  HasCause'
    BY <1>5, MayFailStays DEF HasCause, RequestAsked
  <1>6. ASSUME UNCHANGED <<handler, result>>
        PROVE  HasCause'
    <2>1. ~Begins
      BY <1>6 DEF Begins
    <2>2. CASE handler.answer = ServerError \/ (handler.pc = "waiting" /\ result = Failure)
      BY <1>4, <1>5, <1>6, <2>1, <2>2 DEF HasCause
    <2> QED
      BY <1>6, <2>2 DEF HasCause
  <1>7. ASSUME handler'.answer # ServerError, handler'.pc # "waiting" \/ result' # Failure
        PROVE  HasCause'
    BY <1>7 DEF HasCause
  <1>8. ASSUME NEW a, handler.pc # "idle", Answer(a),
               a = ServerError => MayFail
        PROVE  HasCause'
    <2>1. /\ handler'.pc = "idle" /\ handler'.answer = a
          /\ UNCHANGED <<handler.product, handler.shape>>
      BY <1>3, <1>8 DEF Answer, Handlers
    <2> QED
      BY <1>4, <1>5, <1>7, <1>8, <2>1 DEF Begins
  <1>9. CASE \E r \in Runners : Run(r)
    <2> PICK r \in Runners : Run(r)
      BY <1>9
    <2>1. runners[r].pc # "idle"
      BY EndsOrGoesOn
    <2>2. CASE UNCHANGED <<handler, result>>
      BY <1>6, <2>2
    <2>3. ASSUME NEW outcome \in Outcomes, EndOf(r, outcome), outcome = Failure => MayFail
          PROVE  HasCause'
      <3>1. CASE r = Api
        <4> DEFINE a == CASE outcome = Nothing -> WrongDimensions
                          [] outcome = Failure -> ServerError
                          [] OTHER -> outcome
        <4>1. handler.pc # "idle"
          BY <2>1, <3>1 DEF Inv, ApiServes
        <4>2. a = ServerError => outcome = Failure
          BY <1>3 DEF Outcomes
        <4>3. Answer(a)
          BY <2>3, <3>1 DEF EndOf
        <4> HIDE DEF a
        <4> QED
          BY <1>8, <2>3, <4>1, <4>2, <4>3
      <3>2. CASE r # Api
        <4>1. handler' = handler /\ ~Begins
          BY <2>3, <3>2 DEF EndOf, Begins
        <4>2. CASE result' = result
          BY <1>6, <4>1, <4>2
        <4>3. CASE result' # result
          <5>1. result' = outcome
            BY <2>3, <3>2, <4>3 DEF EndOf
          <5>2. CASE outcome = Failure /\ handler.pc = "waiting"
            BY <1>4, <1>5, <2>3, <4>1, <5>2
          <5>3. CASE handler.answer = ServerError
            BY <1>5, <4>1, <5>3 DEF HasCause
          <5> QED
            BY <1>7, <4>1, <5>1, <5>2, <5>3
        <4> QED
          BY <4>2, <4>3
      <3> QED
        BY <3>1, <3>2
    <2>4. CASE MayFail
      BY <2>2, <2>3, <2>4, EndsOrGoesOn
    <2>5. CASE ~MayFail /\ IsAwaited(r)
      BY <2>2, <2>3, <2>5, RunFails
    <2>6. CASE ~MayFail /\ ~IsAwaited(r)
      <3>1. r # Api
        BY <2>6 DEF IsAwaited
      <3>2. CASE handler.pc = "waiting"
        <4>1. UNCHANGED <<handler, result>>
          BY <2>6, <3>1, <3>2 DEF IsAwaited, Run, ReadCache, Build, Built, ReadFile, Insert,
                                  EndOf, Continue
        <4> QED
          BY <1>6, <4>1
      <3>3. CASE handler.pc # "waiting"
        <4>1. handler' = handler
          BY <3>1 DEF Run, ReadCache, Build, Built, ReadFile, Insert, EndOf, Continue
        <4> QED
          BY <1>7, <2>6, <3>3, <4>1 DEF HasCause
      <3> QED
        BY <3>2, <3>3
    <2> QED
      BY <2>4, <2>5, <2>6
  <1>10. CASE StartRequest
    BY <1>3, <1>7, <1>10 DEF StartRequest
  <1>11. CASE Publish
    <2>1. result' = None /\ handler'.answer = None
      BY <1>3, <1>4, <1>11 DEF Publish, Handlers
    <2> QED
      BY <1>3, <1>7, <2>1
  <1>12. CASE TimeOut \/ (GetResult /\ Again) \/ BrokerUnreachable
    <2>1. handler'.pc # "waiting" /\ handler'.answer = None
      BY <1>3, <1>4, <1>12 DEF TimeOut, GetResult, BrokerUnreachable, Again, Handlers
    <2> QED
      BY <1>3, <1>7, <2>1
  <1>13. CASE GetResult /\ ~Again
    <2>1. handler.pc = "waiting"
      BY <1>13 DEF GetResult
    <2>2. \/ result = Failure /\ Answer(ServerError)
          \/ result \in Data /\ Answer(result)
      BY <1>13 DEF GetResult
    <2> QED
      BY <1>3, <1>8, <2>1, <2>2 DEF HasCause
  <1>14. CASE GiveUp
    BY <1>3, <1>8, <1>14 DEF GiveUp
  <1>15. CASE RunDirectly
    <2>1. CASE handler.product = "gapping"
      <3>1. MayFail /\ Answer(ServerError) /\ handler.pc = "direct"
        BY <1>15, <2>1 DEF RunDirectly, Seen, MayFail, Misled
      <3> QED
        BY <1>8, <3>1
    <2>2. CASE handler.product # "gapping"
      BY <1>6, <1>15, <2>2 DEF RunDirectly
    <2> QED
      BY <2>1, <2>2
  <1>16. CASE \/ PurgeByShapeRoute \/ Reserve \/ Restart \/ UNCHANGED vars
              \/ \E p \in Processes : TakeTask(p)
    BY <1>6, <1>16 DEF PurgeByShapeRoute, Reserve, Restart, vars, TakeTask
  <1> QED
    BY <1>1, <1>9, <1>10, <1>11, <1>12, <1>13, <1>14, <1>15, <1>16
    DEF Next, Serve, Runners

\* A request fails only if two tasks of its key had both missed the cache while it
\* waited for one of them, or if it asked for a gapping drawing and was given a model
\* or the task of another drawing: with any number of processes, tries and restarts,
\* nothing else makes insert_plot or a task fail.
THEOREM FailsOnlyByRaceHolds == HistorySpec => []FailsOnlyByRace
  <1>1. HistoryInit => FailuresInv
    BY InvInit, IdleKnown, MarksAssumption
    DEF HistoryInit, Init, FailuresInv, Seen, Overtaken, HasCause, Rivals, HasMissed,
        PastFile, HasFile
  <1>2. FailuresInv /\ [HistoryNext]_HistoryVars => FailuresInv'
    BY FailuresNext
  <1>3. FailuresInv => FailsOnlyByRace
    BY DEF FailuresInv, HasCause, MayFail, FailsOnlyByRace
  <1> QED
    BY <1>1, <1>2, <1>3, PTL DEF HistorySpec
================================================================================
