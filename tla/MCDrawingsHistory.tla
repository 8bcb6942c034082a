--------------------------- MODULE MCDrawingsHistory ---------------------------
(***************************************************************************)
(* Drawings with two history variables.  disturbed holds the runners whose *)
(* model file another task has opened since they did; events is what has   *)
(* befallen the request being served, or the last one: "rivals", that two  *)
(* tasks of one key had both missed the cache while it waited for one of   *)
(* them, and "direct", that the API turned to running the task itself.     *)
(***************************************************************************)
EXTENDS MCDrawings

VARIABLES disturbed, events

HistoryVars == <<vars, disturbed, events>>

HistoryInit == Init /\ disturbed = {} /\ events = {}

Opens(r) == runners[r].pc = "build" /\ runners'[r].pc = "building"

HasFile(r) == runners[r].pc \in {"building", "file"}

Disturbs(q, r) ==
    q # r /\ Opens(q) /\ HasFile(r) /\ runners[r].task.shape = runners[q].task.shape

PastFile(r) == HasFile(r) \/ runners[r].pc = "insert"

HasMissed(r) == PastFile(r) \/ runners[r].pc = "build"

\* What the request being served waits for.
IsAwaited(r) == r = Api \/ (handler.pc = "waiting" /\ runners[r].task.awaited)

Rivals ==
    \E q, r \in Runners :
        /\ q # r
        /\ HasMissed(q) /\ IsAwaited(q)
        /\ HasMissed(r) /\ TaskKey(r) = TaskKey(q)

\* A gapping drawing that no task of its own answers.
Misled ==
    LET row == cache[Key(handler.product, handler.shape)] IN
    /\ handler.product = "gapping"
    /\ "direct" \in events \/ (row # None /\ row.kind # "gapping")

Begins == handler.pc = "idle" /\ handler'.pc # "idle"

EventsNow ==
    (IF Rivals THEN {"rivals"} ELSE {}) \union
    (IF handler.pc = "direct" THEN {"direct"} ELSE {})

HistoryNext ==
    /\ Next
    /\ disturbed' = {r \in Runners : /\ PastFile(r)'
                                     /\ \/ r \in disturbed
                                        \/ \E q \in Runners : Disturbs(q, r)}
    /\ events' = (IF Begins THEN {} ELSE events) \union EventsNow'

HistorySpec == HistoryInit /\ [][HistoryNext]_HistoryVars

\* The cache would serve a truncated model for ever.  One gets in only by a task
\* whose file another task opened after it had (get_core writes to a path named by
\* the hash, and the task reads it back): never because a worker was restarted
\* while it wrote, or because of what it left on the disk.
TruncatedOnlyIfDisturbed ==
    [][\A k \in Keys : cache'[k] # cache[k] /\ ~cache'[k].whole
          => \E r \in disturbed : runners[r].pc = "insert" /\ TaskKey(r) = k]_HistoryVars

\* A request fails only if two tasks of its key had both missed the cache while it
\* waited for one of them, whose plot the primary key then refused; or if it
\* asked for a gapping drawing and the key led to a model, or the API ran the task
\* of another drawing.  Tasks of earlier tries that are over, late replies, lost
\* tasks and restarts never make a request fail.
FailsOnlyByRace ==
    handler.answer = ServerError => "rivals" \in events \/ Misled
================================================================================
