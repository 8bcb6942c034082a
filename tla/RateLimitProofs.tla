----------------------------- MODULE RateLimitProofs ----------------------------
(***************************************************************************)
(* Theorems of RateLimit, for any number of clients and threads and any    *)
(* limit, window length and resolution of the clock.                       *)
(*                                                                         *)
(* How many requests come through in the span of a window is a theorem of  *)
(* requests that come one at a time, so of MCRateLimit's history: those    *)
(* that count belong to at most two windows, and what a window has let     *)
(* through it has counted (TwoWindows).                                    *)
(***************************************************************************)
EXTENDS MCRateLimit, FiniteSetTheorems, TLAPS

\* A thread's clock may be behind, never ahead.
ClocksRead == \A t \in Threads : threads[t].now <= clock

Inv == TypeOK /\ ClocksRead /\ WindowsStarted

--------------------------------------------------------------------------------

\* Rounding down and adding one is always more than the exact quotient.
LEMMA RoundedUp ==
    ASSUME NEW x \in Int, NEW d \in Nat \ {0}
    PROVE  /\ x \div d \in Int
           /\ (x \div d + 1) * d > x
  <1>1. x \div d \in Int
    OBVIOUS
  <1>2. (x \div d + 1) * d > x
    BY Z3
  <1> QED
    BY <1>1, <1>2

LEMMA PerIsNat == Per \in Nat \ {0}
  BY LimitAssumption DEF Per

\* The map after a window was opened: the opened one, and windows it had.
LEMMA Opening ==
    ASSUME NEW k \in Keys, NEW w, windows \in [Keys -> Windows \union {None}]
    PROVE  /\ AfterOpening(k, w)[k] = w
           /\ \A j \in Keys \ {k} : AfterOpening(k, w)[j] \in {windows[j], None}
           /\ DOMAIN AfterOpening(k, w) = Keys
           /\ AfterOpening(k, w) = [j \in Keys |-> AfterOpening(k, w)[j]]
  BY DEF AfterOpening

LEMMA TypesInit == Init => Inv
  BY DEF Init, Inv, TypeOK, ThreadStates, ClocksRead, WindowsStarted, Held

LEMMA TickKeeps == ASSUME Inv, Tick PROVE Inv'
  BY DEF Tick, Inv, TypeOK, ThreadStates, ClocksRead, WindowsStarted, Held, Windows

LEMMA ReadClockKeeps ==
    ASSUME Inv, NEW t \in Threads, ReadClock(t) PROVE Inv'
  BY DEF ReadClock, Inv, TypeOK, ThreadStates, ClocksRead, WindowsStarted, Held

LEMMA OpenWindowKeeps ==
    ASSUME Inv, NEW t \in Threads, OpenWindow(t) PROVE Inv'
  <1> DEFINE k == threads[t].key
             w == Opened(threads[t].now)
  <1>1. threads[t] \in ThreadStates /\ k \in Keys
    BY DEF Inv, TypeOK, OpenWindow, ThreadStates
  <1>2. w \in Windows /\ w.start <= clock
    BY <1>1 DEF Opened, Windows, ThreadStates, Inv, ClocksRead
  <1>3. windows' = AfterOpening(k, w) /\ clock' = clock
        /\ threads' = [threads EXCEPT ![t].key = None]
    BY DEF OpenWindow
  <1>4. /\ windows' = [j \in Keys |-> windows'[j]]
        /\ windows'[k] = w
        /\ \A j \in Keys \ {k} : windows'[j] \in {windows[j], None}
    BY <1>1, <1>3, Opening DEF Inv, TypeOK
  <1>5. windows' \in [Keys -> Windows \union {None}]
    BY <1>2, <1>4 DEF Inv, TypeOK
  <1>6. threads' \in [Threads -> ThreadStates] /\ ClocksRead'
    BY <1>3 DEF Inv, TypeOK, ThreadStates, ClocksRead
  <1>7. WindowsStarted'
    BY <1>2, <1>3, <1>4 DEF WindowsStarted, Held, Inv
  <1> QED
    BY <1>3, <1>5, <1>6, <1>7 DEF Inv, TypeOK

LEMMA CountRequestKeeps ==
    ASSUME Inv, NEW t \in Threads, CountRequest(t) PROVE Inv'
  <1> DEFINE k == threads[t].key
             now == threads[t].now
             counted == [windows[k] EXCEPT !.count = @ + 1]
             r == IF Exceeded(counted) THEN RetryAfter(counted, now) ELSE None
  <1>1. threads[t] \in ThreadStates /\ k \in Keys /\ now \in Nat
    BY DEF Inv, TypeOK, CountRequest, ThreadStates
  <1>2. windows[k] \in Windows
    BY <1>1 DEF Inv, TypeOK, CountRequest
  <1>3. counted \in Windows /\ counted.start = windows[k].start
    BY <1>2 DEF Windows
  <1>4. clock' = clock /\ windows' = [windows EXCEPT ![k] = counted]
        /\ threads' = [threads EXCEPT ![t].key = None, ![t].retryAfter = r]
    BY DEF CountRequest
  <1>5. r \in Int \union {None}
    <2>1. Per - (now - counted.start) \in Int
      BY <1>1, <1>3, PerIsNat DEF Windows
    <2>2. RetryAfter(counted, now) \in Int
      BY <2>1, RoundedUp, LimitAssumption DEF RetryAfter
    <2> QED
      BY <2>2
  <1>6. threads' \in [Threads -> ThreadStates] /\ ClocksRead'
    BY <1>4, <1>5 DEF Inv, TypeOK, ThreadStates, ClocksRead
  <1>7. windows' \in [Keys -> Windows \union {None}]
    BY <1>1, <1>3, <1>4 DEF Inv, TypeOK
  <1>8. /\ windows'[k] = counted
        /\ \A j \in Keys \ {k} : windows'[j] = windows[j]
    BY <1>1, <1>4 DEF Inv, TypeOK
  <1>9. windows[k].start <= clock
    BY <1>1 DEF Inv, WindowsStarted, Held, CountRequest
  <1>10. WindowsStarted'
    BY <1>3, <1>4, <1>8, <1>9 DEF WindowsStarted, Held, Inv
  <1> QED
    BY <1>4, <1>6, <1>7, <1>10 DEF Inv, TypeOK

LEMMA InvInductive == ASSUME Inv, [Next]_vars PROVE Inv'
  <1>1. CASE UNCHANGED vars
    BY <1>1 DEF vars, Inv, TypeOK, ClocksRead, WindowsStarted, Held
  <1>2. CASE Next
    BY <1>2, TickKeeps, ReadClockKeeps, OpenWindowKeeps, CountRequestKeeps DEF Next
  <1> QED
    BY <1>1, <1>2

\* Every variable keeps its type.
THEOREM TypeCorrect == Spec => []TypeOK
  <1>1. Inv => TypeOK
    BY DEF Inv
  <1> QED
    BY <1>1, TypesInit, InvInductive, PTL DEF Spec

\* No window is ever dated ahead of the clock, however late a thread that read
\* the clock gets the lock.
THEOREM WindowsAreStarted == Spec => []WindowsStarted
  <1>1. Inv => WindowsStarted
    BY DEF Inv
  <1> QED
    BY <1>1, TypesInit, InvInductive, PTL DEF Spec

--------------------------------------------------------------------------------

\* The map never holds more than MaxWindows windows: the one that would exceed
\* the number stays alone.
THEOREM MapStaysBounded == Spec => []MapBounded
  <1>1. Init => MapBounded
    <2>1. SUFFICES ASSUME Init PROVE MapBounded
      OBVIOUS
    <2>2. Held = {}
      BY <2>1 DEF Init, Held
    <2> QED
      BY <2>2, FS_EmptySet, LimitAssumption DEF MapBounded
  <1>2. ASSUME Inv, MapBounded, [Next]_vars PROVE MapBounded'
    <2>1. IsFiniteSet(Held) /\ Held \subseteq Keys
      BY FS_Subset, BoundAssumption DEF Held
    <2>2. CASE Held' = Held
      BY <1>2, <2>2 DEF MapBounded
    <2>3. CASE \E t \in Threads : OpenWindow(t)
      <3>1. PICK t \in Threads : OpenWindow(t)
        BY <2>3
      <3> DEFINE k == threads[t].key
                 w == Opened(threads[t].now)
      <3>2. k \in Keys /\ windows' = AfterOpening(k, w)
        BY <1>2, <3>1 DEF OpenWindow, Inv, TypeOK, ThreadStates
      <3>3. CASE Cardinality(Held \union {k}) > MaxWindows
        <4>1. Held' \subseteq {k}
          BY <3>2, <3>3 DEF AfterOpening, Held
        <4>2. IsFiniteSet({k}) /\ Cardinality({k}) = 1
          BY FS_Singleton
        <4>3. Cardinality(Held') <= 1 /\ Cardinality(Held') \in Nat
          BY <4>1, <4>2, FS_Subset, FS_CardinalityType
        <4> QED
          BY <4>3, LimitAssumption DEF MapBounded
      <3>4. CASE ~(Cardinality(Held \union {k}) > MaxWindows)
        <4>1. Held' \subseteq Held \union {k}
          BY <1>2, <3>2, <3>4 DEF AfterOpening, Held, Inv, TypeOK
        <4>2. IsFiniteSet(Held \union {k})
          BY <2>1, FS_AddElement
        <4>3. /\ Cardinality(Held') <= Cardinality(Held \union {k})
              /\ Cardinality(Held') \in Nat
              /\ Cardinality(Held \union {k}) \in Nat
          BY <4>1, <4>2, FS_Subset, FS_CardinalityType
        <4> QED
          BY <4>3, <3>4, LimitAssumption DEF MapBounded
      <3> QED
        BY <3>3, <3>4
    <2>4. ASSUME NEW t \in Threads, CountRequest(t) PROVE MapBounded'
      <3>1. Held' \subseteq Held
        BY <1>2, <2>4 DEF CountRequest, Held, Inv, TypeOK
      <3>2. Cardinality(Held') <= Cardinality(Held) /\ Cardinality(Held') \in Nat
            /\ Cardinality(Held) \in Nat
        BY <3>1, <2>1, FS_Subset, FS_CardinalityType
      <3> QED
        BY <1>2, <3>2, LimitAssumption DEF MapBounded
    <2>5. CASE Tick \/ (\E t \in Threads : ReadClock(t)) \/ UNCHANGED vars
      <3>1. Held' = Held
        BY <2>5 DEF Tick, ReadClock, vars, Held
      <3> QED
        BY <2>2, <3>1
    <2> QED
      BY <1>2, <2>3, <2>4, <2>5 DEF Next
  <1> QED
    BY <1>1, <1>2, TypesInit, InvInductive, PTL DEF Spec

\* Waiting as long as Retry-After says is always enough, whatever the limit, the
\* length of the window and the resolution of the clock.
THEOREM RetryAlwaysEnough == Spec => RetryIsEnough
  <1>1. ASSUME Inv, [Next]_vars, NEW t \in Threads,
               threads'[t].retryAfter # None, threads[t].retryAfter = None
        PROVE  Expired(windows[threads[t].key],
                       threads[t].now + threads'[t].retryAfter * Ticks)
    <2>1. CountRequest(t)
      <3>1. threads' # threads
        BY <1>1
      <3>2. PICK u \in Threads : ReadClock(u) \/ OpenWindow(u) \/ CountRequest(u)
        BY <1>1, <3>1 DEF Next, vars, Tick
      <3>3. threads \in [Threads -> ThreadStates]
        BY <1>1 DEF Inv, TypeOK
      <3>4. ~ReadClock(u)
        BY <1>1, <3>3 DEF ReadClock, ThreadStates
      <3>5. ~OpenWindow(u)
        BY <1>1, <3>3 DEF OpenWindow, ThreadStates
      <3>6. u = t
        BY <1>1, <3>2, <3>3, <3>4, <3>5 DEF CountRequest
      <3> QED
        BY <3>2, <3>4, <3>5, <3>6
    <2> DEFINE k == threads[t].key
               now == threads[t].now
               counted == [windows[k] EXCEPT !.count = @ + 1]
               left == Per - (now - windows[k].start)
    <2>2. k \in Keys /\ now \in Nat /\ windows[k] \in Windows
      BY <1>1, <2>1 DEF CountRequest, Inv, TypeOK, ThreadStates
    <2>3. counted.start = windows[k].start /\ left \in Int /\ Per \in Nat
      BY <2>2, PerIsNat DEF Windows
    <2>4. threads'[t].retryAfter = left \div Ticks + 1
      BY <1>1, <2>1, <2>3 DEF CountRequest, RetryAfter, Inv, TypeOK, ThreadStates
    <2>5. /\ Ticks \in Nat \ {0}
          /\ left \div Ticks \in Int
          /\ (left \div Ticks + 1) * Ticks > left
      BY <2>3, RoundedUp, LimitAssumption
    <2>6. (left \div Ticks + 1) * Ticks \in Int
      BY <2>5
    <2>7. (now + (left \div Ticks + 1) * Ticks) - windows[k].start >= Per
      BY <2>2, <2>3, <2>5, <2>6 DEF Windows
    <2>8. (now + threads'[t].retryAfter * Ticks) - windows[k].start >= Per
      BY <2>4, <2>7
    <2>9. Expired(windows[k], now + threads'[t].retryAfter * Ticks)
      BY <2>8 DEF Expired
    <2> QED
      BY <2>9
  <1>2. ASSUME Inv, [Next]_vars
        PROVE  \A t \in Threads :
                   LET k == threads[t].key
                       r == threads'[t].retryAfter
                   IN  r # None /\ threads[t].retryAfter = None
                         => Expired(windows[k], threads[t].now + r * Ticks)
    BY <1>1, <1>2
  <1> QED
    BY <1>2, TypesInit, InvInductive, PTL DEF Spec, RetryIsEnough

--------------------------------------------------------------------------------
(* Requests that come one at a time, and at most two windows of them *)

Busy == {t \in Threads : threads[t].key # None}

\* Of the requests let through that count, some belong to the window before, the
\* others to the window there is, which has counted them.
TwoWindows(k) ==
    \E earlier \in SUBSET admitted[k] :
        LET current == Recent(admitted[k]) \ earlier IN
        /\ Cardinality(earlier) <= MaxRequests
        /\ \A r \in earlier : r.at <= windows[k].start
        /\ Cardinality(current) <= MaxRequests
        /\ Cardinality(current) <= windows[k].count

AloneInv ==
    /\ \A k \in Keys : /\ IsFiniteSet(admitted[k])
                       /\ \A r \in admitted[k] : r.at \in Nat /\ r.at <= clock
                       /\ ~alone => admitted[k] = {}
    /\ alone => /\ \A t, u \in Busy : t = u
                /\ \A t \in Busy, k \in Keys : \A r \in admitted[k] :
                      r.at <= threads[t].now
                /\ \A k \in Keys : IF windows[k] = None THEN admitted[k] = {}
                                   ELSE TwoWindows(k)

LEMMA OneIsBusy ==
    ASSUME HistoryNext, alone', NEW t \in Busy', NEW u \in Busy'
    PROVE  t = u
  <1>1. Busy' = {v \in Threads : threads'[v].key # None} /\ Busy' \subseteq Threads
    BY DEF Busy
  <1>2. IsFiniteSet(Busy')
    BY <1>1, BoundAssumption, FS_Subset
  <1>3. Cardinality(Busy') <= 1
    BY <1>1 DEF HistoryNext
  <1>4. /\ Cardinality(Busy') \in Nat /\ Cardinality(Busy' \ {t}) \in Nat
        /\ Cardinality(Busy' \ {t}) = Cardinality(Busy') - 1 /\ IsFiniteSet(Busy' \ {t})
    BY <1>2, FS_RemoveElement, FS_CardinalityType
  <1>5. Cardinality(Busy' \ {t}) = 0
    BY <1>3, <1>4
  <1> QED
    BY <1>4, <1>5, FS_EmptySet

LEMMA OneMore ==
    ASSUME NEW S, NEW T, NEW x, IsFiniteSet(T), S \subseteq T \union {x}
    PROVE  /\ IsFiniteSet(S) /\ Cardinality(S) \in Nat /\ Cardinality(T) \in Nat
           /\ Cardinality(S) <= Cardinality(T) + 1
  <1>1. /\ IsFiniteSet(T \union {x})
        /\ \/ Cardinality(T \union {x}) = Cardinality(T)
           \/ Cardinality(T \union {x}) = Cardinality(T) + 1
    BY FS_AddElement, Zenon
  <1>2. /\ IsFiniteSet(S) /\ Cardinality(S) <= Cardinality(T \union {x})
        /\ Cardinality(S) \in Nat /\ Cardinality(T \union {x}) \in Nat
        /\ Cardinality(T) \in Nat
    BY <1>1, FS_Subset, FS_CardinalityType
  <1> QED
    BY <1>1, <1>2

LEMMA Fewer ==
    ASSUME NEW S, NEW T, IsFiniteSet(T), S \subseteq T
    PROVE  /\ IsFiniteSet(S) /\ Cardinality(S) \in Nat /\ Cardinality(T) \in Nat
           /\ Cardinality(S) <= Cardinality(T)
  BY FS_Subset, FS_CardinalityType

\* The steps that end a request, and what they let through.
LEMMA RequestsEnd ==
    ASSUME Inv, Next
    PROVE  /\ \A t \in Threads : \A k \in Keys : Admits(t, k) =>
                 OpenWindow(t) \/ (CountRequest(t) /\ windows[k].count + 1 <= MaxRequests)
           /\ \A t \in Threads : OpenWindow(t) \/ CountRequest(t) =>
                 /\ t \in Busy /\ t \notin Busy'
                 /\ \A u \in Threads \ {t} : threads'[u] = threads[u]
           /\ \A t \in Threads : ReadClock(t) =>
                 /\ windows' = windows /\ threads'[t].now = clock
                 /\ \A u \in Threads \ {t} : threads'[u] = threads[u]
  <1>0. threads \in [Threads -> ThreadStates] /\ \A t \in Threads : threads[t] \in ThreadStates
    BY DEF Inv, TypeOK
  <1>1. ASSUME NEW t \in Threads, OpenWindow(t) \/ CountRequest(t)
        PROVE  /\ threads[t].key # None /\ threads'[t].key = None
               /\ \A u \in Threads \ {t} : threads'[u] = threads[u]
    BY <1>0, <1>1 DEF OpenWindow, CountRequest, ThreadStates
  <1>2. ASSUME NEW t \in Threads, ReadClock(t)
        PROVE  /\ windows' = windows /\ threads[t].key = None /\ threads'[t].now = clock
               /\ \A u \in Threads \ {t} : threads'[u] = threads[u]
    BY <1>0, <1>2 DEF ReadClock
  <1>3. ASSUME NEW t \in Threads, NEW k \in Keys, Admits(t, k)
        PROVE  OpenWindow(t) \/ (CountRequest(t) /\ windows[k].count + 1 <= MaxRequests)
    <2>1. threads[t].key = k /\ threads'[t].key = None /\ k # None
      BY <1>3, NoneAssumption DEF Admits
    <2>2. OpenWindow(t) \/ CountRequest(t)
      <3>1. threads'[t] # threads[t]
        BY <2>1
      <3>2. PICK u \in Threads : ReadClock(u) \/ OpenWindow(u) \/ CountRequest(u)
        BY <3>1 DEF Next, Tick
      <3>3. u = t
        BY <1>1, <1>2, <3>1, <3>2
      <3> QED
        BY <1>2, <2>1, <3>2, <3>3
    <2>3. ASSUME CountRequest(t) PROVE windows[k].count + 1 <= MaxRequests
      <3> DEFINE now == threads[t].now
                 counted == [windows[k] EXCEPT !.count = @ + 1]
      <3>1. windows[k] \in Windows /\ now \in Nat
        BY <1>0, <2>1, <2>3 DEF CountRequest, Inv, TypeOK, ThreadStates
      <3>2. counted \in Windows /\ counted.count = windows[k].count + 1
        BY <3>1 DEF Windows
      <3>3. threads'[t].retryAfter = IF Exceeded(counted) THEN RetryAfter(counted, now)
                                     ELSE None
        BY <1>0, <2>1, <2>3 DEF CountRequest, ThreadStates
      <3>4. RetryAfter(counted, now) # None
        <4>1. Per - (now - counted.start) \in Int
          BY <3>1, <3>2, PerIsNat DEF Windows
        <4>2. RetryAfter(counted, now) \in Int
          BY <4>1, RoundedUp, LimitAssumption DEF RetryAfter
        <4> QED
          BY <4>2, NoneAssumption
      <3>5. ~Exceeded(counted)
        BY <1>3, <3>3, <3>4 DEF Admits
      <3> QED
        BY <3>1, <3>2, <3>5, LimitAssumption DEF Exceeded, Windows
    <2> QED
      BY <2>2, <2>3
  <1> QED
    BY <1>1, <1>2, <1>3 DEF Busy

Admitting(k) == \E t \in Threads : Admits(t, k)

LEMMA AdmittedAfter ==
    ASSUME Inv, AloneInv, HistoryNext, NEW k \in Keys
    PROVE  /\ clock \in Nat /\ clock' \in Nat /\ clock <= clock' /\ Per \in Nat
           /\ IsFiniteSet(admitted'[k])
           /\ \A r \in admitted'[k] : r.at \in Nat /\ r.at <= clock'
           /\ ~alone' => admitted'[k] = {}
           /\ alone' => /\ Recent(admitted[k]) \subseteq admitted'[k]
                        /\ admitted'[k] \subseteq Recent(admitted[k]) \union
                              (IF Admitting(k) THEN {Another(admitted[k])} ELSE {})
           /\ Another(admitted[k]).at = clock
  <1>1. clock \in Nat /\ clock' \in Nat /\ clock <= clock' /\ Per \in Nat
    <2>1. clock \in Nat /\ Per \in Nat
      BY PerIsNat DEF Inv, TypeOK
    <2>2. clock' = clock \/ clock' = clock + 1
      BY DEF HistoryNext, Next, Tick, ReadClock, OpenWindow, CountRequest
    <2> QED
      BY <2>1, <2>2
  <1>2. admitted'[k] = IF ~alone' THEN {}
                       ELSE IF Admitting(k)
                       THEN Recent(admitted[k]) \union {Another(admitted[k])}
                       ELSE Recent(admitted[k])
    BY DEF HistoryNext, Admitting
  <1>3. /\ IsFiniteSet(Recent(admitted[k])) /\ Recent(admitted[k]) \subseteq admitted[k]
        /\ \A r \in Recent(admitted[k]) : r.at \in Nat /\ r.at <= clock'
    <2>1. Recent(admitted[k]) \subseteq admitted[k] /\ IsFiniteSet(admitted[k])
      BY DEF Recent, AloneInv
    <2>2. \A r \in admitted[k] : r.at \in Nat /\ r.at <= clock
      BY DEF AloneInv
    <2> QED
      BY <1>1, <2>1, <2>2, FS_Subset
  <1>4. Another(admitted[k]).at = clock
    BY DEF Another
  <1>5. IsFiniteSet({}) /\ IsFiniteSet(Recent(admitted[k]) \union {Another(admitted[k])})
    BY <1>3, FS_EmptySet, FS_AddElement
  <1>6. IsFiniteSet(admitted'[k])
    BY <1>2, <1>3, <1>5
  <1> QED
    BY <1>1, <1>2, <1>3, <1>4, <1>6

\* What was let through stays in its windows while the window of its key stays.
LEMMA WindowStays ==
    ASSUME Inv, AloneInv, HistoryNext, alone', NEW k \in Keys,
           windows'[k] = windows[k], ~Admitting(k)
    PROVE  IF windows'[k] = None THEN admitted'[k] = {} ELSE TwoWindows(k)'
  <1>0. alone
    BY DEF HistoryNext
  <1>1. admitted'[k] = Recent(admitted[k])
    BY AdmittedAfter
  <1>2. CASE windows[k] = None
    BY <1>0, <1>1, <1>2 DEF AloneInv, Recent
  <1>3. CASE windows[k] # None
    <2>1. PICK earlier \in SUBSET admitted[k] :
             LET current == Recent(admitted[k]) \ earlier IN
             /\ Cardinality(earlier) <= MaxRequests
             /\ \A r \in earlier : r.at <= windows[k].start
             /\ Cardinality(current) <= MaxRequests
             /\ Cardinality(current) <= windows[k].count
      BY <1>0, <1>3 DEF AloneInv, TwoWindows
    <2> DEFINE before == Recent(admitted[k]) \ earlier
               still == earlier \intersect admitted'[k]
               after == Recent(admitted[k])' \ still
    <2>2. windows[k].count \in Nat /\ MaxRequests \in Nat
      BY <1>3, LimitAssumption DEF Inv, TypeOK, Windows
    <2>3. still \subseteq earlier /\ after \subseteq before
      BY <1>1 DEF Recent
    <2>4. IsFiniteSet(earlier) /\ IsFiniteSet(before)
      <3>1. IsFiniteSet(admitted[k]) /\ before \subseteq admitted[k]
        BY DEF AloneInv, Recent
      <3> QED
        BY <3>1, FS_Subset
    <2>5. /\ Cardinality(still) <= MaxRequests
          /\ Cardinality(after) <= MaxRequests /\ Cardinality(after) <= windows[k].count
      <3> HIDE DEF before, still, after
      <3>1. /\ Cardinality(still) \in Nat /\ Cardinality(earlier) \in Nat
            /\ Cardinality(still) <= Cardinality(earlier)
            /\ Cardinality(after) \in Nat /\ Cardinality(before) \in Nat
            /\ Cardinality(after) <= Cardinality(before)
        BY <2>3, <2>4, Fewer
      <3>2. Cardinality(before) <= MaxRequests /\ Cardinality(before) <= windows[k].count
        BY <2>1 DEF before
      <3> QED
        BY <2>1, <2>2, <3>1, <3>2
    <2>6. still \in SUBSET admitted'[k] /\ \A r \in still : r.at <= windows'[k].start
      BY <2>1
    <2> QED
      BY <1>3, <2>5, <2>6 DEF TwoWindows
  <1> QED
    BY <1>2, <1>3

\* A new window starts with one request of its own; those that count besides are
\* of the window that expired, for what was let through before that is too old.
LEMMA WindowOpens ==
    ASSUME Inv, AloneInv, HistoryNext, alone', NEW t \in Threads, OpenWindow(t),
           NEW k \in Keys, threads[t].key = k
    PROVE  windows'[k] # None /\ TwoWindows(k)'
  <1> DEFINE now == threads[t].now
             old == Recent(admitted[k])
             new == Recent(admitted[k])' \ old
  <1>0. /\ alone /\ t \in Busy /\ now \in Nat /\ now <= clock
        /\ clock \in Nat /\ clock' = clock /\ Per \in Nat /\ MaxRequests \in Nat \ {0}
        /\ windows'[k] = Opened(now)
    BY AdmittedAfter, Opening, NoneAssumption, LimitAssumption
       DEF HistoryNext, Busy, OpenWindow, Inv, TypeOK, ThreadStates, ClocksRead
  <1>1. windows'[k].start = now /\ windows'[k].count = 1
    BY <1>0 DEF Opened
  <1>2. windows'[k] # None
    BY <1>0, NoneAssumption DEF Opened, Windows
  <1>3. old \in SUBSET admitted'[k] /\ \A r \in old : r.at <= now
    BY <1>0, AdmittedAfter DEF AloneInv, Recent
  <1>4. Cardinality(old) <= MaxRequests
    <2>1. CASE windows[k] = None
      <3>1. old = {}
        BY <1>0, <2>1 DEF AloneInv, Recent
      <3> QED
        BY <1>0, <3>1, FS_EmptySet
    <2>2. CASE windows[k] # None
      <3>1. PICK earlier \in SUBSET admitted[k] :
               /\ \A r \in earlier : r.at <= windows[k].start
               /\ Cardinality(Recent(admitted[k]) \ earlier) <= MaxRequests
        BY <1>0, <2>2 DEF AloneInv, TwoWindows
      <3>2. now - windows[k].start >= Per /\ windows[k].start \in Nat
        BY <2>2 DEF OpenWindow, Expired, Inv, TypeOK, Windows
      <3>3. ASSUME NEW r \in earlier PROVE r \notin old
        <4>1. r.at \in Nat /\ r.at <= windows[k].start
          BY <3>1 DEF AloneInv
        <4>2. ~(r.at > clock - Per)
          BY <1>0, <3>2, <4>1
        <4> QED
          BY <4>2 DEF Recent
      <3>4. old \ earlier = old
        BY <3>3
      <3> QED
        BY <3>1, <3>4
    <2> QED
      BY <2>1, <2>2
  <1>5. Cardinality(new) <= 1 /\ Cardinality(new) \in Nat
    <2>1. new \subseteq {} \union {Another(admitted[k])}
      BY AdmittedAfter DEF Recent
    <2>2. IsFiniteSet({}) /\ Cardinality({}) = 0
      BY FS_EmptySet
    <2> HIDE DEF new
    <2>3. Cardinality(new) \in Nat /\ Cardinality(new) <= Cardinality({}) + 1
      BY <2>1, <2>2, OneMore, Zenon
    <2> QED
      BY <2>2, <2>3
  <1>6. Cardinality(new) <= MaxRequests
    BY <1>0, <1>5
  <1> QED
    BY <1>1, <1>2, <1>3, <1>4, <1>5, <1>6 DEF TwoWindows

\* A request that is let through into a window that lasts is one it counts.
LEMMA WindowCounts ==
    ASSUME Inv, AloneInv, HistoryNext, alone', NEW t \in Threads, CountRequest(t),
           NEW k \in Keys, threads[t].key = k
    PROVE  windows'[k] # None /\ TwoWindows(k)'
  <1>0. /\ alone /\ windows[k] # None /\ windows[k] \in Windows
        /\ windows' = [windows EXCEPT ![k] = [windows[k] EXCEPT !.count = @ + 1]]
        /\ MaxRequests \in Nat /\ clock' = clock
    BY LimitAssumption DEF HistoryNext, CountRequest, Inv, TypeOK
  <1>1. /\ windows'[k].start = windows[k].start /\ windows'[k].count = windows[k].count + 1
        /\ windows[k].count \in Nat
    BY <1>0 DEF Windows, Inv, TypeOK
  <1>2. windows'[k] # None
    BY <1>0, <1>1, NoneAssumption DEF Windows, Inv, TypeOK
  <1>3. PICK earlier \in SUBSET admitted[k] :
           LET current == Recent(admitted[k]) \ earlier IN
           /\ Cardinality(earlier) <= MaxRequests
           /\ \A r \in earlier : r.at <= windows[k].start
           /\ Cardinality(current) <= MaxRequests
           /\ Cardinality(current) <= windows[k].count
    BY <1>0 DEF AloneInv, TwoWindows
  <1> DEFINE before == Recent(admitted[k]) \ earlier
             still == earlier \intersect admitted'[k]
             after == Recent(admitted[k])' \ still
  <1>4. IsFiniteSet(earlier) /\ IsFiniteSet(before)
    <2>1. IsFiniteSet(admitted[k]) /\ before \subseteq admitted[k]
      BY DEF AloneInv, Recent
    <2> QED
      BY <2>1, FS_Subset
  <1>5. /\ still \in SUBSET admitted'[k] /\ \A r \in still : r.at <= windows'[k].start
        /\ still \subseteq earlier
    BY <1>1, <1>3
  <1>6. /\ after \subseteq before \union {Another(admitted[k])}
        /\ ~Admitting(k) => after \subseteq before
    BY <1>0, AdmittedAfter DEF Recent
  <1>7. Admitting(k) => windows[k].count + 1 <= MaxRequests
    <2> SUFFICES ASSUME NEW u \in Threads, Admits(u, k)
                 PROVE  windows[k].count + 1 <= MaxRequests
      BY DEF Admitting
    <2>1. OpenWindow(u) \/ (CountRequest(u) /\ windows[k].count + 1 <= MaxRequests)
      BY RequestsEnd DEF HistoryNext
    <2>2. ~OpenWindow(u)
      <3>1. u = t \/ ~OpenWindow(u)
        BY RequestsEnd DEF HistoryNext, Busy
      <3>2. CASE u = t /\ OpenWindow(u)
        BY <1>0, <3>2 DEF OpenWindow, CountRequest
      <3> QED
        BY <3>1, <3>2
    <2> QED
      BY <2>1, <2>2
  <1> HIDE DEF before, still, after
  <1>8. Cardinality(still) <= MaxRequests
    <2>1. /\ Cardinality(still) \in Nat /\ Cardinality(earlier) \in Nat
          /\ Cardinality(still) <= Cardinality(earlier)
      BY <1>4, <1>5, Fewer
    <2> QED
      BY <1>0, <1>3, <2>1
  <1>9. Cardinality(after) <= MaxRequests /\ Cardinality(after) <= windows[k].count + 1
    <2>1. Cardinality(before) <= MaxRequests /\ Cardinality(before) <= windows[k].count
      BY <1>3 DEF before
    <2>2. /\ Cardinality(after) \in Nat /\ Cardinality(before) \in Nat
          /\ Cardinality(after) <= Cardinality(before) + 1
      BY <1>4, <1>6, OneMore
    <2>3. ~Admitting(k) => Cardinality(after) <= Cardinality(before)
      BY <1>4, <1>6, Fewer
    <2> QED
      BY <1>0, <1>1, <1>7, <2>1, <2>2, <2>3
  <1>10. /\ Cardinality(Recent(admitted[k])' \ still) <= MaxRequests
         /\ Cardinality(Recent(admitted[k])' \ still) <= windows'[k].count
    BY <1>1, <1>9 DEF after
  <1> QED
    BY <1>2, <1>5, <1>8, <1>10 DEF TwoWindows

LEMMA AloneInvNext ==
    ASSUME Inv, AloneInv, [HistoryNext]_HistoryVars
    PROVE  AloneInv'
  <1>1. CASE UNCHANGED HistoryVars
    BY <1>1 DEF HistoryVars, vars, AloneInv, Busy, TwoWindows, Recent
  <1>2. CASE HistoryNext
    <2>0. Next
      BY <1>2 DEF HistoryNext
    <2>1. \A k \in Keys : /\ IsFiniteSet(admitted'[k])
                          /\ \A r \in admitted'[k] : r.at \in Nat /\ r.at <= clock'
                          /\ ~alone' => admitted'[k] = {}
      BY <1>2, AdmittedAfter
    <2>2. ASSUME alone' PROVE \A t, u \in Busy' : t = u
      BY <1>2, <2>2, OneIsBusy
    <2>3. ASSUME alone', NEW t \in Busy', NEW k \in Keys, NEW r \in admitted'[k]
          PROVE  r.at <= threads'[t].now
      <3>1. ASSUME NEW u \in Threads, OpenWindow(u) \/ CountRequest(u) PROVE FALSE
        <4>1. u \in Busy /\ t # u /\ threads'[t] = threads[t] /\ t \in Threads
          BY <2>0, <2>3, <3>1, RequestsEnd DEF Busy
        <4>2. t \in Busy /\ alone
          BY <1>2, <2>3, <4>1 DEF Busy, HistoryNext
        <4> QED
          BY <4>1, <4>2 DEF AloneInv
      <3>2. ~Admitting(k)
        BY <2>0, <3>1, RequestsEnd DEF Admitting
      <3>3. alone /\ r \in admitted[k] /\ r.at \in Nat /\ r.at <= clock
        BY <1>2, <2>3, <3>2, AdmittedAfter DEF HistoryNext, Recent, AloneInv
      <3>4. CASE ReadClock(t)
        BY <2>0, <2>3, <3>3, <3>4, RequestsEnd DEF Busy
      <3>5. CASE ~ReadClock(t)
        <4>1. threads'[t] = threads[t] /\ t \in Threads
          BY <2>0, <2>3, <3>1, <3>5, RequestsEnd DEF Next, Tick, Busy
        <4> QED
          BY <2>3, <3>3, <4>1 DEF AloneInv, Busy
      <3> QED
        BY <3>4, <3>5
    <2>4. ASSUME alone', NEW k \in Keys
          PROVE  IF windows'[k] = None THEN admitted'[k] = {} ELSE TwoWindows(k)'
      <3>1. ASSUME NEW t \in Threads, OpenWindow(t) \/ CountRequest(t), threads[t].key # k
            PROVE  windows'[k] = windows[k] /\ ~Admitting(k)
        <4>1. threads[t].key \in Keys /\ threads[t].key # None
          BY <2>0, <3>1 DEF Inv, TypeOK, ThreadStates, OpenWindow, CountRequest
        <4>2. windows'[k] = windows[k]
          <5>1. CASE CountRequest(t)
            BY <3>1, <4>1, <5>1 DEF CountRequest, Inv, TypeOK
          <5>2. CASE OpenWindow(t)
            <6>1. windows'[k] \in {windows[k], None}
              BY <3>1, <4>1, <5>2, Opening DEF OpenWindow, Inv, TypeOK
            <6>2. windows[k] # None => windows'[k] # None
              BY <1>2, <2>4 DEF HistoryNext, Held
            <6> QED
              BY <6>1, <6>2
          <5> QED
            BY <3>1, <5>1, <5>2
        <4>3. ~Admitting(k)
          <5> SUFFICES ASSUME NEW u \in Threads, Admits(u, k) PROVE FALSE
            BY DEF Admitting
          <5>1. threads[u].key = k /\ u # t
            BY <3>1 DEF Admits
          <5>2. u \notin Busy' /\ u \in Busy /\ threads'[u] = threads[u]
            BY <2>0, <3>1, <5>1, RequestsEnd
          <5> QED
            BY <5>2 DEF Busy
        <4> QED
          BY <4>2, <4>3
      <3>2. CASE \E t \in Threads : OpenWindow(t) \/ CountRequest(t)
        BY <1>2, <2>4, <3>1, <3>2, WindowStays, WindowOpens, WindowCounts
      <3>3. CASE ~\E t \in Threads : OpenWindow(t) \/ CountRequest(t)
        <4>1. ~Admitting(k)
          BY <2>0, <3>3, RequestsEnd DEF Admitting
        <4>2. windows' = windows
          BY <2>0, <3>3 DEF Next, Tick, ReadClock
        <4> QED
          BY <1>2, <2>4, <4>1, <4>2, WindowStays
      <3> QED
        BY <3>2, <3>3
    <2> QED
      BY <2>1, <2>2, <2>3, <2>4 DEF AloneInv
  <1> QED
    BY <1>1, <1>2

LEMMA AloneInvInit == ASSUME HistoryInit PROVE Inv /\ AloneInv
  <1>1. Inv /\ Busy = {} /\ \A k \in Keys : admitted[k] = {} /\ windows[k] = None
    BY TypesInit DEF HistoryInit, Init, Busy
  <1> QED
    BY <1>1, FS_EmptySet DEF HistoryInit, AloneInv

\* A client that sends its requests one by one never gets more than two windows'
\* worth of them through in a span of one window.
THEOREM TwiceTheLimitHolds == HistorySpec => []TwiceTheLimit
  <1>1. [HistoryNext]_HistoryVars => [Next]_vars
    BY DEF HistoryNext, HistoryVars
  <1>2. ASSUME Inv, AloneInv PROVE TwiceTheLimit
    <2> SUFFICES ASSUME NEW k \in Keys
                 PROVE  Cardinality(Recent(admitted[k])) <= 2 * MaxRequests
      BY DEF TwiceTheLimit
    <2>0. MaxRequests \in Nat
      BY LimitAssumption
    <2>1. CASE admitted[k] = {}
      <3>1. Recent(admitted[k]) = {}
        BY <2>1 DEF Recent
      <3> QED
        BY <2>0, <3>1, FS_EmptySet
    <2>2. CASE admitted[k] # {}
      <3>1. TwoWindows(k)
        BY <1>2, <2>2 DEF AloneInv
      <3>2. PICK earlier \in SUBSET admitted[k] :
               /\ Cardinality(earlier) <= MaxRequests
               /\ Cardinality(Recent(admitted[k]) \ earlier) <= MaxRequests
        BY <3>1 DEF TwoWindows
      <3> DEFINE current == Recent(admitted[k]) \ earlier
      <3>3. IsFiniteSet(earlier) /\ IsFiniteSet(current)
        <4>1. IsFiniteSet(admitted[k]) /\ current \subseteq admitted[k]
          BY <1>2 DEF AloneInv, Recent
        <4> QED
          BY <4>1, FS_Subset
      <3>4. Recent(admitted[k]) \subseteq earlier \union current
        OBVIOUS
      <3>5. Cardinality(current) <= MaxRequests
        BY <3>2
      <3> HIDE DEF current
      <3>6. /\ IsFiniteSet(earlier \union current)
            /\ Cardinality(earlier \union current) <= Cardinality(earlier) + Cardinality(current)
            /\ Cardinality(earlier) \in Nat /\ Cardinality(current) \in Nat
        <4>1. /\ IsFiniteSet(earlier \union current)
              /\ Cardinality(earlier \union current) =
                    Cardinality(earlier) + Cardinality(current)
                      - Cardinality(earlier \intersect current)
          BY <3>3, FS_Union
        <4>2. Cardinality(earlier \intersect current) \in Nat
          BY <3>3, FS_Intersection, FS_CardinalityType
        <4>3. Cardinality(earlier) \in Nat /\ Cardinality(current) \in Nat
          BY <3>3, FS_CardinalityType
        <4> QED
          BY <4>1, <4>2, <4>3
      <3>7. /\ Cardinality(Recent(admitted[k])) <= Cardinality(earlier \union current)
            /\ Cardinality(Recent(admitted[k])) \in Nat
            /\ Cardinality(earlier \union current) \in Nat
        BY <3>4, <3>6, Fewer
      <3> QED
        BY <2>0, <3>2, <3>5, <3>6, <3>7
    <2> QED
      BY <2>1, <2>2
  <1> QED
    BY <1>1, <1>2, AloneInvInit, AloneInvNext, InvInductive, PTL DEF HistorySpec
================================================================================
