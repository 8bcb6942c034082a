------------------------------- MODULE RateLimit --------------------------------
(***************************************************************************)
(* The fixed-window counters of app/backend/accounts/ratelimit.py.         *)
(*                                                                         *)
(* Routes run in threads.  A thread reads the clock before it takes the    *)
(* lock, so the clock it compares with may be behind the window it finds.  *)
(* The clock counts ticks, several to the second, because Retry-After is   *)
(* rounded to seconds.                                                     *)
(***************************************************************************)
EXTENDS Integers, FiniteSets

CONSTANTS
    Keys,               \* pairs of client address and route tag
    Threads,            \* threads that serve requests
    MaxRequests,        \* requests admitted per window
    PerSeconds,         \* length of a window in seconds
    Ticks,              \* ticks per second
    MaxWindows,         \* the 50000 windows above which the map is cleared
    ClockBound,         \* bounds of the model: the clock stops here, and
    CountBound,         \* no more requests than these are counted in a window
    None

ASSUME LimitAssumption ==
    /\ MaxRequests \in Nat \ {0}
    /\ PerSeconds \in Nat \ {0}
    /\ Ticks \in Nat \ {0}
    /\ MaxWindows \in Nat \ {0}
ASSUME BoundAssumption == ClockBound \in Nat /\ IsFiniteSet(Keys) /\ IsFiniteSet(Threads)

VARIABLES
    clock,              \* time.monotonic(), in ticks
    windows,            \* _windows: the window of each key that has one
    threads             \* what each thread is doing

vars == <<clock, windows, threads>>

Per == PerSeconds * Ticks

Windows == [start : Nat, count : Nat]

ASSUME NoneAssumption == None \notin Keys \union Int \union Windows

\* now is the clock as the thread read it; retryAfter what it last answered.
ThreadStates == [key : Keys \union {None}, now : Nat, retryAfter : Int \union {None}]

Held == {k \in Keys : windows[k] # None}

--------------------------------------------------------------------------------

Tick ==
    /\ clock < ClockBound
    /\ clock' = clock + 1
    /\ UNCHANGED <<windows, threads>>

ReadClock(t) ==
    /\ threads[t].key = None
    /\ \E k \in Keys :
          threads' = [threads EXCEPT ![t] = [key |-> k, now |-> clock,
                                             retryAfter |-> None]]
    /\ UNCHANGED <<clock, windows>>

Expired(w, now) == now - w.start >= Per

\* Mutant: the map is never cleared.
AfterOpening_NoCleanup(k, w) == [windows EXCEPT ![k] = w]

\* A new window goes into the map; when that makes too many, it stays alone.
AfterOpening(k, w) ==
    IF Cardinality(Held \union {k}) > MaxWindows
    THEN [j \in Keys |-> IF j = k THEN w ELSE None]
    ELSE [windows EXCEPT ![k] = w]

Opened(now) == [start |-> now, count |-> 1]

OpenWindow(t) ==
    LET k == threads[t].key
        now == threads[t].now
    IN  /\ k # None
        /\ windows[k] # None => Expired(windows[k], now)
        /\ windows' = AfterOpening(k, Opened(now))
        /\ threads' = [threads EXCEPT ![t].key = None]
        /\ UNCHANGED clock

\* Mutant: the request that fills the window is counted after the test.
Exceeded_CountedAfter(w) == w.count - 1 > MaxRequests

\* The window as it is once the request is counted.
Exceeded(w) == w.count > MaxRequests

\* Mutant: the rest of the window is rounded down.
RetryAfter_Floor(w, now) == (Per - (now - w.start)) \div Ticks

RetryAfter(w, now) == (Per - (now - w.start)) \div Ticks + 1

CountRequest(t) ==
    LET k == threads[t].key
        now == threads[t].now
        counted == [windows[k] EXCEPT !.count = @ + 1]
    IN  /\ k # None
        /\ windows[k] # None
        /\ ~Expired(windows[k], now)
        /\ windows[k].count < CountBound
        /\ windows' = [windows EXCEPT ![k] = counted]
        /\ threads' = [threads EXCEPT
              ![t].key = None,
              ![t].retryAfter = IF Exceeded(counted)
                                THEN RetryAfter(counted, now) ELSE None]
        /\ UNCHANGED clock

Init ==
    /\ clock = 0
    /\ windows = [k \in Keys |-> None]
    /\ threads = [t \in Threads |-> [key |-> None, now |-> 0, retryAfter |-> None]]

Next ==
    \/ Tick
    \/ \E t \in Threads : ReadClock(t) \/ OpenWindow(t) \/ CountRequest(t)

Spec == Init /\ [][Next]_vars

--------------------------------------------------------------------------------
(* Properties *)

\* Every variable has its type.
TypeOK ==
    /\ clock \in Nat
    /\ windows \in [Keys -> Windows \union {None}]
    /\ threads \in [Threads -> ThreadStates]

\* "so the map cannot grow unbounded" (limit): whatever mix of clients, the map
\* never holds more than MaxWindows windows.
MapBounded == Cardinality(Held) <= MaxWindows

\* A window is never dated ahead of the clock, although threads write clocks
\* they read before others moved the window on.
WindowsStarted == \A k \in Held : windows[k].start <= clock

\* A client that waits as long as Retry-After says finds its window expired:
\* rounding never sends it back too early.
RetryIsEnough ==
    [][\A t \in Threads :
          LET k == threads[t].key
              r == threads'[t].retryAfter
          IN  r # None /\ threads[t].retryAfter = None
                => Expired(windows[k], threads[t].now + r * Ticks)]_vars
================================================================================
