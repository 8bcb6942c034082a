------------------------------ MODULE MCRateLimit -------------------------------
(***************************************************************************)
(* Instances of RateLimit for TLC, with two history variables: alone tells *)
(* whether requests came one at a time and the map was never cleared, and  *)
(* admitted[k] holds, while that is so, the requests of k let through that *)
(* are less than a window old: at what tick, and which of that tick's.     *)
(***************************************************************************)
EXTENDS RateLimit, TLC

VARIABLES alone, admitted

HistoryVars == <<vars, alone, admitted>>

HistoryInit == Init /\ alone = TRUE /\ admitted = [k \in Keys |-> {}]

\* The key whose request a thread's step lets through: all but those it answers
\* 429.
Admits(t, k) ==
    /\ threads[t].key = k
    /\ threads'[t].key = None
    /\ threads'[t].retryAfter = None

Recent(requests) == {r \in requests : r.at > clock - Per}

\* The next request let through at this tick.
Another(requests) ==
    [at |-> clock, nth |-> Cardinality({r \in requests : r.at = clock}) + 1]

HistoryNext ==
    /\ Next
    /\ alone' = /\ alone
                /\ Cardinality({t \in Threads : threads'[t].key # None}) <= 1
                /\ Held \subseteq {k \in Keys : windows'[k] # None}
    /\ admitted' = [k \in Keys |->
           IF ~alone' THEN {}
           ELSE IF \E t \in Threads : Admits(t, k)
           THEN Recent(admitted[k]) \union {Another(admitted[k])}
           ELSE Recent(admitted[k])]

HistorySpec == HistoryInit /\ [][HistoryNext]_HistoryVars

Symmetry == Permutations(Keys) \union Permutations(Threads)

\* "429 when the caller exceeds max_requests within per_seconds" (limit) is more
\* than a fixed window can promise: the requests of a client that sends them one
\* by one stay, in any span as long as a window, within the limits of two.
TwiceTheLimit == \A k \in Keys : Cardinality(Recent(admitted[k])) <= 2 * MaxRequests
================================================================================
