---------------------------- MODULE MCDesignHistory ----------------------------
(***************************************************************************)
(* DesignStore with two history variables.  lapped holds the designs for   *)
(* which a save has ever committed behind the newest revision, which takes *)
(* a request that sleeps while others write a whole window of revisions;   *)
(* alone tells whether every request so far ended before the next began.   *)
(***************************************************************************)
EXTENDS MCDesignStore

VARIABLES lapped, alone

HistoryVars == <<vars, lapped, alone>>

HistoryInit == Init /\ lapped = {} /\ alone = TRUE

Laps(d) ==
    \E c \in Clients :
        /\ Saves(c)
        /\ req[c].design = d
        /\ ~IsNewest(d, req[c].latest)

HistoryNext ==
    /\ Next
    /\ lapped' = lapped \union {d \in Designs : Laps(d)}
    /\ alone' = (alone /\ Cardinality(InFlight') <= 1)

HistorySpec == HistoryInit /\ [][HistoryNext]_HistoryVars

\* Two saves that meet at a full history, or a save that finds the oldest row
\* already gone, leave a rolling window of at most MaxRevisions consecutive
\* revisions (update_design trims "the oldest" it read, not what is oldest when
\* it commits).  Only a save that was lapped can leave anything else.
WindowUnlessLapped == \A d \in Designs \ lapped : IsWindow(d)

\* As long as requests come one at a time, no save replaces a document its
\* client has never been shown: the If-Match protocol keeps its promise over any
\* sequence of opens, saves, renames and lost responses of several tabs.
NoOverwriteAlone ==
    [][alone' => \A c \in Clients : Saves(c) => SavesWhatItSaw(c)]_HistoryVars
================================================================================
