------------------------------ MODULE MCInventory -------------------------------
(***************************************************************************)
(* Instances of Inventory for TLC.  The history variable alone tells       *)
(* whether every request so far ended before the next began.               *)
(*                                                                         *)
(* A behaviour is of one of two kinds, chosen at the start: creates and    *)
(* imports that overlap, over all the rows; or edits and deletions that    *)
(* overlap each other and one create or import that keeps to one name,     *)
(* with one row less.  Roles change in the second only, the organization   *)
(* is deleted in the first.  An import has MaxLines lines, and an edit is  *)
(* of the document or of the lifecycle, which together are two edits.      *)
(***************************************************************************)
EXTENDS Inventory, TLC

VARIABLES
    alone,
    routes      \* the requests of this behaviour: "upserts" or "changes"

HistoryVars == <<vars, alone, routes>>

HistoryInit == Init /\ alone = TRUE /\ routes \in {"upserts", "changes"}

Upserting == {w \in Workers : req[w].op \in {"create", "import"}}

NamesOf(w) == {req[w].lines[n].name : n \in DOMAIN req[w].lines}

Sent(request) ==
    /\ request.op = "import" /\ request.pc = "owner" => Len(request.lines) = MaxLines
    /\ request.op = "update" => (request.doc = None) # (request.lifecycle = None)

HistoryNext ==
    /\ Next
    /\ \A w \in Workers : Sent(req'[w])
    /\ routes = "upserts" => /\ \A w \in Workers : req'[w].op \notin {"update", "delete"}
                             /\ UNCHANGED role
    /\ routes = "changes" => /\ Cardinality(Upserting') <= 1
                             /\ \A w \in Workers : Cardinality(NamesOf(w)') <= 1
                             /\ Cardinality(Known') < Cardinality(Ids)
                             /\ UNCHANGED orgLive
    /\ alone' = (alone /\ Cardinality({w \in Workers : req'[w].pc # "idle"}) <= 1)
    /\ UNCHANGED routes

HistorySpec == HistoryInit /\ [][HistoryNext]_HistoryVars

Symmetry == Permutations(Users) \union Permutations(Ids) \union Permutations(Names)
                \union Permutations(Docs) \union Permutations(Workers)

\* "Inventory limit reached" (_check_quota): requests that come one at a time
\* keep to the limit, whatever mixture of new, known and repeated names they
\* import.
QuotaRespected == alone => Cardinality(Live) <= MaxParts

\* "Editing an APPROVED org part or transitioning lifecycle needs librarian+"
\* (update_part, delete_part): who patches or deletes an approved part, or approves
\* one by a patch, was let through as a librarian or above, as long as no other
\* request approves the part meanwhile.  Posting or importing over an approved part
\* takes a member only.
EditsByLibrarian ==
    [][alone' => \A w \in Workers, i \in Ids :
          At(w, "commit") /\ req[w].op \in {"update", "delete"} /\ req'[w] = NoReq
              /\ Touches(i) => AtLeast(req[w].role, "librarian")]_HistoryVars
================================================================================
