---------------------------- MODULE InventoryProofs -----------------------------
(***************************************************************************)
(* Theorems of Inventory, for any number of parts, names, users and        *)
(* requests at once, any limit and imports of any length.                  *)
(*                                                                         *)
(* The index refuses a name that is live when a request commits.  That the *)
(* names one request adds differ from each other is the request's own      *)
(* doing: it looks among the parts it has added first (NamesDiffer,        *)
(* NotAdded).  That rows to be added are added by one request only holds   *)
(* because identifiers are drawn once (Apart).                             *)
(*                                                                         *)
(* Two theorems are about requests that come one at a time, so they are of *)
(* MCInventory's history: what a request has added is then counted by its  *)
(* next check of the limit, and a part it edits is still what it loaded    *)
(* (AloneInv).                                                             *)
(***************************************************************************)
EXTENDS MCInventory, FiniteSetTheorems, SequenceTheorems, TLAPS

\* What the request will add is not there, what it will change is.
WritesFit(q, partsNow) ==
    \A i \in Ids : q.writes[i] # None => (q.writes[i].new <=> partsNow[i] = None)

\* No two parts of one name are added by one request.
NamesDiffer(q) ==
    \A i, j \in Ids :
        /\ q.writes[i] # None /\ q.writes[j] # None
        /\ q.writes[i].new /\ q.writes[j].new
        /\ q.writes[i].name = q.writes[j].name
        => i = j

\* A line for which a part is to be added repeats none added before.
NotAdded(q) ==
    q.pc = "quota" =>
        \A i \in Ids : q.writes[i] # None /\ q.writes[i].new =>
            q.writes[i].name # Head(q.lines).name

\* Which routes are at which stage, and what they have by then.
InHand(q, partsNow) ==
    /\ q.pc \in {"owner", "import_quota", "find", "quota"} =>
          q.op \in {"create", "import"} /\ q.lines # <<>>
    /\ q.pc \in {"owner", "get", "access"} => q.user \in Users
    /\ q.pc \in {"get", "access"} => q.op \in {"update", "delete"}
    /\ q.pc = "access" \/ (q.pc = "commit" /\ q.op \in {"update", "delete"}) =>
          q.part \in Ids /\ q.row \in Rows /\ partsNow[q.part] # None

Holds(q, partsNow) ==
    WritesFit(q, partsNow) /\ NamesDiffer(q) /\ NotAdded(q) /\ InHand(q, partsNow)

Apart == \A v, w \in Workers : v # w => Added(v) \intersect Added(w) = {}

Inv ==
    /\ UniqueNames
    /\ \A w \in Workers : Holds(req[w], parts)
    /\ Apart

--------------------------------------------------------------------------------

LEMMA RequestTyped ==
    ASSUME TypeOK, NEW w \in Workers
    PROVE  /\ req[w] \in Requests
           /\ \A i \in Ids : req[w].writes[i] \in Writes \union {None}
           /\ req[w].lines \in Seq(Lines)
  BY DEF TypeOK, Requests

LEMMA RowTyped ==
    ASSUME TypeOK, NEW i \in Ids, parts[i] # None
    PROVE  parts[i] \in Rows
  BY DEF TypeOK

\* Row i becomes new, under its name; what is deleted stays so.
Keeps(i, new) ==
    /\ new \in Rows
    /\ new.name = parts[i].name
    /\ parts[i].deleted => new.deleted

\* What each step does to the table, when it is not the commit of an upsert.
LEMMA PartsAfter ==
    ASSUME Inv, Next, ~\E w \in Workers : CommitUpserts(w)
    PROVE  \/ parts' = parts
           \/ \E i \in Ids, new \in Rows :
                 /\ parts[i] # None /\ Keeps(i, new)
                 /\ parts' = [parts EXCEPT ![i] = new]
  <1> USE DEF Inv, UniqueNames
  <1>1. CASE \E w \in Workers : CommitUpdate(w)
    <2>1. PICK w \in Workers : CommitUpdate(w)
      BY <1>1
    <2> DEFINE i == req[w].part
    <2>2. i \in Ids /\ parts[i] # None /\ parts[i] \in Rows /\ req[w].row \in Rows
      BY <2>1, RowTyped DEF CommitUpdate, At, Holds, InHand
    <2>3. req[w].doc \in Docs \union {None} /\ req[w].lifecycle \in Lifecycles \union {None}
      BY RequestTyped DEF Requests
    <2>4. /\ New(req[w].doc, req[w].row.doc, parts[i].doc) \in Docs
          /\ New(req[w].lifecycle, req[w].row.lifecycle, parts[i].lifecycle) \in Lifecycles
      BY <2>2, <2>3 DEF New, Rows
    <2>5. Updated(w) \in Rows /\ Keeps(i, Updated(w))
      BY <2>2, <2>4 DEF Updated, Rows, Keeps
    <2> QED
      BY <2>1, <2>2, <2>5 DEF CommitUpdate
  <1>2. CASE \E w \in Workers : CommitDelete(w)
    <2>1. PICK w \in Workers : CommitDelete(w)
      BY <1>2
    <2> DEFINE i == req[w].part
               new == [parts[i] EXCEPT !.deleted = TRUE]
    <2>2. i \in Ids /\ parts[i] # None /\ parts[i] \in Rows
      BY <2>1, RowTyped DEF CommitDelete, At, Holds, InHand
    <2>3. new \in Rows /\ Keeps(i, new)
      BY <2>2 DEF Rows, Keeps
    <2>4. parts' = [parts EXCEPT ![i] = new]
      BY <2>1, <2>2 DEF CommitDelete, TypeOK
    <2> HIDE DEF new
    <2> QED
      BY <2>2, <2>3, <2>4
  <1>3. CASE ~\E w \in Workers : CommitUpdate(w) \/ CommitDelete(w)
    <2>1. ASSUME NEW w \in Workers, FindPart(w)
          PROVE  parts' = parts
      BY <2>1 DEF FindPart, NextLine, Go
    <2>2. ASSUME NEW w \in Workers, AddPart(w)
          PROVE  parts' = parts
      BY <2>2 DEF AddPart, NextLine
    <2>3. ASSUME NEW w \in Workers, StartCreate(w) \/ StartImport(w)
          PROVE  parts' = parts
      BY <2>3 DEF Start, StartCreate, StartImport
    <2>4. ASSUME NEW w \in Workers, StartUpdate(w) \/ StartDelete(w)
          PROVE  parts' = parts
      BY <2>4 DEF Start, StartUpdate, StartDelete
    <2>5. ASSUME NEW w \in Workers, \/ ResolveOwner(w) \/ CheckImport(w) \/ GetPart(w)
                                    \/ CheckAccess(w) \/ Abort(w)
          PROVE  parts' = parts
      BY <2>5 DEF Go, ResolveOwner, CheckImport, GetPart, CheckAccess, Abort
    <2> QED
      BY <1>3, <2>1, <2>2, <2>3, <2>4, <2>5 DEF Next, Step, SetRole, DeleteOrg
  <1> QED
    BY <1>1, <1>2, <1>3

\* What the commit of an upsert does to each row.
LEMMA UpsertsLeave ==
    ASSUME Inv, NEW w \in Workers, CommitUpserts(w)
    PROVE  /\ parts' \in [Ids -> Rows \union {None}]
           /\ \A i \in Ids :
                 \/ parts'[i] = parts[i] /\ i \notin Added(w)
                 \/ parts[i] # None /\ Keeps(i, parts'[i]) /\ i \notin Added(w)
                 \/ /\ i \in Added(w) /\ parts[i] = None
                    /\ parts'[i] \in Rows /\ parts'[i].name = req[w].writes[i].name
  <1> USE DEF Inv, UniqueNames
  <1>1. ASSUME NEW i \in Added(w)
        PROVE  /\ parts[i] = None
               /\ Upserted(w, i) \in Rows
               /\ Upserted(w, i).name = req[w].writes[i].name
    <2>1. i \in Ids /\ req[w].writes[i] \in Writes /\ req[w].writes[i].new
      BY <1>1, RequestTyped DEF Added, Written
    <2>2. FirstLifecycle(req[w].role) \in Lifecycles
      BY DEF FirstLifecycle, Lifecycles
    <2> QED
      BY <1>1, <2>1, <2>2 DEF Upserted, Writes, Rows, Holds, WritesFit, Added, Written
  <1>2. ASSUME NEW i \in Written(w) \ Added(w)
        PROVE  parts[i] # None /\ Keeps(i, Upserted(w, i))
    <2>1. i \in Ids /\ req[w].writes[i] \in Writes /\ ~req[w].writes[i].new
      BY <1>2, RequestTyped DEF Added, Written
    <2>2. parts[i] # None /\ parts[i] \in Rows
      BY <1>2, <2>1, RowTyped DEF Holds, WritesFit, Written
    <2> QED
      BY <2>1, <2>2 DEF Upserted, Writes, Rows, Keeps
  <1>3. parts' = [i \in Ids |-> IF i \in Written(w) THEN Upserted(w, i) ELSE parts[i]]
    BY DEF CommitUpserts
  <1>4. Added(w) \subseteq Written(w) /\ Written(w) \subseteq Ids
    BY DEF Added, Written
  <1>5. \A i \in Ids : parts'[i] = IF i \in Written(w) THEN Upserted(w, i) ELSE parts[i]
    BY <1>3
  <1>6. \A i \in Ids :
           \/ parts'[i] = parts[i] /\ i \notin Added(w)
           \/ parts[i] # None /\ Keeps(i, parts'[i]) /\ i \notin Added(w)
           \/ /\ i \in Added(w) /\ parts[i] = None
              /\ parts'[i] \in Rows /\ parts'[i].name = req[w].writes[i].name
    BY <1>1, <1>2, <1>4, <1>5
  <1>7. \A i \in Ids : parts'[i] \in Rows \union {None}
    BY <1>6 DEF Keeps, TypeOK
  <1> QED
    BY <1>3, <1>6, <1>7

\* The table keeps its type and its unique names, and rows stay.
LEMMA TableKept ==
    ASSUME Inv, Next
    PROVE  /\ parts' \in [Ids -> Rows \union {None}]
           /\ \A i, j \in Live' : parts'[i].name = parts'[j].name => i = j
           /\ \A i \in Ids : parts[i] # None =>
                 parts'[i] # None /\ (parts[i].deleted => parts'[i].deleted)
  <1> USE DEF Inv, UniqueNames
  <1>1. CASE parts' = parts
    BY <1>1 DEF TypeOK, Live
  <1>2. ASSUME NEW i \in Ids, NEW new \in Rows, parts[i] # None, Keeps(i, new),
               parts' = [parts EXCEPT ![i] = new]
        PROVE  /\ parts' \in [Ids -> Rows \union {None}]
               /\ \A j, k \in Live' : parts'[j].name = parts'[k].name => j = k
               /\ \A j \in Ids : parts[j] # None =>
                     parts'[j] # None /\ (parts[j].deleted => parts'[j].deleted)
    <2>1. parts' \in [Ids -> Rows \union {None}]
      BY <1>2 DEF TypeOK
    <2>2. \A j \in Ids : parts'[j] = IF j = i THEN new ELSE parts[j]
      BY <1>2 DEF TypeOK
    <2>3. new # None
      BY AbsentAssumption
    <2>4. \A j \in Ids : parts[j] # None =>
             parts'[j] # None /\ (parts[j].deleted => parts'[j].deleted)
      BY <1>2, <2>2, <2>3 DEF Keeps
    <2>5. parts[i] \in Rows
      BY <1>2, RowTyped
    <2>6. \A j \in Live' : j \in Live /\ parts'[j].name = parts[j].name
      BY <1>2, <2>2, <2>5 DEF Live, Keeps, Rows
    <2> QED
      BY <2>1, <2>4, <2>6
  <1>3. ASSUME NEW w \in Workers, CommitUpserts(w)
        PROVE  /\ \A j, k \in Live' : parts'[j].name = parts'[k].name => j = k
               /\ \A j \in Ids : parts[j] # None =>
                     parts'[j] # None /\ (parts[j].deleted => parts'[j].deleted)
    <2>1. \A j \in Ids : parts[j] # None =>
             /\ parts'[j] # None
             /\ parts[j].deleted => parts'[j].deleted
             /\ parts'[j].name = parts[j].name
             /\ j \notin Added(w)
      BY <1>3, UpsertsLeave, AbsentAssumption DEF Keeps
    <2>2. \A j \in Live' :
             \/ j \in Live /\ parts'[j].name = parts[j].name
             \/ j \in Added(w) /\ parts'[j].name = req[w].writes[j].name
      <3>1. TAKE j \in Live'
      <3>2. j \in Ids /\ parts'[j] # None /\ ~parts'[j].deleted
        BY DEF Live
      <3>3. CASE parts[j] = None
        BY <1>3, <3>2, <3>3, UpsertsLeave
      <3>4. CASE parts[j] # None
        <4>1. parts[j] \in Rows
          BY <3>2, <3>4, RowTyped
        <4> QED
          BY <2>1, <3>2, <3>4, <4>1 DEF Live, Rows
      <3> QED
        BY <3>3, <3>4
    <2>3. \A j \in Added(w), k \in Live : req[w].writes[j].name # parts[k].name
      BY <1>3 DEF CommitUpserts, NamesAreFree, Named
    <2>4. \A j, k \in Added(w) : req[w].writes[j].name = req[w].writes[k].name => j = k
      BY DEF Holds, NamesDiffer, Added, Written
    <2> QED
      BY <2>1, <2>2, <2>3, <2>4
  <1>4. CASE \E w \in Workers : CommitUpserts(w)
    BY <1>4, <1>3, UpsertsLeave
  <1>5. CASE ~\E w \in Workers : CommitUpserts(w)
    BY <1>5, <1>1, <1>2, PartsAfter
  <1> QED
    BY <1>4, <1>5

--------------------------------------------------------------------------------

\* What a request may become in one step that leaves the table alone.
Becomes(w, q) ==
    /\ q \in Requests
    /\ Holds(q, parts)
    /\ \A i \in Ids : q.writes[i] # None /\ q.writes[i].new =>
          i \in Added(w) \/ \A v \in Workers : i \notin Written(v)

LEMMA NoReqFits ==
    /\ NoReq \in Requests
    /\ \A i \in Ids : NoReq.writes[i] = None
    /\ NoReq.pc = "idle" /\ NoReq.lines = <<>>
  <1>1. <<>> \in Seq(Lines) /\ [i \in Ids |-> None] \in [Ids -> Writes \union {None}]
    OBVIOUS
  <1> QED
    BY <1>1 DEF NoReq, Requests, Stages

\* A request that starts has written nothing.
LEMMA StartsFit ==
    ASSUME NEW w \in Workers, NEW q \in Requests,
           \A i \in Ids : q.writes[i] = None,
           q.pc # "quota", InHand(q, parts)
    PROVE  Becomes(w, q)
  BY DEF Becomes, Holds, WritesFit, NamesDiffer, NotAdded

\* A request that goes on without writing keeps what it has.
LEMMA GoesOn ==
    ASSUME Inv, NEW w \in Workers, NEW q \in Requests,
           q.writes = req[w].writes, NotAdded(q), InHand(q, parts)
    PROVE  Becomes(w, q)
  BY DEF Inv, Becomes, Holds, WritesFit, NamesDiffer, Added, Written

\* The lines that are left, and the stage that follows.
LEMMA LinesLeft ==
    ASSUME Inv, NEW w \in Workers, req[w].pc \in {"find", "quota"},
           NEW writes \in [Ids -> Writes \union {None}], NextLine(w, writes)
    PROVE  \E q \in Requests :
              /\ req' = [req EXCEPT ![w] = q]
              /\ q.writes = writes
              /\ NotAdded(q) /\ InHand(q, parts)
  <1> DEFINE stage == IF Len(req[w].lines) = 1 THEN "commit" ELSE "find"
             q == [[[req[w] EXCEPT !.lines = Tail(@)] EXCEPT !.writes = writes]
                      EXCEPT !.pc = stage]
  <1>1. req[w] \in Requests /\ req[w].lines \in Seq(Lines)
    BY RequestTyped DEF Inv, UniqueNames
  <1>2. req[w].lines # <<>> /\ req[w].op \in {"create", "import"}
    BY DEF Inv, Holds, InHand
  <1>3. /\ Tail(req[w].lines) \in Seq(Lines)
        /\ stage = "find" => Tail(req[w].lines) # <<>>
    <2>1. ASSUME NEW lines \in Seq(Lines), lines # <<>>
          PROVE  /\ Tail(lines) \in Seq(Lines)
                 /\ Len(lines) # 1 => Tail(lines) # <<>>
      <3>1. Tail(lines) \in Seq(Lines) /\ Len(Tail(lines)) = Len(lines) - 1
        BY <2>1, HeadTailProperties
      <3>2. Len(lines) \in Nat \ {0}
        BY <2>1, EmptySeq
      <3>3. Len(<<>>) = 0
        BY EmptySeq
      <3>4. Len(lines) # 1 => Len(Tail(lines)) # 0
        BY <3>1, <3>2
      <3> QED
        BY <3>1, <3>3, <3>4, Zenon
    <2>2. stage = "find" => Len(req[w].lines) # 1
      OBVIOUS
    <2> QED
      BY <1>1, <1>2, <2>1, <2>2
  <1>4. stage \in {"commit", "find"}
    OBVIOUS
  <1> HIDE DEF stage
  <1>5. /\ q \in Requests /\ q.writes = writes /\ q.pc = stage
        /\ q.lines = Tail(req[w].lines) /\ q.op = req[w].op
    BY <1>1, <1>3, <1>4 DEF Requests, Stages
  <1>6. req' = [req EXCEPT ![w] = q]
    BY DEF NextLine, stage, Inv, UniqueNames, TypeOK
  <1> HIDE DEF q
  <1>7. NotAdded(q) /\ InHand(q, parts)
    BY <1>2, <1>3, <1>4, <1>5 DEF NotAdded, InHand
  <1> QED
    BY <1>5, <1>6, <1>7

LEMMA FindPartMoves ==
    ASSUME Inv, NEW w \in Workers, FindPart(w)
    PROVE  \E q \in Requests : req' = [req EXCEPT ![w] = q] /\ Becomes(w, q)
  <1> DEFINE line == Head(req[w].lines)
             writes == req[w].writes
             own == {i \in Added(w) : writes[i].name = line.name}
  <1>1. /\ req[w] \in Requests /\ req[w].pc = "find"
        /\ writes \in [Ids -> Writes \union {None}]
        /\ \A i \in Ids : writes[i] \in Writes \union {None}
    BY RequestTyped DEF Inv, UniqueNames, FindPart, At, Requests
  <1>2. req[w].lines # <<>> /\ req[w].op \in {"create", "import"} /\ line \in Lines
    <2>1. req[w].lines # <<>> /\ req[w].op \in {"create", "import"}
      BY <1>1 DEF Inv, Holds, InHand
    <2>2. req[w].lines \in Seq(Lines)
      BY RequestTyped DEF Inv, UniqueNames
    <2> QED
      BY <2>1, <2>2
  <1>3. WritesFit(req[w], parts) /\ NamesDiffer(req[w])
    BY DEF Inv, Holds
  <1>4. ASSUME NEW i \in own, NextLine(w, [writes EXCEPT ![i].doc = line.doc])
        PROVE  \E q \in Requests : req' = [req EXCEPT ![w] = q] /\ Becomes(w, q)
    <2> DEFINE new == [writes EXCEPT ![i].doc = line.doc]
    <2>1. i \in Ids /\ writes[i] \in Writes /\ writes[i].new /\ i \in Added(w)
      BY <1>1, <1>4 DEF Added, Written
    <2>2. /\ new \in [Ids -> Writes \union {None}]
          /\ new[i].new /\ new[i].name = writes[i].name
          /\ \A j \in Ids \ {i} : new[j] = writes[j]
      BY <1>1, <1>2, <2>1 DEF Writes, Lines
    <2>3. PICK q \in Requests :
             /\ req' = [req EXCEPT ![w] = q]
             /\ q.writes = new
             /\ NotAdded(q) /\ InHand(q, parts)
      BY <1>1, <1>4, <2>2, LinesLeft
    <2> HIDE DEF new
    <2>4. writes[i] # None
      BY <2>1 DEF Added, Written
    <2>5. WritesFit(q, parts)
      BY <1>3, <2>1, <2>2, <2>3, <2>4 DEF WritesFit
    <2>6. NamesDiffer(q)
      BY <1>3, <2>1, <2>2, <2>3, <2>4 DEF NamesDiffer
    <2>7. \A j \in Ids : q.writes[j] # None /\ q.writes[j].new => j \in Added(w)
      BY <2>1, <2>2, <2>3 DEF Added, Written
    <2> QED
      BY <2>3, <2>5, <2>6, <2>7 DEF Becomes, Holds
  <1>5. ASSUME NEW i \in Named(line.name),
               IF parts[i].doc = line.doc /\ i \notin Written(w)
               THEN NextLine(w, writes)
               ELSE NextLine(w, [writes EXCEPT ![i] =
                       [name |-> line.name, doc |-> line.doc, new |-> FALSE]])
        PROVE  \E q \in Requests : req' = [req EXCEPT ![w] = q] /\ Becomes(w, q)
    <2> DEFINE write == [name |-> line.name, doc |-> line.doc, new |-> FALSE]
               new == [writes EXCEPT ![i] = write]
    <2>1. i \in Ids /\ parts[i] # None
      BY DEF Named, Live
    <2>2. CASE parts[i].doc = line.doc /\ i \notin Written(w)
      <3>1. NextLine(w, writes)
        BY <1>5, <2>2
      <3> QED
        BY <1>1, <3>1, LinesLeft, GoesOn
    <2>3. CASE ~(parts[i].doc = line.doc /\ i \notin Written(w))
      <3>1. NextLine(w, new)
        BY <1>5, <2>3
      <3>2. write \in Writes /\ ~write.new
        BY <1>2 DEF Writes, Lines
      <3> HIDE DEF write
      <3>3. /\ new \in [Ids -> Writes \union {None}]
            /\ new[i] = write
            /\ \A j \in Ids \ {i} : new[j] = writes[j]
        BY <1>1, <2>1, <3>2
      <3>4. PICK q \in Requests :
               /\ req' = [req EXCEPT ![w] = q]
               /\ q.writes = new
               /\ NotAdded(q) /\ InHand(q, parts)
        BY <1>1, <3>1, <3>3, LinesLeft
      <3> HIDE DEF new
      <3>5. WritesFit(q, parts)
        BY <1>3, <2>1, <3>2, <3>3, <3>4 DEF WritesFit
      <3>6. NamesDiffer(q)
        BY <1>3, <3>2, <3>3, <3>4 DEF NamesDiffer
      <3>7. \A j \in Ids : q.writes[j] # None /\ q.writes[j].new => j \in Added(w)
        BY <3>2, <3>3, <3>4 DEF Added, Written
      <3> QED
        BY <3>4, <3>5, <3>6, <3>7 DEF Becomes, Holds
    <2> QED
      BY <2>2, <2>3
  <1>6. ASSUME own = {}, Go(w, "quota")
        PROVE  \E q \in Requests : req' = [req EXCEPT ![w] = q] /\ Becomes(w, q)
    <2> DEFINE q == [req[w] EXCEPT !.pc = "quota"]
    <2>1. /\ q \in Requests /\ q.pc = "quota" /\ q.writes = writes
          /\ q.lines = req[w].lines /\ q.op = req[w].op
      BY <1>1 DEF Requests, Stages
    <2>2. req' = [req EXCEPT ![w] = q]
      BY <1>6 DEF Go, Inv, UniqueNames, TypeOK
    <2> HIDE DEF q
    <2>3. NotAdded(q)
      BY <1>6, <2>1 DEF NotAdded, Added, Written
    <2>4. InHand(q, parts)
      BY <1>2, <2>1 DEF InHand
    <2> QED
      BY <2>1, <2>2, <2>3, <2>4, GoesOn
  <1> QED
    BY <1>4, <1>5, <1>6 DEF FindPart

LEMMA AddPartMoves ==
    ASSUME Inv, NEW w \in Workers, AddPart(w)
    PROVE  \E q \in Requests : req' = [req EXCEPT ![w] = q] /\ Becomes(w, q)
  <1> DEFINE line == Head(req[w].lines)
             writes == req[w].writes
  <1>1. /\ req[w] \in Requests /\ req[w].pc = "quota"
        /\ writes \in [Ids -> Writes \union {None}]
    BY RequestTyped DEF Inv, UniqueNames, AddPart, At, Requests
  <1>2. line \in Lines
    <2>1. req[w].lines # <<>> /\ req[w].lines \in Seq(Lines)
      BY <1>1, RequestTyped DEF Inv, UniqueNames, Holds, InHand
    <2> QED
      BY <2>1
  <1>3. WritesFit(req[w], parts) /\ NamesDiffer(req[w])
    BY DEF Inv, Holds
  <1>4. \A j \in Ids : writes[j] # None /\ writes[j].new => writes[j].name # line.name
    BY <1>1 DEF Inv, Holds, NotAdded
  <1>5. ASSUME NEW i \in Ids, parts[i] = None, \A v \in Workers : i \notin Written(v),
               NextLine(w, [writes EXCEPT ![i] =
                   [name |-> line.name, doc |-> line.doc, new |-> TRUE]])
        PROVE  \E q \in Requests : req' = [req EXCEPT ![w] = q] /\ Becomes(w, q)
    <2> DEFINE write == [name |-> line.name, doc |-> line.doc, new |-> TRUE]
               new == [writes EXCEPT ![i] = write]
    <2>1. write \in Writes /\ write.new /\ write.name = line.name
      BY <1>2 DEF Writes, Lines
    <2> HIDE DEF write
    <2>2. /\ new \in [Ids -> Writes \union {None}]
          /\ new[i] = write
          /\ \A j \in Ids \ {i} : new[j] = writes[j]
      BY <1>1, <2>1
    <2>3. PICK q \in Requests :
             /\ req' = [req EXCEPT ![w] = q]
             /\ q.writes = new
             /\ NotAdded(q) /\ InHand(q, parts)
      BY <1>1, <1>5, <2>2, LinesLeft DEF write
    <2> HIDE DEF new
    <2>4. WritesFit(q, parts)
      BY <1>3, <1>5, <2>1, <2>2, <2>3 DEF WritesFit
    <2>5. NamesDiffer(q)
      BY <1>3, <1>4, <2>1, <2>2, <2>3 DEF NamesDiffer
    <2>6. \A j \in Ids : q.writes[j] # None /\ q.writes[j].new =>
             j \in Added(w) \/ \A v \in Workers : j \notin Written(v)
      BY <1>5, <2>2, <2>3 DEF Added, Written
    <2> QED
      BY <2>3, <2>4, <2>5, <2>6 DEF Becomes, Holds
  <1>6. ASSUME NextLine(w, writes)
        PROVE  \E q \in Requests : req' = [req EXCEPT ![w] = q] /\ Becomes(w, q)
    BY <1>1, <1>6, LinesLeft, GoesOn
  <1> QED
    BY <1>5, <1>6 DEF AddPart

\* Whatever step a request takes, it ends or becomes what Becomes allows.
LEMMA StepMoves ==
    ASSUME Inv, NEW w \in Workers, Step(w)
    PROVE  \E q \in Requests :
              /\ req' = [req EXCEPT ![w] = q]
              /\ q = NoReq \/ (parts' = parts /\ Becomes(w, q))
  <1> USE NoReqFits, RequestTyped DEF Inv, UniqueNames
  <1>1. CASE StartCreate(w)
    <2>1. PICK u \in Users, line \in Lines :
             Start(w, [NoReq EXCEPT !.pc = "owner", !.op = "create", !.user = u,
                                    !.lines = <<line>>])
      BY <1>1 DEF StartCreate
    <2> DEFINE lines == <<line>>
               q == [[[[NoReq EXCEPT !.pc = "owner"] EXCEPT !.op = "create"]
                         EXCEPT !.user = u] EXCEPT !.lines = lines]
    <2>2. lines \in Seq(Lines) /\ lines # <<>>
      OBVIOUS
    <2>3. req' = [req EXCEPT ![w] = q] /\ parts' = parts
      BY <2>1 DEF Start
    <2> HIDE DEF lines
    <2>4. /\ q \in Requests /\ \A i \in Ids : q.writes[i] = None
          /\ q.pc = "owner" /\ q.op = "create" /\ q.lines = lines /\ q.user = u
      BY <2>2 DEF Requests, Stages
    <2> HIDE DEF q
    <2>5. Becomes(w, q)
      BY <2>2, <2>4, StartsFit DEF InHand
    <2> QED
      BY <2>3, <2>4, <2>5
  <1>2. CASE StartImport(w)
    <2>1. PICK u \in Users, n \in 1..MaxLines : \E lines \in [1..n -> Lines] :
             Start(w, [NoReq EXCEPT !.pc = "owner", !.op = "import", !.user = u,
                                    !.lines = lines])
      BY <1>2 DEF StartImport
    <2>2. PICK lines \in [1..n -> Lines] :
             Start(w, [NoReq EXCEPT !.pc = "owner", !.op = "import", !.user = u,
                                    !.lines = lines])
      BY <2>1
    <2> DEFINE q == [[[[NoReq EXCEPT !.pc = "owner"] EXCEPT !.op = "import"]
                         EXCEPT !.user = u] EXCEPT !.lines = lines]
    <2>3. lines \in Seq(Lines) /\ lines # <<>>
      <3>1. n \in Nat /\ n >= 1
        BY NumbersAssumption
      <3>2. lines \in Seq(Lines) /\ Len(lines) = n
        BY <3>1, IsASeq, LenProperties
      <3> QED
        BY <3>1, <3>2, EmptySeq
    <2>4. /\ q \in Requests /\ \A i \in Ids : q.writes[i] = None
          /\ q.pc = "owner" /\ q.op = "import" /\ q.lines = lines /\ q.user = u
      BY <2>3 DEF Requests, Stages
    <2>5. req' = [req EXCEPT ![w] = q] /\ parts' = parts
      BY <2>2 DEF Start
    <2> HIDE DEF q
    <2>6. Becomes(w, q)
      BY <2>3, <2>4, StartsFit DEF InHand
    <2> QED
      BY <2>4, <2>5, <2>6
  <1>3. CASE StartUpdate(w)
    <2>1. PICK u \in Users, i \in Live, doc \in Docs \union {None},
               lifecycle \in Asked \union {None} :
             Start(w, [NoReq EXCEPT !.pc = "get", !.op = "update", !.user = u,
                                    !.part = i, !.doc = doc, !.lifecycle = lifecycle])
      BY <1>3 DEF StartUpdate
    <2> DEFINE q == [[[[[[NoReq EXCEPT !.pc = "get"] EXCEPT !.op = "update"]
                         EXCEPT !.user = u] EXCEPT !.part = i] EXCEPT !.doc = doc]
                         EXCEPT !.lifecycle = lifecycle]
    <2>2. i \in Ids /\ lifecycle \in Lifecycles \union {None}
      BY SetsAssumption DEF Live
    <2>3. /\ q \in Requests /\ \A j \in Ids : q.writes[j] = None
          /\ q.pc = "get" /\ q.op = "update" /\ q.user = u
      BY <2>2, ZenonT(60) DEF Requests, Stages
    <2>4. req' = [req EXCEPT ![w] = q] /\ parts' = parts
      BY <2>1 DEF Start
    <2> HIDE DEF q
    <2>5. Becomes(w, q)
      BY <2>3, StartsFit DEF InHand
    <2> QED
      BY <2>3, <2>4, <2>5
  <1>4. CASE StartDelete(w)
    <2>1. PICK u \in Users, i \in Live :
             Start(w, [NoReq EXCEPT !.pc = "get", !.op = "delete", !.user = u, !.part = i])
      BY <1>4 DEF StartDelete
    <2> DEFINE q == [[[[NoReq EXCEPT !.pc = "get"] EXCEPT !.op = "delete"]
                         EXCEPT !.user = u] EXCEPT !.part = i]
    <2>2. i \in Ids
      BY DEF Live
    <2>3. /\ q \in Requests /\ \A j \in Ids : q.writes[j] = None
          /\ q.pc = "get" /\ q.op = "delete" /\ q.user = u
      BY <2>2 DEF Requests, Stages
    <2>4. req' = [req EXCEPT ![w] = q] /\ parts' = parts
      BY <2>1 DEF Start
    <2> HIDE DEF q
    <2>5. Becomes(w, q)
      BY <2>3, StartsFit DEF InHand
    <2> QED
      BY <2>3, <2>4, <2>5
  <1>5. CASE ResolveOwner(w)
    <2> DEFINE r == role[req[w].user]
               stage == IF req[w].op = "import" THEN "import_quota" ELSE "find"
               q == [[req[w] EXCEPT !.role = r] EXCEPT !.pc = stage]
    <2>1. r \in Roles \union {"none"} /\ parts' = parts
      BY <1>5 DEF ResolveOwner, At, Holds, InHand, TypeOK
    <2>2. req' = [req EXCEPT ![w] = q]
      BY <1>5 DEF ResolveOwner, TypeOK
    <2>3. stage \in {"import_quota", "find"}
      OBVIOUS
    <2> HIDE DEF r, stage
    <2>4. /\ q \in Requests /\ q.writes = req[w].writes
          /\ q.pc = stage /\ q.op = req[w].op /\ q.lines = req[w].lines
      BY <2>1, <2>3, ZenonT(60) DEF Requests, Stages
    <2> HIDE DEF q
    <2>5. NotAdded(q) /\ InHand(q, parts)
      BY <1>5, <2>3, <2>4 DEF NotAdded, InHand, Holds, ResolveOwner, At
    <2> QED
      BY <2>1, <2>2, <2>4, <2>5, GoesOn
  <1>6. CASE CheckImport(w)
    <2> DEFINE q == [req[w] EXCEPT !.pc = "find"]
    <2>1. req' = [req EXCEPT ![w] = q] /\ parts' = parts
      BY <1>6 DEF CheckImport, Go, TypeOK
    <2>2. /\ q \in Requests /\ q.writes = req[w].writes
          /\ q.pc = "find" /\ q.op = req[w].op /\ q.lines = req[w].lines
      BY DEF Requests, Stages
    <2> HIDE DEF q
    <2>3. NotAdded(q) /\ InHand(q, parts)
      BY <1>6, <2>2 DEF NotAdded, InHand, Holds, CheckImport, At
    <2> QED
      BY <2>1, <2>2, <2>3, GoesOn
  <1>7. CASE FindPart(w)
    <2>1. parts' = parts
      BY <1>7 DEF FindPart, NextLine, Go
    <2> QED
      BY <1>7, <2>1, FindPartMoves
  <1>8. CASE AddPart(w)
    <2>1. parts' = parts
      BY <1>8 DEF AddPart, NextLine
    <2> QED
      BY <1>8, <2>1, AddPartMoves
  <1>9. CASE GetPart(w)
    <2> DEFINE i == req[w].part
               q == [[req[w] EXCEPT !.row = parts[i]] EXCEPT !.pc = "access"]
    <2>1. i \in Ids /\ parts[i] # None /\ parts[i] \in Rows /\ parts' = parts
      BY <1>9, RowTyped DEF GetPart, Live
    <2>2. req' = [req EXCEPT ![w] = q]
      BY <1>9 DEF GetPart, TypeOK
    <2>3. /\ q \in Requests /\ q.writes = req[w].writes
          /\ q.pc = "access" /\ q.op = req[w].op /\ q.user = req[w].user
          /\ q.part = i /\ q.row = parts[i]
      BY <2>1 DEF Requests, Stages
    <2> HIDE DEF q
    <2>4. NotAdded(q) /\ InHand(q, parts)
      BY <1>9, <2>1, <2>3 DEF NotAdded, InHand, Holds, GetPart, At
    <2> QED
      BY <2>1, <2>2, <2>3, <2>4, GoesOn
  <1>10. CASE CheckAccess(w)
    <2> DEFINE r == role[req[w].user]
               q == [[req[w] EXCEPT !.role = r] EXCEPT !.pc = "commit"]
    <2>1. req' = [req EXCEPT ![w] = q] /\ parts' = parts
      BY <1>10 DEF CheckAccess, TypeOK
    <2>2. r \in Roles \union {"none"}
      BY <1>10 DEF CheckAccess, At, Holds, InHand, TypeOK
    <2> HIDE DEF r
    <2>3. /\ q \in Requests /\ q.writes = req[w].writes
          /\ q.pc = "commit" /\ q.op = req[w].op
          /\ q.part = req[w].part /\ q.row = req[w].row
      BY <2>2 DEF Requests, Stages
    <2> HIDE DEF q
    <2>4. NotAdded(q) /\ InHand(q, parts)
      BY <1>10, <2>3 DEF NotAdded, InHand, Holds, CheckAccess, At
    <2> QED
      BY <2>1, <2>3, <2>4, GoesOn
  <1>11. CASE CommitUpserts(w) \/ CommitUpdate(w) \/ CommitDelete(w) \/ Abort(w)
    BY <1>11 DEF CommitUpserts, CommitUpdate, CommitDelete, Abort, Finish
  <1> QED
    BY <1>1, <1>2, <1>3, <1>4, <1>5, <1>6, <1>7, <1>8, <1>9, <1>10, <1>11 DEF Step

--------------------------------------------------------------------------------

LEMMA InvInit == ASSUME Init PROVE Inv
  <1> USE NoReqFits DEF Init
  <1>1. TypeOK
    BY DEF TypeOK
  <1>2. Live = {} /\ \A w \in Workers : req[w] = NoReq
    BY DEF Live
  <1>3. ASSUME NEW w \in Workers PROVE Holds(req[w], parts) /\ Added(w) = {}
    BY <1>2 DEF Holds, WritesFit, NamesDiffer, NotAdded, InHand, Added, Written
  <1> QED
    BY <1>1, <1>2, <1>3 DEF Inv, UniqueNames, Apart

\* What a request holds on to outlives the steps of the others.
LEMMA HoldsOn ==
    ASSUME Inv, Next, NEW v \in Workers, NEW q \in Requests,
           Holds(q, parts),
           \A i \in Ids : q.writes[i] # None /\ q.writes[i].new => parts'[i] = None
    PROVE  Holds(q, parts')
  <1>1. \A i \in Ids : parts[i] # None => parts'[i] # None
    BY TableKept
  <1>2. WritesFit(q, parts')
    BY <1>1 DEF Holds, WritesFit
  <1>3. InHand(q, parts')
    BY <1>1 DEF Holds, InHand
  <1> QED
    BY <1>2, <1>3 DEF Holds

LEMMA StepKeepsRequests ==
    ASSUME Inv, Next, NEW w \in Workers, Step(w)
    PROVE  /\ req' \in [Workers -> Requests]
           /\ \A v \in Workers : Holds(req'[v], parts')
           /\ Apart'
  <1>1. PICK q \in Requests :
           /\ req' = [req EXCEPT ![w] = q]
           /\ q = NoReq \/ (parts' = parts /\ Becomes(w, q))
    BY StepMoves
  <1>2. /\ req' \in [Workers -> Requests] /\ req'[w] = q
        /\ \A v \in Workers \ {w} : req'[v] = req[v]
    BY <1>1 DEF Inv, UniqueNames, TypeOK
  <1>3. ASSUME NEW v \in Workers \ {w}, NEW i \in Added(v)
        PROVE  parts'[i] = None
    <2>1. i \in Ids /\ parts[i] = None /\ i \notin Added(w)
      BY <1>3 DEF Inv, Holds, WritesFit, Apart, Added, Written
    <2>2. CASE CommitUpserts(w)
      BY <2>1, <2>2, UpsertsLeave
    <2>3. CASE ~CommitUpserts(w)
      <3>1. ~\E u \in Workers : CommitUpserts(u)
        <4>1. ASSUME NEW u \in Workers, CommitUpserts(u), u # w
              PROVE  FALSE
          <5>1. req'[u] = NoReq /\ req'[u] = req[u] /\ req[u].pc = "commit"
            BY <1>2, <4>1 DEF CommitUpserts, Finish, At, Inv, UniqueNames, TypeOK
          <5> QED
            BY <5>1, NoReqFits
        <4> QED
          BY <2>3, <4>1
      <3>2. CASE parts' = parts
        BY <2>1, <3>2
      <3>3. CASE \E j \in Ids, new \in Rows :
                    /\ parts[j] # None /\ Keeps(j, new)
                    /\ parts' = [parts EXCEPT ![j] = new]
        BY <2>1, <3>3 DEF Inv, UniqueNames, TypeOK
      <3> QED
        BY <3>1, <3>2, <3>3, PartsAfter
    <2> QED
      BY <2>2, <2>3
  <1>4. ASSUME NEW v \in Workers \ {w}
        PROVE  Holds(req'[v], parts')
    <2>1. req'[v] = req[v] /\ req[v] \in Requests /\ Holds(req[v], parts)
      BY <1>2, RequestTyped DEF Inv, UniqueNames
    <2>2. \A i \in Ids : req[v].writes[i] # None /\ req[v].writes[i].new => parts'[i] = None
      BY <1>3 DEF Added, Written
    <2> QED
      BY <2>1, <2>2, HoldsOn
  <1>5. Holds(q, parts')
    BY <1>1, NoReqFits DEF Becomes, Holds, WritesFit, NamesDiffer, NotAdded, InHand
  <1>6. Apart'
    <2>1. \A v \in Workers \ {w} : Added(v)' = Added(v)
      BY <1>2 DEF Added, Written
    <2>2. \A v \in Workers \ {w} : Added(w)' \intersect Added(v) = {}
      BY <1>1, <1>2, NoReqFits DEF Becomes, Inv, Apart, Added, Written
    <2> QED
      BY <2>1, <2>2 DEF Inv, Apart
  <1> QED
    BY <1>2, <1>4, <1>5, <1>6

LEMMA InvNext == ASSUME Inv, [Next]_vars PROVE Inv'
  <1>1. CASE UNCHANGED vars
    BY <1>1 DEF vars, Inv, UniqueNames, TypeOK, Live, Holds, WritesFit, NamesDiffer,
                NotAdded, InHand, Apart, Added, Written
  <1>2. CASE Next
    <2>1. orgLive' \in BOOLEAN /\ role' \in [Users -> Roles]
      <3>1. CASE \E u \in Users : SetRole(u)
        BY <3>1 DEF SetRole, Inv, UniqueNames, TypeOK
      <3>2. CASE DeleteOrg
        BY <3>2 DEF DeleteOrg, Inv, UniqueNames, TypeOK
      <3>3. CASE \E w \in Workers : Step(w)
        <4>1. PICK w \in Workers : Step(w)
          BY <3>3
        <4>2. ASSUME StartCreate(w) \/ StartImport(w) \/ StartUpdate(w) \/ StartDelete(w)
              PROVE  UNCHANGED <<orgLive, role>>
          BY <4>2 DEF StartCreate, StartImport, StartUpdate, StartDelete, Start
        <4>3. ASSUME FindPart(w) \/ AddPart(w)
              PROVE  UNCHANGED <<orgLive, role>>
          BY <4>3 DEF FindPart, AddPart, NextLine, Go
        <4>4. UNCHANGED <<orgLive, role>>
          BY <4>1, <4>2, <4>3 DEF Step, Go, ResolveOwner, CheckImport, CommitUpserts,
             GetPart, CheckAccess, CommitUpdate, CommitDelete, Abort
        <4> QED
          BY <4>4 DEF Inv, UniqueNames, TypeOK
      <3> QED
        BY <1>2, <3>1, <3>2, <3>3 DEF Next
    <2>2. /\ req' \in [Workers -> Requests]
          /\ \A v \in Workers : Holds(req'[v], parts')
          /\ Apart'
      <3>1. CASE \E w \in Workers : Step(w)
        BY <1>2, <3>1, StepKeepsRequests
      <3>2. CASE (\E u \in Users : SetRole(u)) \/ DeleteOrg
        BY <3>2 DEF SetRole, DeleteOrg, Inv, UniqueNames, TypeOK, Apart, Added, Written
      <3> QED
        BY <1>2, <3>1, <3>2 DEF Next
    <2> QED
      BY <1>2, <2>1, <2>2, TableKept DEF Inv, UniqueNames, TypeOK
  <1> QED
    BY <1>1, <1>2

THEOREM InvHolds == Spec => []Inv
  <1> QED
    BY InvInit, InvNext, PTL DEF Spec

\* No two live parts of one name, whatever requests and imports overlap: the key
\* of _upsert_part is a key.
THEOREM UniqueNamesHolds == Spec => []UniqueNames
  <1>1. Inv => UniqueNames
    BY DEF Inv
  <1> QED
    BY <1>1, InvHolds, PTL

\* No request brings a deleted part back.
THEOREM DeletedForGoodHolds == Spec => DeletedForGood
  <1>1. ASSUME Inv, [Next]_vars
        PROVE  [\A i \in Ids : parts[i] # None /\ parts[i].deleted => i \notin Live']_vars
    <2>1. CASE UNCHANGED vars
      BY <2>1
    <2>2. CASE Next
      BY <1>1, <2>2, TableKept DEF Live
    <2> QED
      BY <1>1, <2>1, <2>2
  <1> QED
    BY <1>1, InvHolds, PTL DEF Spec, DeletedForGood

--------------------------------------------------------------------------------
(* The parts are a map from their names *)

\* A name's part is the live row of that name.
NamesShown ==
    /\ \A i \in Live : PartNamed(parts[i].name) = Catalogued(i)
    /\ \A n \in Names : Named(n) = {} => PartNamed(n) = None
    /\ \A n \in Names : Named(n) # {} =>
          \E i \in Live : parts[i].name = n /\ PartNamed(n) = Catalogued(i)

LEMMA ShownPart ==
    ASSUME UniqueNames
    PROVE  NamesShown
  <1>1. \A i \in Live : Named(parts[i].name) = {i}
    BY DEF Named, UniqueNames
  <1>2. \A i \in Live : PartNamed(parts[i].name) = Catalogued(i)
    <2> SUFFICES ASSUME NEW i \in Live
                 PROVE  PartNamed(parts[i].name) = Catalogued(i)
      OBVIOUS
    <2>1. (CHOOSE j \in {i} : TRUE) = i
      OBVIOUS
    <2> QED
      BY <1>1, <2>1 DEF PartNamed
  <1>3. \A n \in Names : Named(n) # {} => \E i \in Live : parts[i].name = n
    BY DEF Named
  <1> QED
    BY <1>2, <1>3 DEF PartNamed, NamesShown

LEMMA ShownAfter == UniqueNames' => NamesShown'
  <1>1. UniqueNames => NamesShown
    BY ShownPart
  <1> QED
    BY <1>1, PTL

LiveRowsTyped == \A i \in Live : i \in Ids /\ parts[i] \in Rows /\ parts[i].name \in Names

LEMMA LiveTyped == ASSUME UniqueNames PROVE LiveRowsTyped
  BY RowTyped DEF UniqueNames, LiveRowsTyped, Live, Rows

LEMMA LiveTypedAfter == UniqueNames' => LiveRowsTyped'
  <1>1. UniqueNames => LiveRowsTyped
    BY LiveTyped
  <1> QED
    BY <1>1, PTL

\* The names taken are those of the live parts.
LEMMA TakenShown ==
    ASSUME UniqueNames
    PROVE  TheCatalog!Taken = {n \in Names : Named(n) # {}}
  <1>1. \A i \in Live : Catalogued(i) \in TheCatalog!Parts
    <2> SUFFICES ASSUME NEW i \in Live
                 PROVE  Catalogued(i) \in TheCatalog!Parts
      OBVIOUS
    <2>1. i \in Ids /\ parts[i].doc \in Docs /\ parts[i].lifecycle \in Lifecycles
      BY LiveTyped DEF LiveRowsTyped, Rows
    <2> QED
      BY <2>1 DEF Catalogued, TheCatalog!Parts, TheCatalog!Lifecycles, Lifecycles
  <1>2. \A n \in Names : PartNamed(n) # None <=> Named(n) # {}
    BY <1>1, ShownPart, PartsAssumption DEF NamesShown
  <1> QED
    BY <1>2 DEF TheCatalog!Taken

LEMMA TakenAfter == UniqueNames' => TheCatalog!Taken' = {n \in Names : Named(n)' # {}}
  <1> DEFINE Shown == TheCatalog!Taken = {n \in Names : Named(n) # {}}
  <1>1. UniqueNames => Shown
    BY TakenShown
  <1>2. UniqueNames' => Shown'
    BY <1>1, PTL
  <1> QED
    BY <1>2

\* A name whose live rows stay the same, and stay as they are, shows what it did.
LEMMA SameShown ==
    ASSUME UniqueNames, UniqueNames', NEW n \in Names, Named(n)' = Named(n),
           \A i \in Named(n) : parts'[i] = parts[i]
    PROVE  PartNamed(n)' = PartNamed(n)
  <1>1. CASE Named(n) = {}
    BY <1>1 DEF PartNamed
  <1>2. ASSUME NEW i \in Named(n)
        PROVE  PartNamed(n)' = PartNamed(n)
    <2>1. i \in Live /\ i \in Live' /\ parts[i].name = n /\ parts'[i].name = n
      BY <1>2 DEF Named
    <2>2. PartNamed(n) = Catalogued(i) /\ PartNamed(n)' = Catalogued(i)'
      BY <2>1, ShownPart, ShownAfter DEF NamesShown
    <2> QED
      BY <1>2, <2>2 DEF Catalogued
  <1> QED
    BY <1>1, <1>2

\* A part whose document and lifecycle are replaced keeps its id and nothing else.
LEMMA CatalogedAnew ==
    ASSUME NEW i, NEW doc, NEW lifecycle
    PROVE  [Catalogued(i) EXCEPT !.doc = doc, !.lifecycle = lifecycle] =
               [id |-> i, doc |-> doc, lifecycle |-> lifecycle]
  <1> DEFINE d == parts[i].doc
             l == parts[i].lifecycle
             part == [id |-> i, doc |-> d, lifecycle |-> l]
  <1>1. part = Catalogued(i)
    BY DEF Catalogued
  <1> HIDE DEF d, l
  <1>2. [part EXCEPT !.doc = doc, !.lifecycle = lifecycle] =
            [id |-> i, doc |-> doc, lifecycle |-> lifecycle]
    <2> DEFINE once == [id |-> i, doc |-> doc, lifecycle |-> l]
    <2>1. [part EXCEPT !.doc = doc] = once
      OBVIOUS
    <2>2. [once EXCEPT !.lifecycle = lifecycle] =
              [id |-> i, doc |-> doc, lifecycle |-> lifecycle]
      OBVIOUS
    <2> HIDE DEF once, part
    <2> QED
      BY <2>1, <2>2
  <1> HIDE DEF part
  <1> QED
    BY <1>1, <1>2

\* An edit or a deletion is one of the catalog's, or of a row that is not shown.
LEMMA EditImplementsCatalog ==
    ASSUME Inv, UniqueNames', NEW i \in Ids, NEW new \in Rows, parts[i] # None,
           Keeps(i, new), parts' = [parts EXCEPT ![i] = new]
    PROVE  \/ \E n \in TheCatalog!Taken : TheCatalog!Edit(n) \/ TheCatalog!Remove(n)
           \/ Known' = Known /\ \A n \in Names : PartNamed(n)' = PartNamed(n)
  <1> USE DEF Inv
  <1>1. /\ TypeOK /\ parts[i] \in Rows
        /\ \A j \in Ids : parts'[j] = IF j = i THEN new ELSE parts[j]
    BY RowTyped DEF UniqueNames, TypeOK
  <1>2. Known' = Known
    BY <1>1, AbsentAssumption DEF Known
  <1>3. /\ \A j \in Ids \ {i} : j \in Live' <=> j \in Live
        /\ i \in Live' <=> ~new.deleted
    BY <1>1, AbsentAssumption DEF Live
  <1>4. PICK name \in Names : name = parts[i].name /\ name = new.name
    BY <1>1 DEF Keeps, Rows
  <1>5. \A m \in Names \ {name} : PartNamed(m)' = PartNamed(m)
    <2>1. \A m \in Names \ {name} : Named(m)' = Named(m)
      BY <1>1, <1>3, <1>4 DEF Named, Live
    <2>2. \A m \in Names \ {name} : \A j \in Named(m) : parts'[j] = parts[j]
      BY <1>1, <1>4 DEF Named, Live
    <2> QED
      BY <2>1, <2>2, SameShown
  <1>6. CASE i \notin Live
    <2>1. parts[i].deleted /\ i \notin Live'
      BY <1>1, <1>3, <1>6 DEF Live, Keeps, Rows
    <2>2. Named(name)' = Named(name)
      BY <1>1, <1>3, <1>6, <2>1 DEF Named, Live
    <2>3. \A j \in Named(name) : parts'[j] = parts[j]
      BY <1>1, <1>6 DEF Named, Live
    <2>4. PartNamed(name)' = PartNamed(name)
      BY <2>2, <2>3, SameShown
    <2> QED
      BY <1>2, <1>5, <2>4
  <1>7. CASE i \in Live
    <2>1. Named(name) = {i} /\ name \in TheCatalog!Taken /\ PartNamed(name) = Catalogued(i)
      <3>1. Named(name) = {i}
        BY <1>4, <1>7 DEF Named, UniqueNames
      <3>2. PartNamed(name) = Catalogued(i)
        BY <1>4, <1>7, ShownPart DEF NamesShown
      <3> QED
        BY <3>1, <3>2, TakenShown
    <2>2. ASSUME NEW part, PartNamed(name)' = part
          PROVE  TheCatalog!Becomes(name, part)
      BY <1>2, <1>5, <2>2 DEF TheCatalog!Becomes
    <2>3. CASE new.deleted
      <3>1. Named(name)' = {}
        BY <1>1, <1>3, <2>1, <2>3 DEF Named, Live
      <3>2. PartNamed(name)' = None
        BY <3>1 DEF PartNamed
      <3>3. TheCatalog!Remove(name)
        BY <2>2, <3>2 DEF TheCatalog!Remove
      <3> QED
        BY <2>1, <3>3
    <2>4. CASE ~new.deleted
      <3>1. i \in Live' /\ parts'[i] = new
        BY <1>1, <1>3, <2>4
      <3>2. PartNamed(name)' = Catalogued(i)'
        BY <1>4, <3>1, ShownAfter DEF NamesShown
      <3>3. PICK doc \in Docs, lifecycle \in Lifecycles :
               doc = new.doc /\ lifecycle = new.lifecycle
        BY DEF Rows
      <3>4. Catalogued(i)' = [id |-> i, doc |-> doc, lifecycle |-> lifecycle]
        BY <3>1, <3>3 DEF Catalogued
      <3>5. Catalogued(i)' = [Catalogued(i) EXCEPT !.doc = doc, !.lifecycle = lifecycle]
        BY <3>4, CatalogedAnew
      <3>6. TheCatalog!Becomes(name,
                [PartNamed(name) EXCEPT !.doc = doc, !.lifecycle = lifecycle])
        BY <2>1, <2>2, <3>2, <3>5
      <3>7. TheCatalog!Edit(name)
        BY <1>4, <3>3, <3>6 DEF TheCatalog!Edit, TheCatalog!Lifecycles, Lifecycles
      <3> QED
        BY <2>1, <3>7
    <2> QED
      BY <2>3, <2>4
  <1> QED
    BY <1>6, <1>7

\* What the commit of an upsert writes, row by row: a document into a row that
\* was there, or a whole new row.
LEMMA UpsertsWrite ==
    ASSUME Inv, NEW w \in Workers, CommitUpserts(w)
    PROVE  /\ \A i \in Ids \ Added(w) :
                 \/ parts'[i] = parts[i]
                 \/ parts[i] # None /\ \E doc \in Docs : parts'[i] = [parts[i] EXCEPT !.doc = doc]
           /\ \E first \in {"draft", "approved"} : \A i \in Added(w) :
                 /\ parts[i] = None
                 /\ parts'[i].name = req[w].writes[i].name
                 /\ parts'[i].doc \in Docs /\ parts'[i].lifecycle = first
                 /\ parts'[i] # None /\ ~parts'[i].deleted
  <1> USE DEF Inv, UniqueNames
  <1>1. PICK first \in {"draft", "approved"} : first = FirstLifecycle(req[w].role)
    BY DEF FirstLifecycle
  <1>2. \A i \in Ids : parts'[i] = IF i \in Written(w) THEN Upserted(w, i) ELSE parts[i]
    BY DEF CommitUpserts
  <1>3. ASSUME NEW i \in Ids \ Added(w), i \in Written(w)
        PROVE  parts[i] # None /\ \E doc \in Docs : parts'[i] = [parts[i] EXCEPT !.doc = doc]
    <2>1. req[w].writes[i] \in Writes /\ ~req[w].writes[i].new
      BY <1>3, RequestTyped DEF Added, Written
    <2>2. parts[i] # None
      BY <1>3, <2>1 DEF Holds, WritesFit, Written
    <2>3. PICK doc \in Docs : doc = req[w].writes[i].doc
      BY <2>1 DEF Writes
    <2>4. parts'[i] = [parts[i] EXCEPT !.doc = doc]
      BY <1>2, <1>3, <2>1, <2>3 DEF Upserted
    <2> QED
      BY <2>2, <2>4
  <1>4. ASSUME NEW i \in Added(w)
        PROVE  /\ parts[i] = None
               /\ parts'[i].name = req[w].writes[i].name
               /\ parts'[i].doc \in Docs /\ parts'[i].lifecycle = first
               /\ parts'[i] # None /\ ~parts'[i].deleted
    <2>1. i \in Ids /\ i \in Written(w) /\ req[w].writes[i] \in Writes /\ req[w].writes[i].new
      BY <1>4, RequestTyped DEF Added, Written
    <2>2. parts'[i] = [name |-> req[w].writes[i].name, doc |-> req[w].writes[i].doc,
                       lifecycle |-> first, deleted |-> FALSE]
      BY <1>1, <1>2, <2>1 DEF Upserted
    <2>3. parts[i] = None /\ parts'[i] \in Rows
      BY <1>4, <2>1, UpsertsLeave, AbsentAssumption DEF Keeps
    <2>4. req[w].writes[i].doc \in Docs
      BY <2>1 DEF Writes
    <2>5. /\ parts'[i].name = req[w].writes[i].name /\ parts'[i].doc = req[w].writes[i].doc
          /\ parts'[i].lifecycle = first /\ parts'[i].deleted = FALSE
      BY <2>2
    <2> QED
      BY <2>3, <2>4, <2>5, AbsentAssumption
  <1> QED
    BY <1>2, <1>3, <1>4

\* What one upsert or import commits, however many lines it has and whatever has
\* changed since they were looked up, is put into the catalog at once.
LEMMA UpsertsImplementCatalog ==
    ASSUME Inv, UniqueNames', NEW w \in Workers, CommitUpserts(w)
    PROVE  TheCatalog!Put
  <1>0. /\ UniqueNames /\ TypeOK
        /\ TheCatalog!Taken = {n \in Names : Named(n) # {}}
        /\ TheCatalog!Taken' = {n \in Names : Named(n)' # {}}
        /\ NamesShown /\ NamesShown'
    BY TakenShown, TakenAfter, ShownPart, ShownAfter DEF Inv, UniqueNames
  <1>1. PICK first \in {"draft", "approved"} : \A i \in Added(w) :
           /\ parts[i] = None
           /\ parts'[i].doc \in Docs /\ parts'[i].lifecycle = first
           /\ parts'[i] # None /\ ~parts'[i].deleted
    BY UpsertsWrite
  <1>2. \A i \in Ids \ Added(w) :
           \/ parts'[i] = parts[i]
           \/ parts[i] # None /\ \E doc \in Docs : parts'[i] = [parts[i] EXCEPT !.doc = doc]
    BY UpsertsWrite
  <1>3. /\ Added(w) \subseteq Ids /\ Added(w) \intersect Known = {}
        /\ Known' = Known \union Added(w)
    <2>1. \A i \in Ids : parts[i] # None => parts'[i] # None
      BY <1>1, UpsertsLeave, AbsentAssumption DEF Keeps
    <2> QED
      BY <1>1, <1>2, <2>1 DEF Known, Added, Written
  <1>4. ASSUME NEW i \in Live
        PROVE  /\ i \in Live' /\ parts'[i].name = parts[i].name
               /\ Catalogued(i)' = Catalogued(i) \/
                     TheCatalog!Again(Catalogued(i), Catalogued(i)')
    <2>1. i \in Ids /\ parts[i] # None /\ parts[i] \in Rows /\ ~parts[i].deleted
      BY <1>0, RowTyped DEF Live
    <2>2. i \notin Added(w)
      BY <1>1, <2>1
    <2>3. CASE parts'[i] = parts[i]
      BY <2>1, <2>3 DEF Live, Catalogued
    <2>4. ASSUME NEW doc \in Docs, parts'[i] = [parts[i] EXCEPT !.doc = doc]
          PROVE  /\ i \in Live' /\ parts'[i].name = parts[i].name
                 /\ TheCatalog!Again(Catalogued(i), Catalogued(i)')
      <3>1. /\ parts'[i] \in Rows /\ parts'[i].name = parts[i].name /\ ~parts'[i].deleted
            /\ parts'[i].doc = doc /\ parts'[i].lifecycle = parts[i].lifecycle
        BY <2>1, <2>4 DEF Rows
      <3>2. i \in Live'
        BY <2>1, <3>1, AbsentAssumption DEF Live
      <3>3. Catalogued(i)' = [Catalogued(i) EXCEPT !.doc = doc]
        BY <3>1 DEF Catalogued
      <3> QED
        BY <3>1, <3>2, <3>3 DEF TheCatalog!Again
    <2> QED
      BY <1>2, <2>1, <2>2, <2>3, <2>4
  <1>5. ASSUME NEW n \in Names
        PROVE  \/ PartNamed(n)' = PartNamed(n)
               \/ n \in TheCatalog!Taken /\ TheCatalog!Again(PartNamed(n), PartNamed(n)')
               \/ n \notin TheCatalog!Taken /\ TheCatalog!Fresh(n, first)
    <2>1. CASE n \in TheCatalog!Taken
      <3>1. PICK i \in Live : parts[i].name = n /\ PartNamed(n) = Catalogued(i)
        BY <1>0, <2>1 DEF NamesShown
      <3>2. i \in Live' /\ parts'[i].name = n
        BY <1>4, <3>1
      <3>3. PartNamed(n)' = Catalogued(i)'
        BY <1>0, <3>2 DEF NamesShown
      <3> QED
        BY <1>4, <2>1, <3>1, <3>3
    <2>2. CASE n \notin TheCatalog!Taken /\ n \notin TheCatalog!Taken'
      BY <1>0, <2>2 DEF NamesShown
    <2>3. CASE n \notin TheCatalog!Taken /\ n \in TheCatalog!Taken'
      <3>1. PICK i \in Live' : parts'[i].name = n /\ PartNamed(n)' = Catalogued(i)'
        BY <1>0, <2>3 DEF NamesShown
      <3>2. i \in Ids /\ i \in Added(w)
        <4>1. i \in Ids /\ parts'[i] # None /\ ~parts'[i].deleted
          BY <3>1 DEF Live
        <4>2. i \notin Live
          BY <1>0, <1>4, <2>3, <3>1 DEF Named
        <4>3. parts[i] # None => parts[i] \in Rows /\ parts[i].deleted
          BY <1>0, <4>1, <4>2, RowTyped DEF Live, Rows
        <4>4. parts[i] # None => i \in Added(w)
          BY <1>2, <4>1, <4>3 DEF Rows
        <4>5. parts[i] = None => i \in Added(w)
          BY <1>2, <4>1
        <4> QED
          BY <4>1, <4>4, <4>5
      <3>3. PartNamed(n)' = [id |-> i, doc |-> parts'[i].doc, lifecycle |-> first]
        BY <1>1, <3>1, <3>2 DEF Catalogued
      <3>4. ASSUME NEW m \in TheCatalog!Taken' \ {n}
            PROVE  PartNamed(m)'.id # i
        <4>1. PICK j \in Live' : parts'[j].name = m /\ PartNamed(m)' = Catalogued(j)'
          BY <1>0, <3>4 DEF NamesShown
        <4> QED
          BY <3>1, <3>4, <4>1 DEF Catalogued
      <3>5. i \in Ids \ Known /\ parts'[i].doc \in Docs
        BY <1>1, <1>3, <3>2
      <3>6. TheCatalog!Taken' \subseteq Names
        BY <1>0
      <3> QED
        BY <2>3, <3>3, <3>4, <3>5, <3>6 DEF TheCatalog!Fresh
    <2> QED
      BY <2>1, <2>2, <2>3
  <1>6. Known' = Known \union {p.id : p \in {PartNamed(n)' : n \in Names} \ {None}}
    <2>1. ASSUME NEW i \in Added(w)
          PROVE  \E n \in Names : PartNamed(n)' # None /\ PartNamed(n)'.id = i
      <3>1. i \in Live'
        BY <1>1, <1>3, <2>1 DEF Live
      <3>2. PICK n \in Names : n = parts'[i].name
        BY <3>1, LiveTypedAfter DEF LiveRowsTyped
      <3>3. PartNamed(n)' = Catalogued(i)' /\ n \in TheCatalog!Taken'
        BY <1>0, <3>1, <3>2 DEF NamesShown, Named
      <3>4. PartNamed(n)' # None
        BY <3>3 DEF TheCatalog!Taken
      <3> QED
        BY <3>2, <3>3, <3>4 DEF Catalogued
    <2>2. ASSUME NEW n \in Names, PartNamed(n)' # None
          PROVE  PartNamed(n)'.id \in Known'
      <3>1. Named(n)' # {}
        BY <1>0, <2>2 DEF NamesShown
      <3>2. PICK i \in Live' : PartNamed(n)' = Catalogued(i)'
        BY <1>0, <3>1 DEF NamesShown
      <3> QED
        BY <3>2 DEF Catalogued, Live, Known
    <2> QED
      BY <1>3, <2>1, <2>2
  <1> QED
    BY <1>5, <1>6 DEF TheCatalog!Put

\* Every step is one of the catalog's, or leaves the catalog as it is.
LEMMA StepImplementsCatalog ==
    ASSUME Inv, UniqueNames', [Next]_vars
    PROVE  [TheCatalog!Next]_<<[n \in Names |-> PartNamed(n)], Known>>
  <1>1. CASE parts' = parts
    <2>1. Known' = Known /\ \A n \in Names : PartNamed(n)' = PartNamed(n)
      BY <1>1 DEF Known, PartNamed, Named, Live, Catalogued
    <2> QED
      BY <2>1
  <1>2. CASE \E w \in Workers : CommitUpserts(w)
    BY <1>2, UpsertsImplementCatalog DEF TheCatalog!Next
  <1>3. CASE \E i \in Ids, new \in Rows :
                /\ parts[i] # None /\ Keeps(i, new)
                /\ parts' = [parts EXCEPT ![i] = new]
    <2>1. \/ \E n \in TheCatalog!Taken : TheCatalog!Edit(n) \/ TheCatalog!Remove(n)
          \/ Known' = Known /\ \A n \in Names : PartNamed(n)' = PartNamed(n)
      BY <1>3, EditImplementsCatalog
    <2> QED
      BY <2>1 DEF TheCatalog!Next
  <1> QED
    BY <1>1, <1>2, <1>3, PartsAfter DEF vars

\* Seen through the parts of its names, the inventory is a map from names to parts
\* whatever requests overlap: a removed part never comes back, under its name or
\* another, a part keeps its name and, while its document is put again, its
\* lifecycle, and all that an import adds starts with one lifecycle.
THEOREM ImplementsCatalogHolds == Spec => ImplementsCatalog
  <1>1. Init => TheCatalog!Init
    BY DEF Init, TheCatalog!Init, PartNamed, Named, Live, Known
  <1>2. Inv /\ Inv' /\ [Next]_vars
           => [TheCatalog!Next]_<<[n \in Names |-> PartNamed(n)], Known>>
    BY StepImplementsCatalog DEF Inv
  <1> QED
    BY <1>1, <1>2, InvHolds, PTL DEF Spec, ImplementsCatalog, TheCatalog!Spec

--------------------------------------------------------------------------------
(* Requests that come one at a time *)

Busy == {w \in Workers : req[w].pc # "idle"}

Edits(w) == req[w].op \in {"update", "delete"}

\* The part is still what the request has loaded, and who is about to commit was
\* let through with the role it takes.
StillLoaded(w) ==
    /\ At(w, "access") \/ (At(w, "commit") /\ Edits(w)) =>
          parts[req[w].part] = req[w].row
    /\ At(w, "commit") /\ Edits(w) /\ NeedsLibrarian(w) =>
          AtLeast(req[w].role, "librarian")

AloneInv ==
    /\ \A w \in Workers : At(w, "idle") => Added(w) = {}
    /\ alone => /\ \A v, w \in Busy : v = w
                /\ Cardinality(Live) <= MaxParts
                /\ \A w \in Workers : Cardinality(Live \union Added(w)) <= MaxParts
                /\ \A w \in Workers : StillLoaded(w)

LEMMA OneIsBusy ==
    ASSUME HistoryNext, alone', NEW v \in Busy', NEW w \in Busy'
    PROVE  v = w
  <1>1. Busy' = {u \in Workers : req'[u].pc # "idle"} /\ Busy' \subseteq Workers
    BY DEF Busy
  <1>2. IsFiniteSet(Busy')
    BY <1>1, SetsAssumption, FS_Subset
  <1>3. Cardinality(Busy') <= 1
    BY <1>1 DEF HistoryNext
  <1>4. /\ Cardinality(Busy') \in Nat /\ Cardinality(Busy' \ {v}) \in Nat
        /\ Cardinality(Busy' \ {v}) = Cardinality(Busy') - 1 /\ IsFiniteSet(Busy' \ {v})
    BY <1>2, FS_RemoveElement, FS_CardinalityType
  <1>5. Cardinality(Busy' \ {v}) = 0
    BY <1>3, <1>4
  <1> QED
    BY <1>4, <1>5, FS_EmptySet

\* What a step of one request does to it: only AddPart adds a part to those it is
\* about to commit, and the stages at which it edits a part are reached one way.
LEMMA StagesEntered ==
    ASSUME Inv, NEW w \in Workers, Step(w)
    PROVE  /\ ~At(w, "idle") \/ ~At(w, "idle")'
           /\ At(w, "idle")' => Added(w)' = {}
           /\ AddPart(w) \/ Added(w)' \subseteq Added(w)
           /\ At(w, "access")' => GetPart(w)
           /\ At(w, "commit")' /\ Edits(w)' => CheckAccess(w)
  <1>0. /\ TypeOK /\ req \in [Workers -> Requests] /\ req[w] \in Requests
        /\ Holds(req[w], parts)
    BY RequestTyped DEF Inv, UniqueNames, TypeOK
  <1>1. ASSUME NEW r, Start(w, r), r.pc \in {"owner", "get"},
               \A i \in Ids : r.writes[i] = None
        PROVE  At(w, "idle") /\ req'[w].pc \in {"owner", "get"} /\ Added(w)' = {}
    BY <1>0, <1>1 DEF Start, At, Added, Written
  <1>2. CASE StartCreate(w) \/ StartImport(w) \/ StartUpdate(w) \/ StartDelete(w)
    <2>1. \E r : /\ Start(w, r) /\ r.pc \in {"owner", "get"}
                 /\ \A i \in Ids : r.writes[i] = None
      <3>0. ASSUME NEW r, r.pc \in {"owner", "get"}, r.writes = NoReq.writes, Start(w, r)
            PROVE  \E q : /\ Start(w, q) /\ q.pc \in {"owner", "get"}
                          /\ \A i \in Ids : q.writes[i] = None
        BY <3>0, NoReqFits
      <3>1. CASE StartCreate(w)
        <4>1. PICK u \in Users, line \in Lines :
                 Start(w, [NoReq EXCEPT !.pc = "owner", !.op = "create", !.user = u,
                                      !.lines = <<line>>])
          BY <3>1 DEF StartCreate
        <4> DEFINE r == [NoReq EXCEPT !.pc = "owner", !.op = "create", !.user = u,
                               !.lines = <<line>>]
        <4>2. r.pc \in {"owner", "get"} /\ r.writes = NoReq.writes
          BY NoReqFits DEF Requests
        <4>3. Start(w, r)
          BY <4>1
        <4> HIDE DEF r
        <4> QED
          BY <3>0, <4>2, <4>3
      <3>2. CASE StartImport(w)
        <4>0. PICK u \in Users, n \in 1..MaxLines : \E lines \in [1..n -> Lines] :
                 Start(w, [NoReq EXCEPT !.pc = "owner", !.op = "import", !.user = u,
                                      !.lines = lines])
          BY <3>2 DEF StartImport
        <4>1. PICK lines \in [1..n -> Lines] :
                 Start(w, [NoReq EXCEPT !.pc = "owner", !.op = "import", !.user = u,
                                      !.lines = lines])
          BY <4>0
        <4> DEFINE r == [NoReq EXCEPT !.pc = "owner", !.op = "import", !.user = u,
                               !.lines = lines]
        <4>2. r.pc \in {"owner", "get"} /\ r.writes = NoReq.writes
          BY NoReqFits DEF Requests
        <4>3. Start(w, r)
          BY <4>1
        <4> HIDE DEF r
        <4> QED
          BY <3>0, <4>2, <4>3
      <3>3. CASE StartUpdate(w)
        <4>1. PICK u \in Users, i \in Live, doc \in Docs \union {None},
                  lifecycle \in Asked \union {None} :
                 Start(w, [NoReq EXCEPT !.pc = "get", !.op = "update", !.user = u,
                                      !.part = i, !.doc = doc, !.lifecycle = lifecycle])
          BY <3>3 DEF StartUpdate
        <4> DEFINE r == [NoReq EXCEPT !.pc = "get", !.op = "update", !.user = u,
                               !.part = i, !.doc = doc, !.lifecycle = lifecycle]
        <4>2. r.pc \in {"owner", "get"} /\ r.writes = NoReq.writes
          BY NoReqFits DEF Requests
        <4>3. Start(w, r)
          BY <4>1
        <4> HIDE DEF r
        <4> QED
          BY <3>0, <4>2, <4>3
      <3>4. CASE StartDelete(w)
        <4>1. PICK u \in Users, i \in Live :
                 Start(w, [NoReq EXCEPT !.pc = "get", !.op = "delete", !.user = u, !.part = i])
          BY <3>4 DEF StartDelete
        <4> DEFINE r == [NoReq EXCEPT !.pc = "get", !.op = "delete", !.user = u, !.part = i]
        <4>2. r.pc \in {"owner", "get"} /\ r.writes = NoReq.writes
          BY NoReqFits DEF Requests
        <4>3. Start(w, r)
          BY <4>1
        <4> HIDE DEF r
        <4> QED
          BY <3>0, <4>2, <4>3
      <3> QED
        BY <1>2, <3>1, <3>2, <3>3, <3>4
    <2> QED
      BY <1>1, <2>1 DEF At
  <1>3. CASE CommitUpserts(w) \/ CommitUpdate(w) \/ CommitDelete(w) \/ Abort(w)
    <2>1. req'[w] = NoReq /\ ~At(w, "idle")
      BY <1>0, <1>3 DEF CommitUpserts, CommitUpdate, CommitDelete, Abort, Finish, At
    <2> QED
      BY <2>1, NoReqFits DEF At, Added, Written
  <1>4. CASE ResolveOwner(w) \/ CheckImport(w) \/ GetPart(w) \/ CheckAccess(w)
    <2>1. /\ req[w].pc \in {"owner", "import_quota", "get", "access"}
          /\ req'[w].writes = req[w].writes
          /\ req'[w].pc \in {"import_quota", "find", "access", "commit"}
          /\ req'[w].pc = "access" => GetPart(w)
          /\ req'[w].pc = "commit" => CheckAccess(w)
      <3>1. CASE ResolveOwner(w)
        BY <1>0, <3>1 DEF ResolveOwner, At, Requests
      <3>2. CASE CheckImport(w)
        BY <1>0, <3>2 DEF CheckImport, Go, At, Requests
      <3>3. CASE GetPart(w)
        BY <1>0, <3>3 DEF GetPart, At, Requests
      <3>4. CASE CheckAccess(w)
        BY <1>0, <3>4 DEF CheckAccess, At, Requests
      <3> QED
        BY <1>4, <3>1, <3>2, <3>3, <3>4
    <2> QED
      BY <2>1 DEF At, Added, Written
  <1>5. ASSUME NEW writes, NextLine(w, writes), req[w].op \in {"create", "import"}
        PROVE  /\ req'[w].writes = writes /\ req'[w].pc \in {"commit", "find"}
               /\ ~Edits(w)'
    BY <1>0, <1>5 DEF NextLine, Requests, Edits
  <1>6. CASE FindPart(w)
    <2> DEFINE line == Head(req[w].lines)
               writes == req[w].writes
    <2>1. req[w].pc = "find" /\ req[w].op \in {"create", "import"}
      BY <1>0, <1>6 DEF FindPart, At, Holds, InHand
    <2>2. ASSUME NEW i \in Added(w), NextLine(w, [writes EXCEPT ![i].doc = line.doc])
          PROVE  Added(w)' \subseteq Added(w) /\ req'[w].pc \in {"commit", "find"} /\ ~Edits(w)'
      <3>1. \A j \in Ids \ {i} : req'[w].writes[j] = writes[j]
        BY <1>0, <1>5, <2>1, <2>2 DEF Requests
      <3> QED
        BY <1>5, <2>1, <2>2, <3>1 DEF Added, Written
    <2>3. ASSUME NEW i \in Live,
                 NextLine(w, [writes EXCEPT ![i] =
                     [name |-> line.name, doc |-> line.doc, new |-> FALSE]])
          PROVE  Added(w)' \subseteq Added(w) /\ req'[w].pc \in {"commit", "find"} /\ ~Edits(w)'
      <3>1. /\ \A j \in Ids \ {i} : req'[w].writes[j] = writes[j]
            /\ i \in Ids /\ ~req'[w].writes[i].new
        BY <1>0, <1>5, <2>1, <2>3 DEF Requests, Live
      <3> QED
        BY <1>5, <2>1, <2>3, <3>1 DEF Added, Written
    <2>4. ASSUME NextLine(w, writes)
          PROVE  Added(w)' \subseteq Added(w) /\ req'[w].pc \in {"commit", "find"} /\ ~Edits(w)'
      BY <1>5, <2>1, <2>4 DEF Added, Written
    <2>5. ASSUME Go(w, "quota")
          PROVE  Added(w)' \subseteq Added(w) /\ req'[w].pc = "quota"
      BY <1>0, <2>5 DEF Go, Requests, Added, Written
    <2>6. \/ \E i \in Added(w) : NextLine(w, [writes EXCEPT ![i].doc = line.doc])
          \/ \E i \in Live : NextLine(w, [writes EXCEPT ![i] =
                     [name |-> line.name, doc |-> line.doc, new |-> FALSE]])
          \/ NextLine(w, writes) \/ Go(w, "quota")
      BY <1>6 DEF FindPart, Named
    <2>7. /\ Added(w)' \subseteq Added(w) /\ req'[w].pc \in {"commit", "find", "quota"}
          /\ req'[w].pc = "commit" => ~Edits(w)'
      BY <2>2, <2>3, <2>4, <2>5, <2>6
    <2> QED
      BY <2>1, <2>7 DEF At
  <1>7. CASE AddPart(w)
    <2>1. req[w].pc = "quota" /\ req[w].op \in {"create", "import"}
      BY <1>0, <1>7 DEF AddPart, At, Holds, InHand
    <2>2. \E writes : NextLine(w, writes)
      BY <1>7 DEF AddPart
    <2>3. req'[w].pc \in {"commit", "find"} /\ ~Edits(w)'
      BY <1>5, <2>1, <2>2
    <2> QED
      BY <1>7, <2>1, <2>3 DEF At
  <1> QED
    BY <1>2, <1>3, <1>4, <1>6, <1>7 DEF Step

\* A step of one request leaves the others where they are.
LEMMA OthersWait ==
    ASSUME Inv, NEW w \in Workers, Step(w), NEW v \in Workers, v # w
    PROVE  req'[v] = req[v] /\ Added(v)' = Added(v)
  <1>1. req'[v] = req[v]
    BY StepMoves DEF Inv, UniqueNames, TypeOK
  <1> QED
    BY <1>1 DEF Added, Written

\* A row that is live was live or is one the commit has added.
LEMMA LiveAfter ==
    ASSUME Inv, Next
    PROVE  \/ Live' \subseteq Live
           \/ \E w \in Workers : CommitUpserts(w) /\ Live' \subseteq Live \union Added(w)
  <1>1. ASSUME NEW w \in Workers, CommitUpserts(w)
        PROVE  Live' \subseteq Live \union Added(w)
    BY <1>1, UpsertsLeave DEF Live, Keeps
  <1>2. ASSUME NEW i \in Ids, NEW new \in Rows, parts[i] # None, Keeps(i, new),
               parts' = [parts EXCEPT ![i] = new]
        PROVE  Live' \subseteq Live
    BY <1>2 DEF Live, Keeps, Inv, UniqueNames, TypeOK
  <1>3. CASE parts' = parts
    BY <1>3 DEF Live
  <1> QED
    BY <1>1, <1>2, <1>3, PartsAfter

\* At the commit of an edit, only the edit changes the table.
LEMMA PartsMoved ==
    ASSUME Inv, NEW w \in Workers, Step(w), At(w, "commit"), Edits(w), parts' # parts
    PROVE  CommitUpdate(w) \/ CommitDelete(w)
  <1>1. ASSUME StartCreate(w) \/ StartImport(w) \/ StartUpdate(w) \/ StartDelete(w)
        PROVE  At(w, "idle")
    BY <1>1 DEF StartCreate, StartImport, StartUpdate, StartDelete, Start, At
  <1>2. ~CommitUpserts(w) /\ ~Abort(w)
    BY DEF CommitUpserts, Abort, Edits
  <1>3. ~FindPart(w) /\ ~AddPart(w)
    BY DEF FindPart, AddPart, At
  <1> QED
    BY <1>1, <1>2, <1>3 DEF Step, ResolveOwner, CheckImport, GetPart, CheckAccess, At

LEMMA AddedKept ==
    ASSUME Inv, AloneInv, HistoryNext, NEW w \in Workers
    PROVE  At(w, "idle")' => Added(w)' = {}
  <1>1. CASE \E v \in Workers : Step(v)
    <2>1. PICK v \in Workers : Step(v)
      BY <1>1
    <2>2. CASE v = w
      BY <2>1, <2>2, StagesEntered
    <2>3. CASE v # w
      BY <2>1, <2>3, OthersWait DEF AloneInv, At
    <2> QED
      BY <2>2, <2>3
  <1>2. CASE ~\E v \in Workers : Step(v)
    <2>1. req' = req
      BY <1>2 DEF HistoryNext, Next, SetRole, DeleteOrg
    <2> QED
      BY <2>1 DEF AloneInv, At, Added, Written
  <1> QED
    BY <1>1, <1>2

LEMMA FewerFit ==
    ASSUME NEW S, NEW T, IsFiniteSet(T), S \subseteq T, NEW n \in Nat, Cardinality(T) <= n
    PROVE  Cardinality(S) <= n
  <1>1. /\ IsFiniteSet(S) /\ Cardinality(S) <= Cardinality(T)
        /\ Cardinality(S) \in Nat /\ Cardinality(T) \in Nat
    BY FS_Subset, FS_CardinalityType
  <1> QED
    BY <1>1

\* One request at a time that adds parts keeps them, with those there are, within
\* the limit.
LEMMA QuotaKept ==
    ASSUME Inv, AloneInv, HistoryNext, alone'
    PROVE  /\ Cardinality(Live') <= MaxParts
           /\ \A w \in Workers : Cardinality(Live' \union Added(w)') <= MaxParts
  <1>0. /\ Next /\ alone /\ MaxParts \in Nat
        /\ IsFiniteSet(Live) /\ \A w \in Workers : IsFiniteSet(Live \union Added(w))
    BY SetsAssumption, NumbersAssumption, FS_Subset DEF HistoryNext, Live, Added, Written
  <1>1. ASSUME NEW w \in Workers, AddPart(w) PROVE
              /\ Live' = Live
              /\ Cardinality(Live \union Added(w)') <= MaxParts
    <2>1. parts' = parts
      BY <1>1 DEF AddPart, NextLine
    <2>2. \/ Added(w)' = Added(w)
          \/ \E i \in Ids : Fits(w, 1) /\ Added(w)' \subseteq Added(w) \union {i}
      <3>0. /\ req \in [Workers -> Requests] /\ req[w] \in Requests
            /\ req[w].writes \in [Ids -> Writes \union {None}]
        BY RequestTyped DEF Inv, UniqueNames, TypeOK, Requests
      <3>1. ASSUME NEW writes, NextLine(w, writes) PROVE req'[w].writes = writes
        BY <3>0, <3>1 DEF NextLine, Requests
      <3>2. CASE NextLine(w, req[w].writes)
        BY <3>1, <3>2 DEF Added, Written
      <3>3. ASSUME NEW i \in Ids, NEW write, Fits(w, 1),
                   NextLine(w, [req[w].writes EXCEPT ![i] = write])
            PROVE  Added(w)' \subseteq Added(w) \union {i}
        <4>1. \A j \in Ids \ {i} : req'[w].writes[j] = req[w].writes[j]
          BY <3>0, <3>1, <3>3
        <4> QED
          BY <4>1 DEF Added, Written
      <3> QED
        BY <1>1, <3>2, <3>3 DEF AddPart
    <2>3. CASE Added(w)' = Added(w)
      BY <1>0, <2>1, <2>3 DEF AloneInv, Live
    <2>4. ASSUME NEW i \in Ids, Fits(w, 1), Added(w)' \subseteq Added(w) \union {i}
          PROVE  Cardinality(Live \union Added(w)') <= MaxParts
      <3> DEFINE S == Live \union Added(w)
      <3>1. Live \union Added(w)' \subseteq S \union {i}
        BY <2>4
      <3>2. IsFiniteSet(S) /\ Cardinality(S) + 1 <= MaxParts /\ Cardinality(S) \in Nat
        BY <1>0, <2>4, FS_CardinalityType DEF Fits
      <3> HIDE DEF S
      <3>3. IsFiniteSet(S \union {i}) /\ Cardinality(S \union {i}) <= MaxParts
        <4>1. /\ IsFiniteSet(S \union {i})
              /\ \/ Cardinality(S \union {i}) = Cardinality(S)
                 \/ Cardinality(S \union {i}) = Cardinality(S) + 1
          BY <3>2, FS_AddElement, Zenon
        <4> QED
          BY <1>0, <3>2, <4>1
      <3> QED
        BY <1>0, <3>1, <3>3, FewerFit
    <2> QED
      BY <2>1, <2>2, <2>3, <2>4 DEF Live
  <1>2. CASE \E w \in Workers : Step(w)
    <2>1. PICK w \in Workers : Step(w)
      BY <1>2
    <2>2. \A v \in Workers \ {w} : Added(v)' = {}
      <3> SUFFICES ASSUME NEW v \in Workers \ {w} PROVE Added(v)' = {}
        OBVIOUS
      <3>1. Added(v)' = Added(v) /\ req'[v] = req[v]
        BY <2>1, OthersWait
      <3>2. CASE At(v, "idle")
        BY <3>1, <3>2 DEF AloneInv
      <3>3. CASE ~At(v, "idle")
        <4>1. v \in Busy /\ v \in Busy' /\ (w \in Busy \/ w \in Busy')
          BY <2>1, <3>1, <3>3, StagesEntered DEF Busy, At
        <4> QED
          BY <1>0, <4>1, OneIsBusy DEF AloneInv
      <3> QED
        BY <3>2, <3>3
    <2>3. Cardinality(Live' \union Added(w)') <= MaxParts
      <3>1. CASE AddPart(w)
        BY <1>1, <3>1
      <3>2. CASE ~AddPart(w)
        <4>1. Added(w)' \subseteq Added(w)
          BY <2>1, <3>2, StagesEntered
        <4>2. Live' \subseteq Live \union Added(w)
          <5>1. ASSUME NEW v \in Workers, CommitUpserts(v) PROVE v = w
            <6>1. Step(v) /\ v \in Busy
              BY <5>1 DEF Step, CommitUpserts, At, Busy
            <6>2. req'[v] = NoReq /\ req[v] # NoReq
              BY <5>1, NoReqFits DEF CommitUpserts, Finish, At, Inv, UniqueNames, TypeOK
            <6> QED
              BY <2>1, <6>2, OthersWait
          <5> QED
            BY <1>0, <5>1, LiveAfter
        <4>3. Live' \union Added(w)' \subseteq Live \union Added(w)
          BY <4>1, <4>2
        <4> QED
          BY <1>0, <4>3, FewerFit DEF AloneInv
      <3> QED
        BY <3>1, <3>2
    <2>4. IsFiniteSet(Live' \union Added(w)')
      BY SetsAssumption, FS_Subset DEF Live, Added, Written
    <2>5. Cardinality(Live') <= MaxParts
      BY <1>0, <2>3, <2>4, FewerFit
    <2>6. \A v \in Workers \ {w} : Live' \union Added(v)' = Live'
      BY <2>2
    <2> QED
      BY <2>3, <2>5, <2>6
  <1>3. CASE ~\E w \in Workers : Step(w)
    <2>1. req' = req /\ parts' = parts
      BY <1>0, <1>3 DEF Next, SetRole, DeleteOrg
    <2>2. Live' = Live /\ \A w \in Workers : Added(w)' = Added(w)
      BY <2>1 DEF Live, Added, Written
    <2> QED
      BY <1>0, <2>2 DEF AloneInv
  <1> QED
    BY <1>2, <1>3

\* Nothing comes between what a request that edits a part has read and its commit.
LEMMA StillLoadedKept ==
    ASSUME Inv, AloneInv, HistoryNext, alone', NEW w \in Workers
    PROVE  StillLoaded(w)'
  <1>0. /\ Next /\ alone /\ TypeOK /\ req \in [Workers -> Requests] /\ req[w] \in Requests
        /\ StillLoaded(w)
    BY RequestTyped DEF HistoryNext, Inv, UniqueNames, TypeOK, AloneInv
  <1>1. CASE At(w, "idle")'
    BY <1>1 DEF StillLoaded, At
  <1>2. ASSUME ~At(w, "idle")', NEW v \in Workers, Step(v), v # w PROVE FALSE
    <2>1. w \in Busy /\ w \in Busy' /\ (v \in Busy \/ v \in Busy')
      BY <1>2, OthersWait, StagesEntered DEF Busy, At
    <2> QED
      BY <1>0, <1>2, <2>1, OneIsBusy DEF AloneInv
  <1>3. CASE Step(w)
    <2>1. CASE GetPart(w)
      <3>1. /\ req'[w].row = parts[req[w].part] /\ req'[w].part = req[w].part
            /\ parts' = parts /\ req'[w].pc = "access"
        BY <1>0, <2>1 DEF GetPart, Requests
      <3> QED
        BY <3>1 DEF StillLoaded, At
    <2>2. CASE CheckAccess(w)
      <3>1. /\ req'[w].row = req[w].row /\ req'[w].part = req[w].part
            /\ req'[w].lifecycle = req[w].lifecycle /\ req'[w].op = req[w].op
            /\ req'[w].doc = req[w].doc /\ req'[w].role = role[req[w].user]
            /\ parts' = parts /\ req[w].pc = "access" /\ req'[w].pc = "commit"
        BY <1>0, <2>2 DEF CheckAccess, At, Requests
      <3>2. NeedsLibrarian(w)' <=> NeedsLibrarian(w)
        BY <3>1 DEF NeedsLibrarian
      <3>3. NeedsLibrarian(w) => AtLeast(role[req[w].user], "librarian")
        BY <2>2 DEF CheckAccess
      <3>4. NeedsLibrarian(w)' => AtLeast(req[w].role, "librarian")'
        BY <3>1, <3>2, <3>3 DEF AtLeast
      <3> QED
        BY <1>0, <3>1, <3>4 DEF StillLoaded, At
    <2>3. CASE ~GetPart(w) /\ ~CheckAccess(w)
      BY <1>3, <2>3, StagesEntered DEF StillLoaded
    <2> QED
      BY <2>1, <2>2, <2>3
  <1>4. CASE ~\E v \in Workers : Step(v)
    <2>1. req' = req /\ parts' = parts
      BY <1>0, <1>4 DEF Next, SetRole, DeleteOrg
    <2> QED
      BY <1>0, <2>1 DEF StillLoaded, At, Edits, NeedsLibrarian, AtLeast
  <1> QED
    BY <1>1, <1>2, <1>3, <1>4

LEMMA AloneInvNext ==
    ASSUME Inv, AloneInv, [HistoryNext]_HistoryVars
    PROVE  AloneInv'
  <1>1. CASE UNCHANGED HistoryVars
    BY <1>1 DEF HistoryVars, vars, AloneInv, Busy, StillLoaded, At, Edits, NeedsLibrarian,
                AtLeast, Live, Added, Written
  <1>2. CASE HistoryNext
    <2>1. ASSUME alone' PROVE \A v, w \in Busy' : v = w
      BY <1>2, <2>1, OneIsBusy
    <2>2. ASSUME alone' PROVE \A w \in Workers : StillLoaded(w)'
      BY <1>2, <2>2, StillLoadedKept
    <2>3. \A w \in Workers : At(w, "idle")' => Added(w)' = {}
      BY <1>2, AddedKept
    <2> QED
      BY <1>2, <2>1, <2>2, <2>3, QuotaKept DEF AloneInv
  <1> QED
    BY <1>1, <1>2

LEMMA AloneInvInit == ASSUME HistoryInit PROVE Inv /\ AloneInv
  <1>1. Inv /\ Live = {} /\ \A w \in Workers : At(w, "idle") /\ Added(w) = {}
    BY InvInit, NoReqFits DEF HistoryInit, Init, Live, At, Added, Written
  <1>2. Cardinality({}) <= MaxParts
    BY NumbersAssumption, FS_EmptySet
  <1>3. \A w \in Workers : Live \union Added(w) = {}
    BY <1>1
  <1> QED
    BY <1>1, <1>2, <1>3 DEF AloneInv, Busy, StillLoaded, At

LEMMA HistoryInvariance == HistorySpec => [](Inv /\ AloneInv)
  <1>1. [HistoryNext]_HistoryVars => [Next]_vars
    BY DEF HistoryNext, HistoryVars
  <1> QED
    BY <1>1, AloneInvInit, AloneInvNext, InvNext, PTL DEF HistorySpec

\* As long as requests came one at a time, there are no more parts than the limit
\* allows, whatever they import.
THEOREM QuotaRespectedHolds == HistorySpec => []QuotaRespected
  <1>1. AloneInv => QuotaRespected
    BY DEF AloneInv, QuotaRespected
  <1> QED
    BY <1>1, HistoryInvariance, PTL

\* As long as requests came one at a time, only who was let through as a librarian
\* or above patches or deletes an approved part, or approves one by a patch; a post
\* or an import over an approved part is another matter.
THEOREM EditsByLibrarianHolds == HistorySpec => EditsByLibrarian
  <1>1. ASSUME Inv, AloneInv, [HistoryNext]_HistoryVars
        PROVE  [alone' => \A w \in Workers, i \in Ids :
                   At(w, "commit") /\ req[w].op \in {"update", "delete"} /\ req'[w] = NoReq
                       /\ Touches(i) => AtLeast(req[w].role, "librarian")]_HistoryVars
    <2> SUFFICES ASSUME HistoryNext, alone', NEW w \in Workers, NEW i \in Ids,
                        At(w, "commit"), Edits(w), req'[w] = NoReq, Touches(i)
                 PROVE  AtLeast(req[w].role, "librarian")
      BY <1>1 DEF Edits
    <2> DEFINE part == req[w].part
    <2>0. /\ Next /\ alone /\ StillLoaded(w) /\ parts[part] = req[w].row
          /\ part \in Ids /\ parts[part] \in Rows /\ parts \in [Ids -> Rows \union {None}]
      BY <1>1 DEF HistoryNext, AloneInv, StillLoaded, Edits, At, Inv, UniqueNames, TypeOK,
                  Holds, InHand
    <2>1. req'[w] # req[w]
      BY NoReqFits DEF At
    <2>2. Step(w)
      BY <1>1, <2>0, <2>1, OthersWait DEF Next, SetRole, DeleteOrg
    <2>3. CommitUpdate(w) \/ CommitDelete(w)
      <3>1. parts' # parts
        BY DEF Touches
      <3> QED
        BY <1>1, <2>2, <2>1, <3>1, PartsMoved DEF At, Edits
    <2>4. NeedsLibrarian(w)
      <3>1. CASE CommitDelete(w)
        <4>1. /\ i = part /\ parts'[i].lifecycle = parts[i].lifecycle
          BY <2>0, <3>1 DEF CommitDelete, Touches, Rows
        <4> QED
          BY <2>0, <3>1, <4>1 DEF NeedsLibrarian, Touches, CommitDelete
      <3>2. CASE CommitUpdate(w)
        <4> SUFFICES ASSUME req[w].lifecycle = None PROVE NeedsLibrarian(w)
          BY DEF NeedsLibrarian
        <4>1. /\ i = part /\ parts'[part] = Updated(w)
          BY <2>0, <3>2 DEF CommitUpdate, Touches
        <4>2. Updated(w).lifecycle = parts[part].lifecycle
          BY <2>0 DEF Updated, New, Rows
        <4>3. req[w].doc = None => Updated(w) = parts[part]
          BY <2>0 DEF Updated, New, Rows
        <4> QED
          BY <2>0, <4>1, <4>2, <4>3 DEF NeedsLibrarian, Touches
      <3> QED
        BY <2>3, <3>1, <3>2
    <2> QED
      BY <2>0, <2>4 DEF StillLoaded
  <1> QED
    BY <1>1, HistoryInvariance, PTL DEF HistorySpec, EditsByLibrarian
================================================================================
