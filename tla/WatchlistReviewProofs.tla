------------------------ MODULE WatchlistReviewProofs ------------------------
(***************************************************************************)
(* Proofs about WatchlistReview, for any number of requests, ids and days. *)
(***************************************************************************)
EXTENDS WatchlistReview, TLAPS

Saving == {"load", "write", "insert"}

\* The places each operation passes through.
Places(o) ==
    CASE o = "add" -> {"check", "find"} \cup Saving
      [] o = "change" -> {"pick", "check"} \cup Saving
      [] o = "remove" -> {"pick", "reviews", "cascade", "unlist", "seal"}
      [] o = "review" -> {"look", "plant", "peek", "find", "seal"} \cup Saving
      [] o = "edit" -> {"read", "unlike", "hold", "find", "seal"} \cup Saving
      [] o = "unreview" -> {"sight", "drop", "cascade", "seal"}
      [] OTHER -> {"idle"}

\* The entity of a request: its id is known unless the entry is new.
Entities == [id : EntryIds \cup {Nothing}, status : Statuses, day : Days \cup {Nothing}]

\* What a request carries at its place, whatever the others do.
CarriedAt(r) ==
    /\ pc[r] \in Places(op[r])
    /\ op[r] # "none" => given[r] \in Inputs /\ Sent(op[r], given[r])
    /\ pc[r] = "check" => given[r].status = "want_to_watch"
    /\ pc[r] \in Saving \/ (pc[r] = "check" /\ op[r] = "change") => entity[r] \in Entities
    /\ pc[r] = "load" \/ (pc[r] = "check" /\ op[r] = "change") => entity[r].id \in EntryIds
    /\ pc[r] \in {"unlike", "hold", "drop"} => seen[r] \in ReviewIds
    /\ mine[r] # Nothing =>
         pc[r] \in {"peek", "find", "load", "write", "insert", "cascade", "unlist", "seal"}
    /\ next[r] # Keep => pc[r] = "seal" /\ op[r] # "unreview"
    /\ shed[r] # Nothing =>
         pc[r] \in {"hold", "find", "load", "write", "insert", "unlist", "seal"}
    /\ pc[r] = "hold" => shed[r] \in {Nothing, seen[r]}
    /\ pc[r] = "cascade" \/ (op[r] = "unreview" /\ pc[r] = "seal") => mine[r] # Nothing
    /\ op[r] = "review" /\ pc[r] \notin {"look", "plant"} => mine[r] # Nothing
Carried == \A r \in Requests : CarriedAt(r)

\* One transaction at a time has locked the review, and a deletion the one there is.
Locked ==
    \A r \in Requests : mine[r] # Nothing =>
      /\ ReviewHolders = {r}
      /\ review \in {mine[r], Nothing}
      /\ op[r] \in {"remove", "unreview"} => review = mine[r]

\* A request that is underway, and that no change of somebody else overlaps.
Alone(r) == op[r] # "none" /\ pc[r] # Start(op[r], given[r]) /\ r \notin touched

Dated(row) == row.status = "watched" <=> row.day # Nothing

\* Such a request knows review and entry as they are.
Right(r) ==
    Alone(r) =>
      /\ pc[r] = "find" /\ given[r].status = "want_to_watch" => review = Nothing
      /\ pc[r] \in Saving =>
           Dated(entity[r]) /\ (entity[r].status = "want_to_watch" => review = Nothing)
      /\ pc[r] \in {"load", "write"} \/ (pc[r] = "check" /\ op[r] = "change") =>
           entry # Nothing /\ entity[r].id = entry.id /\ Dated(entity[r])
      /\ pc[r] = "write" => dirty[r] = {c \in Columns : entity[r][c] # entry[c]}
      /\ pc[r] = "insert" => entry = Nothing
      /\ op[r] = "review" => review = Nothing
      /\ op[r] = "edit" => review # Nothing /\ seen[r] = review /\ mine[r] \in {Nothing, review}
      /\ op[r] \in {"review", "edit"} /\ pc[r] \in Saving => entity[r].status = "watched"
      /\ op[r] \in {"review", "edit"} /\ pc[r] = "seal" =>
           IF next[r] = Keep THEN entry # Nothing /\ entry.status = "watched"
           ELSE next[r] \in Entries /\ next[r].status = "watched" /\ next[r].day # Nothing
      /\ op[r] = "remove" => entry # Nothing /\ entity[r] = entry
      /\ op[r] = "remove" /\ pc[r] \in {"cascade", "unlist", "seal"} => mine[r] = review
      /\ op[r] = "remove" /\ pc[r] = "seal" => next[r] = Nothing

Rightly == ~crossed => Agree /\ \A r \in Requests : Right(r)

IInv == TypeOK /\ Carried /\ Locked /\ Rightly

-----------------------------------------------------------------------------
(* Types, and what one step does to the others.                            *)

\* A step of r changes what r carries, and nothing that the others carry.
Moves(r) ==
    /\ pc' = [pc EXCEPT ![r] = pc'[r]] /\ pc'[r] \in Labels
    /\ op' = [op EXCEPT ![r] = op'[r]] /\ op'[r] \in Ops \cup {"none"}
    /\ given' = [given EXCEPT ![r] = given'[r]] /\ given'[r] \in Inputs \cup {Nothing}
    /\ seen' = [seen EXCEPT ![r] = seen'[r]] /\ seen'[r] \in ReviewIds \cup {Nothing}
    /\ entity' = [entity EXCEPT ![r] = entity'[r]]
    /\ entity'[r] \in Entities \cup {Nothing}
    /\ dirty' = [dirty EXCEPT ![r] = dirty'[r]] /\ dirty'[r] \in SUBSET Columns
    /\ mine' = [mine EXCEPT ![r] = mine'[r]] /\ mine'[r] \in ReviewIds \cup {Nothing}
    /\ next' = [next EXCEPT ![r] = next'[r]] /\ next'[r] \in Entries \cup {Nothing, Keep}
    /\ shed' = [shed EXCEPT ![r] = shed'[r]] /\ shed'[r] \in ReviewIds \cup {Nothing}

DataTypes ==
    /\ review \in ReviewIds \cup {Nothing} /\ entry \in Entries \cup {Nothing}
    /\ touched \subseteq Requests /\ crossed \in BOOLEAN

\* The others carry what they carried.
Frame(r) ==
    \A q \in Requests \ {r} :
      /\ pc'[q] = pc[q] /\ op'[q] = op[q] /\ given'[q] = given[q] /\ seen'[q] = seen[q]
      /\ entity'[q] = entity[q] /\ dirty'[q] = dirty[q]
      /\ mine'[q] = mine[q] /\ next'[q] = next[q] /\ shed'[q] = shed[q]

\* A step of one request keeps the types.
LEMMA MovesTypes ==
    ASSUME TypeOK, NEW r \in Requests, Moves(r), DataTypes'
    PROVE  TypeOK' /\ Frame(r)
<1>2. /\ pc' \in [Requests -> Labels] /\ op' \in [Requests -> Ops \cup {"none"}]
      /\ given' \in [Requests -> Inputs \cup {Nothing}]
      /\ seen' \in [Requests -> ReviewIds \cup {Nothing}]
      /\ entity' \in [Requests -> Entities \cup {Nothing}]
      /\ dirty' \in [Requests -> SUBSET Columns]
      /\ mine' \in [Requests -> ReviewIds \cup {Nothing}]
      /\ next' \in [Requests -> Entries \cup {Nothing, Keep}]
      /\ shed' \in [Requests -> ReviewIds \cup {Nothing}]
  BY DEF TypeOK, Entities, Moves
<1>3. TypeOK'
  BY <1>2 DEF TypeOK, DataTypes, Entities
<1>4. Frame(r)
  BY DEF TypeOK, Frame, Moves
<1> QED BY <1>3, <1>4

\* What r carries, as functions that change nothing.
LEMMA Same ==
    ASSUME TypeOK, NEW r \in Requests
    PROVE  /\ pc[r] \in Labels /\ pc = [pc EXCEPT ![r] = pc[r]]
           /\ op[r] \in Ops \cup {"none"} /\ op = [op EXCEPT ![r] = op[r]]
           /\ given[r] \in Inputs \cup {Nothing} /\ given = [given EXCEPT ![r] = given[r]]
           /\ seen[r] \in ReviewIds \cup {Nothing} /\ seen = [seen EXCEPT ![r] = seen[r]]
           /\ entity[r] \in Entities \cup {Nothing}
           /\ entity = [entity EXCEPT ![r] = entity[r]]
           /\ dirty[r] \in SUBSET Columns /\ dirty = [dirty EXCEPT ![r] = dirty[r]]
           /\ mine[r] \in ReviewIds \cup {Nothing} /\ mine = [mine EXCEPT ![r] = mine[r]]
           /\ next[r] \in Entries \cup {Nothing, Keep} /\ next = [next EXCEPT ![r] = next[r]]
           /\ shed[r] \in ReviewIds \cup {Nothing} /\ shed = [shed EXCEPT ![r] = shed[r]]
BY DEF TypeOK, Entities

\* A request that ends carries nothing.
LEMMA LeaveMoves ==
    ASSUME TypeOK, NEW r \in Requests, NEW v \in ReviewIds \cup {Nothing},
           NEW e \in Entries \cup {Nothing}, Leave(r, v, e)
    PROVE  /\ Moves(r) /\ DataTypes' /\ CarriedAt(r)'
           /\ pc'[r] = "idle" /\ op'[r] = "none"
<1>1. Moves(r)
  <2>1. pc' = [pc EXCEPT ![r] = pc'[r]] /\ pc'[r] \in Labels
    BY DEF Leave, End, Goto, TypeOK, Labels
  <2>2. op' = [op EXCEPT ![r] = op'[r]] /\ op'[r] \in Ops \cup {"none"}
    BY DEF Leave, End, TypeOK
  <2>3. given' = [given EXCEPT ![r] = given'[r]] /\ given'[r] \in Inputs \cup {Nothing}
    BY DEF Leave, End, TypeOK
  <2>4. seen' = [seen EXCEPT ![r] = seen'[r]] /\ seen'[r] \in ReviewIds \cup {Nothing}
    BY DEF Leave, End, TypeOK
  <2>5. entity' = [entity EXCEPT ![r] = entity'[r]] /\ entity'[r] \in Entities \cup {Nothing}
    BY DEF Leave, End, TypeOK
  <2>6. dirty' = [dirty EXCEPT ![r] = dirty'[r]] /\ dirty'[r] \in SUBSET Columns
    BY DEF Leave, End, TypeOK
  <2>7. mine' = [mine EXCEPT ![r] = mine'[r]] /\ mine'[r] \in ReviewIds \cup {Nothing}
    BY DEF Leave, End, TypeOK
  <2>8. next' = [next EXCEPT ![r] = next'[r]] /\ next'[r] \in Entries \cup {Nothing, Keep}
    BY DEF Leave, End, TypeOK
  <2>9. shed' = [shed EXCEPT ![r] = shed'[r]] /\ shed'[r] \in ReviewIds \cup {Nothing}
    BY DEF Leave, End, TypeOK
  <2> QED BY <2>1, <2>2, <2>3, <2>4, <2>5, <2>6, <2>7, <2>8, <2>9 DEF Moves
<1>2. DataTypes'
  BY Zenon DEF Leave, DataTypes, TypeOK, Underway
<1>3. /\ pc'[r] = "idle" /\ op'[r] = "none" /\ mine'[r] = Nothing /\ next'[r] = Keep
      /\ shed'[r] = Nothing
  BY DEF Leave, End, Goto, TypeOK
<1>4. CarriedAt(r)'
  BY <1>3 DEF CarriedAt, Places, Saving
<1> QED BY <1>1, <1>2, <1>3, <1>4

\* ... also when it leaves nothing behind.
LEMMA DropMoves ==
    ASSUME TypeOK, NEW r \in Requests, Drop(r)
    PROVE  /\ Moves(r) /\ DataTypes' /\ CarriedAt(r)'
           /\ pc'[r] = "idle" /\ op'[r] = "none"
BY LeaveMoves DEF Drop, TypeOK

\* A request that only moves on.
LEMMA OnlyMoves ==
    ASSUME TypeOK, NEW r \in Requests, NEW l \in Labels, Only(r, l)
    PROVE  /\ Moves(r) /\ DataTypes'
           /\ pc'[r] = l /\ UNCHANGED <<data, carried, history>>
<1> USE DEF data, carried, history
<1>3. pc' = [pc EXCEPT ![r] = pc'[r]] /\ pc'[r] \in Labels
  BY DEF Only, Goto, TypeOK
<1>4. /\ op' = op /\ given' = given /\ seen' = seen /\ entity' = entity
      /\ dirty' = dirty /\ mine' = mine /\ next' = next /\ shed' = shed
  BY DEF Only
<1>1. Moves(r)
  BY <1>3, <1>4, Same DEF Moves
<1>2. DataTypes' /\ pc'[r] = l
  BY DEF Only, Goto, DataTypes, TypeOK
<1> QED BY <1>1, <1>2 DEF Only

\* A statement on the entry ends the request, or leaves it at its commit.
LEMMA PutMoves ==
    ASSUME TypeOK, NEW r \in Requests, CarriedAt(r), pc[r] \in Saving \cup {"unlist"},
           NEW e \in Entries \cup {Nothing, Keep}, Put(r, e)
    PROVE  Moves(r) /\ DataTypes' /\ CarriedAt(r)'
<1>1. CASE Transaction(r)
  <2>1. /\ next' = [next EXCEPT ![r] = e] /\ pc' = [pc EXCEPT ![r] = "seal"]
        /\ review' = review /\ entry' = entry /\ op' = op /\ given' = given
        /\ seen' = seen /\ entity' = entity /\ dirty' = dirty /\ mine' = mine /\ shed' = shed
        /\ touched' = touched /\ crossed' = crossed
    BY <1>1 DEF Put, After, Saving, Goto, data, history
  <2>2. /\ next' = [next EXCEPT ![r] = next'[r]] /\ next'[r] \in Entries \cup {Nothing, Keep}
        /\ pc' = [pc EXCEPT ![r] = pc'[r]] /\ pc'[r] \in Labels /\ pc'[r] = "seal"
    BY <2>1 DEF TypeOK, Labels
  <2>3. Moves(r)
    BY <2>1, <2>2, Same DEF Moves
  <2>4. DataTypes'
    BY <2>1 DEF DataTypes, TypeOK
  <2>5. CarriedAt(r)'
    BY <1>1, <2>1, <2>2 DEF CarriedAt, Places, Saving, Transaction
  <2> QED BY <2>3, <2>4, <2>5
<1>2. CASE ~Transaction(r)
  <2> DEFINE f == IF e = Keep THEN entry ELSE e
  <2>1. f \in Entries \cup {Nothing} /\ Leave(r, review, f)
    BY <1>2 DEF Put, TypeOK
  <2>2. review \in ReviewIds \cup {Nothing}
    BY DEF TypeOK
  <2> QED BY <2>1, <2>2, LeaveMoves
<1> QED BY <1>1, <1>2

\* Only its place and one more thing that it carries change.
LEMMA BeginMoves ==
    ASSUME TypeOK, NEW r \in Requests, CarriedAt(r), Begin(r)
    PROVE  Moves(r) /\ DataTypes' /\ CarriedAt(r)'
<1>1. PICK o \in Ops, i \in Inputs :
        /\ Sent(o, i) /\ op' = [op EXCEPT ![r] = o] /\ given' = [given EXCEPT ![r] = i]
        /\ pc' = [pc EXCEPT ![r] = Start(o, i)]
  BY DEF Begin, Goto
<1>2. /\ review' = review /\ entry' = entry /\ seen' = seen /\ entity' = entity
      /\ dirty' = dirty /\ mine' = mine /\ next' = next /\ shed' = shed
      /\ touched' = touched /\ crossed' = crossed /\ pc[r] = "idle"
  BY DEF Begin, data, history
<1>3. Start(o, i) \in Labels /\ Start(o, i) \in Places(o) /\ o # "none"
  BY DEF Ops, Start, Labels, Places, Saving
<1>4. /\ op'[r] = o /\ given'[r] = i /\ pc'[r] = Start(o, i)
      /\ op' = [op EXCEPT ![r] = op'[r]] /\ given' = [given EXCEPT ![r] = given'[r]]
      /\ pc' = [pc EXCEPT ![r] = pc'[r]]
  BY <1>1 DEF TypeOK
<1>5. Moves(r)
  BY <1>2, <1>3, <1>4, Same DEF Moves
<1>6. DataTypes'
  BY <1>2 DEF DataTypes, TypeOK
<1>7. mine[r] = Nothing /\ next[r] = Keep /\ shed[r] = Nothing
  BY <1>2 DEF CarriedAt
<1>8. /\ Start(o, i) \notin Saving \cup {"unlike", "hold", "drop", "cascade", "seal"}
      /\ Start(o, i) = "check" => o = "add" /\ i.status = "want_to_watch"
      /\ o = "review" => Start(o, i) = "look"
  BY DEF Ops, Start, Saving
<1>9. CarriedAt(r)'
  BY <1>1, <1>2, <1>3, <1>4, <1>7, <1>8 DEF CarriedAt, Saving
<1> QED BY <1>5, <1>6, <1>9

\* The dates of an entry, and what a change makes of one, fit its status.
LEMMA DaysFit ==
    ASSUME NEW i \in Inputs, i.status # Nothing, NEW d \in DaysOf(i)
    PROVE  d \in Days \cup {Nothing} /\ (i.status = "watched" <=> d # Nothing)
           /\ i.status \in Statuses
BY NothingAssumption DEF DaysOf, Inputs, Statuses

\* What a change makes of an entry fits as well.
LEMMA ChangesFit ==
    ASSUME NEW row \in Entries, NEW i \in Inputs, NEW e \in Changes(row, i)
    PROVE  /\ e \in Entries /\ e.id = row.id /\ (Dated(row) => Dated(e))
           /\ e.status # row.status => e.status = i.status
<1>1. CASE i.status # Nothing
  <2>1. PICK d \in DaysOf(i) : e = [id |-> row.id, status |-> i.status, day |-> d]
    BY <1>1 DEF Changes
  <2> QED BY <1>1, <2>1, DaysFit DEF Entries, Dated
<1>2. CASE i.status = Nothing /\ i.day # Nothing /\ row.status = "watched"
  <2>1. e = [row EXCEPT !.day = i.day]
    BY <1>2 DEF Changes
  <2> QED BY <1>2, <2>1 DEF Entries, Dated, Inputs
<1>3. CASE i.status = Nothing /\ ~(i.day # Nothing /\ row.status = "watched")
  BY <1>3 DEF Changes
<1> QED BY <1>1, <1>2, <1>3

\* Each step keeps what its request carries in order.
LEMMA CheckMoves ==
    ASSUME TypeOK, NEW r \in Requests, CarriedAt(r), Check(r)
    PROVE  Moves(r) /\ DataTypes' /\ CarriedAt(r)'
<1> DEFINE l == IF op[r] = "add" THEN "find" ELSE "load"
<1>1. CASE Drop(r)
  BY <1>1, DropMoves
<1>2. CASE Only(r, l)
  <2>1. Moves(r) /\ DataTypes' /\ pc'[r] = l /\ UNCHANGED <<data, carried, history>>
    BY <1>2, OnlyMoves DEF Labels
  <2>2. op[r] \in {"add", "change"} /\ pc[r] = "check"
    BY DEF Check, CarriedAt, Places, Saving
  <2>3. mine[r] = Nothing /\ next[r] = Keep /\ shed[r] = Nothing
    BY <2>2 DEF CarriedAt
  <2>4. CarriedAt(r)'
    BY <2>1, <2>2, <2>3 DEF CarriedAt, Places, Saving, carried
  <2> QED BY <2>1, <2>4
<1> QED BY <1>1, <1>2 DEF Check

\* Looking for the entry.
LEMMA FindMoves ==
    ASSUME TypeOK, NEW r \in Requests, CarriedAt(r), Find(r)
    PROVE  Moves(r) /\ DataTypes' /\ CarriedAt(r)'
<1>1. PICK d \in DaysOf(given[r]) :
        entity' = [entity EXCEPT ![r] =
           [id |-> IF entry = Nothing THEN Nothing ELSE entry.id,
            status |-> given[r].status, day |-> d]]
  BY DEF Find
<1>2. /\ pc' = [pc EXCEPT ![r] = IF entry = Nothing THEN "insert" ELSE "load"]
      /\ pc[r] = "find" /\ review' = review /\ entry' = entry /\ op' = op /\ given' = given
      /\ seen' = seen /\ dirty' = dirty /\ mine' = mine /\ next' = next /\ shed' = shed
      /\ touched' = touched /\ crossed' = crossed
  BY DEF Find, Goto, data, history
<1>3. op[r] \in {"add", "review", "edit"} /\ given[r] \in Inputs /\ given[r].status # Nothing
  <2>1. op[r] \in {"add", "review", "edit"}
    BY <1>2 DEF CarriedAt, Places, Saving, TypeOK, Ops
  <2>2. given[r] \in Inputs /\ Sent(op[r], given[r])
    BY <2>1 DEF CarriedAt
  <2> QED BY <2>1, <2>2, NothingAssumption DEF Sent, Statuses
<1>4. entity'[r] \in Entities /\ (entry # Nothing => entity'[r].id \in EntryIds)
  BY <1>1, <1>3, DaysFit DEF TypeOK, Entities, Entries
<1>5. pc'[r] \in Labels /\ pc'[r] = IF entry = Nothing THEN "insert" ELSE "load"
  BY <1>2 DEF TypeOK, Labels
<1>6. /\ entity' = [entity EXCEPT ![r] = entity'[r]] /\ pc' = [pc EXCEPT ![r] = pc'[r]]
  BY <1>1, <1>2 DEF TypeOK
<1>7. Moves(r)
  BY <1>2, <1>4, <1>5, <1>6, Same DEF Moves
<1>8. CarriedAt(r)'
  BY <1>2, <1>3, <1>4, <1>5 DEF CarriedAt, Places, Saving
<1>9. DataTypes'
  BY <1>2 DEF DataTypes, TypeOK
<1> QED BY <1>7, <1>8, <1>9

\* Reading the entry that is named.
LEMMA PickMoves ==
    ASSUME TypeOK, NEW r \in Requests, CarriedAt(r), Pick(r)
    PROVE  Moves(r) /\ DataTypes' /\ CarriedAt(r)'
<1>1. CASE Drop(r)
  BY <1>1, DropMoves
<1>2. CASE ~Drop(r)
  <2> DEFINE l == IF op[r] = "remove" THEN "reviews"
                  ELSE IF given[r].status = "want_to_watch" THEN "check" ELSE "load"
  <2>1. entry # Nothing /\ pc[r] = "pick" /\ UNCHANGED <<data, op, given, seen, dirty, mine, next, shed, history>>
        /\ pc' = [pc EXCEPT ![r] = l]
    BY <1>2 DEF Pick, Goto, After
  <2>2. PICK e \in (IF op[r] = "remove" THEN {entry} ELSE Changes(entry, given[r])) :
          entity' = [entity EXCEPT ![r] = e]
    BY <1>2 DEF Pick
  <2>3. op[r] \in {"change", "remove"} /\ given[r] \in Inputs /\ entry \in Entries
    BY <2>1 DEF CarriedAt, Places, Saving, TypeOK
  <2>4. e \in Entries
    <3>1. CASE op[r] = "remove"
      BY <2>2, <2>3, <3>1
    <3>2. CASE op[r] # "remove"
      <4>1. e \in Changes(entry, given[r])
        BY <2>2, <3>2
      <4> QED BY <2>3, <4>1, ChangesFit
    <3> QED BY <3>1, <3>2
  <2>5. /\ pc'[r] = l /\ pc'[r] \in Labels /\ entity'[r] = e /\ entity'[r] \in Entities
        /\ entity'[r].id \in EntryIds
        /\ entity' = [entity EXCEPT ![r] = entity'[r]] /\ pc' = [pc EXCEPT ![r] = pc'[r]]
    BY <2>1, <2>2, <2>4 DEF TypeOK, Labels, Entries, Entities
  <2>6. Moves(r)
    BY <2>1, <2>5, Same DEF Moves
  <2>7. DataTypes'
    BY <2>1 DEF DataTypes, TypeOK, data, history
  <2>8. mine[r] = Nothing /\ next[r] = Keep /\ shed[r] = Nothing
    BY <2>1 DEF CarriedAt
  <2>9. CarriedAt(r)'
    BY <2>1, <2>3, <2>5, <2>8 DEF CarriedAt, Places, Saving
  <2> QED BY <2>6, <2>7, <2>9
<1> QED BY <1>1, <1>2

\* The SELECT of a save.
LEMMA LoadMoves ==
    ASSUME TypeOK, NEW r \in Requests, CarriedAt(r), Load(r)
    PROVE  Moves(r) /\ DataTypes' /\ CarriedAt(r)'
<1> DEFINE differs == {c \in Columns : entity[r][c] # entry[c]}
<1>0. pc[r] = "load"
  BY DEF Load
<1>1. CASE Only(r, "insert")
  <2>1. Moves(r) /\ DataTypes' /\ pc'[r] = "insert" /\ UNCHANGED <<data, carried, history>>
    BY <1>1, OnlyMoves DEF Labels
  <2>2. CarriedAt(r)'
    BY <1>0, <2>1 DEF CarriedAt, Places, Saving, carried
  <2> QED BY <2>1, <2>2
<1>2. CASE Put(r, Keep)
  BY <1>0, <1>2, PutMoves DEF Saving
<1>3. CASE /\ dirty' = [dirty EXCEPT ![r] = differs] /\ Goto(r, "write")
           /\ UNCHANGED <<data, op, given, seen, entity, mine, next, shed, history>>
  <2>1. dirty' = [dirty EXCEPT ![r] = dirty'[r]] /\ dirty'[r] \in SUBSET Columns
    BY <1>3 DEF TypeOK
  <2>2. pc' = [pc EXCEPT ![r] = pc'[r]] /\ pc'[r] \in Labels /\ pc'[r] = "write"
    BY <1>3 DEF TypeOK, Labels, Goto
  <2>3. Moves(r)
    BY <1>3, <2>1, <2>2, Same DEF Moves
  <2>4. DataTypes'
    BY <1>3 DEF DataTypes, TypeOK, data, history
  <2>5. CarriedAt(r)'
    BY <1>0, <1>3, <2>2 DEF CarriedAt, Places, Saving
  <2> QED BY <2>3, <2>4, <2>5
<1> QED BY <1>1, <1>2, <1>3 DEF Load

\* The UPDATE of a save.
LEMMA WriteMoves ==
    ASSUME TypeOK, NEW r \in Requests, CarriedAt(r), Write(r)
    PROVE  Moves(r) /\ DataTypes' /\ CarriedAt(r)'
<1> DEFINE e == IF entry = Nothing \/ entry.id # entity[r].id THEN Keep ELSE Merged(r)
<1>1. pc[r] = "write" /\ Put(r, e)
  BY DEF Write
<1>2. entry # Nothing => Merged(r) \in Entries
  BY <1>1 DEF CarriedAt, Saving, TypeOK, Merged, Entries, Entities
<1> QED BY <1>1, <1>2, PutMoves DEF Saving

\* The INSERT of a save.
LEMMA InsertMoves ==
    ASSUME TypeOK, NEW r \in Requests, CarriedAt(r), Insert(r)
    PROVE  Moves(r) /\ DataTypes' /\ CarriedAt(r)'
<1>1. CASE Drop(r)
  BY <1>1, DropMoves
<1>2. CASE ~Drop(r)
  <2>1. PICK i \in IF entity[r].id = Nothing THEN FreshEntry ELSE {entity[r].id} :
          Put(r, [entity[r] EXCEPT !.id = i])
    BY <1>2 DEF Insert
  <2>2. pc[r] = "insert" /\ entity[r] \in Entities
    BY DEF Insert, CarriedAt, Saving
  <2>3. i \in EntryIds
    BY <2>1, <2>2 DEF FreshEntry, Entities
  <2>4. [entity[r] EXCEPT !.id = i] \in Entries
    BY <2>2, <2>3 DEF Entities, Entries
  <2> QED BY <2>1, <2>2, <2>4, PutMoves DEF Saving
<1> QED BY <1>1, <1>2

\* A removal deletes the reviews.
LEMMA RemoveReviewsMoves ==
    ASSUME TypeOK, NEW r \in Requests, CarriedAt(r), RemoveReviews(r)
    PROVE  Moves(r) /\ DataTypes' /\ CarriedAt(r)'
<1> DEFINE l == IF review = Nothing THEN "unlist" ELSE "cascade"
<1>1. /\ pc[r] = "reviews" /\ pc' = [pc EXCEPT ![r] = l]
      /\ mine' = [mine EXCEPT ![r] = review]
      /\ UNCHANGED <<data, op, given, seen, entity, dirty, next, shed, history>>
  BY DEF RemoveReviews, Goto, After
<1>2. /\ mine' = [mine EXCEPT ![r] = mine'[r]] /\ mine'[r] \in ReviewIds \cup {Nothing}
      /\ pc' = [pc EXCEPT ![r] = pc'[r]] /\ pc'[r] \in Labels /\ pc'[r] = l
      /\ mine'[r] = review
  BY <1>1 DEF TypeOK, Labels
<1>3. op[r] = "remove"
  BY <1>1 DEF CarriedAt, Places, Saving
<1>4. Moves(r)
  BY <1>1, <1>2, Same DEF Moves
<1>5. DataTypes'
  BY <1>1 DEF DataTypes, TypeOK, data, history
<1>6. CarriedAt(r)'
  BY <1>1, <1>2, <1>3 DEF CarriedAt, Places, Saving
<1> QED BY <1>4, <1>5, <1>6

\* ... with their likes,
LEMMA CascadeMoves ==
    ASSUME TypeOK, NEW r \in Requests, CarriedAt(r), Cascade(r)
    PROVE  Moves(r) /\ DataTypes' /\ CarriedAt(r)'
<1> DEFINE l == IF op[r] = "remove" THEN "unlist" ELSE "seal"
<1>1. /\ pc[r] = "cascade" /\ pc' = [pc EXCEPT ![r] = l]
      /\ UNCHANGED <<data, op, given, seen, entity, dirty, mine, next, history>>
  BY DEF Cascade, Goto, After
<1>2. PICK v \in {Nothing, mine[r]} : shed' = [shed EXCEPT ![r] = v]
  BY DEF Cascade
<1>3. /\ shed' = [shed EXCEPT ![r] = shed'[r]] /\ shed'[r] \in ReviewIds \cup {Nothing}
      /\ pc' = [pc EXCEPT ![r] = pc'[r]] /\ pc'[r] \in Labels /\ pc'[r] = l
  BY <1>1, <1>2 DEF TypeOK, Labels
<1>4. op[r] \in {"remove", "unreview"}
  BY <1>1 DEF CarriedAt, Places, Saving, TypeOK, Ops
<1>5. Moves(r)
  BY <1>1, <1>3, Same DEF Moves
<1>6. DataTypes'
  BY <1>1 DEF DataTypes, TypeOK, data, history
<1>7. CarriedAt(r)'
  BY <1>1, <1>3, <1>4 DEF CarriedAt, Places, Saving
<1> QED BY <1>5, <1>6, <1>7

\* ... and the entry.
LEMMA UnlistMoves ==
    ASSUME TypeOK, NEW r \in Requests, CarriedAt(r), Unlist(r)
    PROVE  Moves(r) /\ DataTypes' /\ CarriedAt(r)'
BY PutMoves DEF Unlist

\* A new review looks for an old one.
LEMMA LookMoves ==
    ASSUME TypeOK, NEW r \in Requests, CarriedAt(r), Look(r)
    PROVE  Moves(r) /\ DataTypes' /\ CarriedAt(r)'
<1>1. CASE Drop(r)
  BY <1>1, DropMoves
<1>2. CASE Only(r, "plant")
  <2>1. Moves(r) /\ DataTypes' /\ pc'[r] = "plant" /\ UNCHANGED <<data, carried, history>>
    BY <1>2, OnlyMoves DEF Labels
  <2>2. pc[r] = "look"
    BY DEF Look
  <2>3. CarriedAt(r)'
    BY <2>1, <2>2 DEF CarriedAt, Places, Saving, carried
  <2> QED BY <2>1, <2>3
<1> QED BY <1>1, <1>2 DEF Look

\* Inserting the review.
LEMMA PlantMoves ==
    ASSUME TypeOK, NEW r \in Requests, CarriedAt(r), Plant(r)
    PROVE  Moves(r) /\ DataTypes' /\ CarriedAt(r)'
<1>1. CASE Drop(r)
  BY <1>1, DropMoves
<1>2. CASE ~Drop(r)
  <2>1. PICK i \in FreshReview :
          /\ mine' = [mine EXCEPT ![r] = i] /\ pc' = [pc EXCEPT ![r] = "peek"]
          /\ UNCHANGED <<data, op, given, seen, entity, dirty, next, shed, history>>
    BY <1>2 DEF Plant, Goto
  <2>2. pc[r] = "plant" /\ i \in ReviewIds /\ i # Nothing
    BY NothingAssumption DEF Plant, FreshReview
  <2>3. /\ mine' = [mine EXCEPT ![r] = mine'[r]] /\ mine'[r] \in ReviewIds \cup {Nothing}
        /\ pc' = [pc EXCEPT ![r] = pc'[r]] /\ pc'[r] \in Labels /\ pc'[r] = "peek"
        /\ mine'[r] # Nothing
    BY <2>1, <2>2 DEF TypeOK, Labels
  <2>4. Moves(r)
    BY <2>1, <2>3, Same DEF Moves
  <2>5. DataTypes'
    BY <2>1 DEF DataTypes, TypeOK, data, history
  <2>6. CarriedAt(r)'
    BY <2>1, <2>2, <2>3 DEF CarriedAt, Places, Saving
  <2> QED BY <2>4, <2>5, <2>6
<1> QED BY <1>1, <1>2

\* ... and looking at the entry.
LEMMA PeekMoves ==
    ASSUME TypeOK, NEW r \in Requests, CarriedAt(r), Peek(r)
    PROVE  Moves(r) /\ DataTypes' /\ CarriedAt(r)'
<1>1. PICK l \in {"seal", "find"} : Only(r, l)
  BY DEF Peek
<1>2. Moves(r) /\ DataTypes' /\ pc'[r] = l /\ UNCHANGED <<data, carried, history>>
  BY <1>1, OnlyMoves DEF Labels
<1>3. pc[r] = "peek" /\ op[r] = "review"
  BY DEF Peek, CarriedAt, Places, Saving
<1>4. CarriedAt(r)'
  BY <1>2, <1>3 DEF CarriedAt, Places, Saving, carried
<1> QED BY <1>2, <1>4

\* The review that a request has read has an id.
LEMMA ReadMoves ==
    ASSUME TypeOK, NEW r \in Requests, CarriedAt(r), ReadReview(r) \/ Sight(r)
    PROVE  Moves(r) /\ DataTypes' /\ CarriedAt(r)'
<1>1. CASE Drop(r)
  BY <1>1, DropMoves
<1>2. CASE ~Drop(r)
  <2>1. /\ review # Nothing /\ seen' = [seen EXCEPT ![r] = review]
        /\ UNCHANGED <<data, op, given, entity, dirty, mine, next, shed, history>>
    BY <1>2 DEF ReadReview, Sight
  <2>2. PICK l \in {"find", "unlike", "drop"} :
          /\ pc' = [pc EXCEPT ![r] = l]
          /\ (l = "drop" /\ pc[r] = "sight") \/ (l # "drop" /\ pc[r] = "read")
    <3>1. CASE ReadReview(r)
      BY <1>2, <3>1 DEF ReadReview, Goto
    <3>2. CASE Sight(r)
      BY <1>2, <3>2 DEF Sight, Goto
    <3> QED BY <3>1, <3>2
  <2>3. /\ seen' = [seen EXCEPT ![r] = seen'[r]] /\ seen'[r] \in ReviewIds
        /\ pc' = [pc EXCEPT ![r] = pc'[r]] /\ pc'[r] \in Labels /\ pc'[r] = l
    BY <2>1, <2>2 DEF TypeOK, Labels
  <2>4. Moves(r)
    BY <2>1, <2>3, Same DEF Moves
  <2>5. DataTypes'
    BY <2>1 DEF DataTypes, TypeOK, data, history
  <2>6. (op[r] = "edit" /\ pc[r] = "read") \/ (op[r] = "unreview" /\ pc[r] = "sight")
    BY <2>2 DEF CarriedAt, Places, Saving, TypeOK, Ops
  <2>7. mine[r] = Nothing /\ next[r] = Keep /\ shed[r] = Nothing
    BY <2>6 DEF CarriedAt
  <2>8. CarriedAt(r)'
    BY <2>1, <2>2, <2>3, <2>6, <2>7 DEF CarriedAt, Places, Saving
  <2> QED BY <2>4, <2>5, <2>8
<1> QED BY <1>1, <1>2

\* Deleting the likes of an edited review.
LEMMA UnlikeMoves ==
    ASSUME TypeOK, NEW r \in Requests, CarriedAt(r), Unlike(r)
    PROVE  Moves(r) /\ DataTypes' /\ CarriedAt(r)'
<1>1. /\ pc[r] = "unlike" /\ pc' = [pc EXCEPT ![r] = "hold"]
      /\ UNCHANGED <<data, op, given, seen, entity, dirty, mine, next, history>>
  BY DEF Unlike, Goto
<1>2. PICK v \in {Nothing, seen[r]} : shed' = [shed EXCEPT ![r] = v]
  BY DEF Unlike
<1>3. /\ shed' = [shed EXCEPT ![r] = shed'[r]] /\ shed'[r] \in ReviewIds \cup {Nothing}
      /\ shed'[r] \in {Nothing, seen[r]}
      /\ pc' = [pc EXCEPT ![r] = pc'[r]] /\ pc'[r] \in Labels /\ pc'[r] = "hold"
  BY <1>1, <1>2 DEF TypeOK, Labels
<1>4. op[r] = "edit"
  BY <1>1 DEF CarriedAt, Places, Saving, TypeOK, Ops
<1>5. Moves(r)
  BY <1>1, <1>3, Same DEF Moves
<1>6. DataTypes'
  BY <1>1 DEF DataTypes, TypeOK, data, history
<1>7. CarriedAt(r)'
  BY <1>1, <1>3, <1>4 DEF CarriedAt, Places, Saving
<1> QED BY <1>5, <1>6, <1>7

\* ... and saving it.
LEMMA HoldMoves ==
    ASSUME TypeOK, NEW r \in Requests, CarriedAt(r), Hold(r)
    PROVE  Moves(r) /\ DataTypes' /\ CarriedAt(r)'
<1>1. /\ pc[r] = "hold" /\ pc' = [pc EXCEPT ![r] = "find"]
      /\ UNCHANGED <<data, op, given, seen, entity, dirty, next, shed, history>>
  BY DEF Hold, Goto
<1>2. mine' = [mine EXCEPT ![r] = mine'[r]] /\ mine'[r] \in ReviewIds \cup {Nothing}
  BY DEF Hold, TypeOK
<1>3. pc' = [pc EXCEPT ![r] = pc'[r]] /\ pc'[r] \in Labels /\ pc'[r] = "find"
  BY <1>1 DEF TypeOK, Labels
<1>4. op[r] = "edit"
  BY <1>1 DEF CarriedAt, Places, Saving
<1>5. Moves(r)
  BY <1>1, <1>2, <1>3, Same DEF Moves
<1>6. DataTypes'
  BY <1>1 DEF DataTypes, TypeOK, data, history
<1>7. CarriedAt(r)'
  BY <1>1, <1>3, <1>4 DEF CarriedAt, Places, Saving
<1> QED BY <1>5, <1>6, <1>7

\* What a commit makes of review and entry.
Sealed(r) == IF mine[r] = Nothing THEN review
             ELSE IF op[r] \in {"remove", "unreview"} THEN Nothing ELSE mine[r]
Listed(r) == IF next[r] = Keep THEN entry ELSE next[r]

\* A commit.
LEMMA SealMoves ==
    ASSUME TypeOK, NEW r \in Requests, CarriedAt(r), Seal(r)
    PROVE  Moves(r) /\ DataTypes' /\ CarriedAt(r)'
<1>1. Leave(r, Sealed(r), Listed(r))
  BY DEF Seal, Sealed, Listed
<1>2. Sealed(r) \in ReviewIds \cup {Nothing} /\ Listed(r) \in Entries \cup {Nothing}
  BY DEF Sealed, Listed, TypeOK
<1> QED BY <1>1, <1>2, LeaveMoves

\* Deleting a review by itself.
LEMMA DropReviewMoves ==
    ASSUME TypeOK, NEW r \in Requests, CarriedAt(r), DropReview(r)
    PROVE  Moves(r) /\ DataTypes' /\ CarriedAt(r)'
<1>1. CASE Drop(r)
  BY <1>1, DropMoves
<1>2. CASE ~Drop(r)
  <2>1. /\ pc[r] = "drop" /\ pc' = [pc EXCEPT ![r] = "cascade"] /\ review = seen[r]
        /\ mine' = [mine EXCEPT ![r] = review]
        /\ UNCHANGED <<data, op, given, seen, entity, dirty, next, shed, history>>
    BY <1>2 DEF DropReview, Goto
  <2>2. op[r] = "unreview" /\ review # Nothing
    BY <2>1, NothingAssumption DEF CarriedAt, Places, Saving, TypeOK, Ops
  <2>3. /\ mine' = [mine EXCEPT ![r] = mine'[r]] /\ mine'[r] \in ReviewIds \cup {Nothing}
        /\ pc' = [pc EXCEPT ![r] = pc'[r]] /\ pc'[r] \in Labels /\ pc'[r] = "cascade"
        /\ mine'[r] # Nothing
    BY <2>1, <2>2 DEF TypeOK, Labels
  <2>4. Moves(r)
    BY <2>1, <2>3, Same DEF Moves
  <2>5. DataTypes'
    BY <2>1 DEF DataTypes, TypeOK, data, history
  <2>6. CarriedAt(r)'
    BY <2>1, <2>2, <2>3 DEF CarriedAt, Places, Saving
  <2> QED BY <2>4, <2>5, <2>6
<1> QED BY <1>1, <1>2

\* All steps together.
LEMMA StepMoves ==
    ASSUME TypeOK, NEW r \in Requests, CarriedAt(r), Begin(r) \/ Step(r) \/ Abort(r)
    PROVE  Moves(r) /\ DataTypes' /\ CarriedAt(r)'
<1>1. CASE Begin(r)
  BY <1>1, BeginMoves
<1>2. CASE Abort(r) \/ HoldFails(r) \/ Deadlock(r)
  BY <1>2, DropMoves DEF Abort, HoldFails, Deadlock
<1>3. CASE Step(r)
  BY <1>2, <1>3, CheckMoves, FindMoves, PickMoves, LoadMoves, WriteMoves, InsertMoves,
     RemoveReviewsMoves, CascadeMoves, UnlistMoves, LookMoves, PlantMoves, PeekMoves,
     ReadMoves, UnlikeMoves, HoldMoves, SealMoves, DropReviewMoves DEF Step
<1> QED BY <1>1, <1>2, <1>3

\* What one request carries does not depend on the others' steps.
LEMMA FrameCarried ==
    ASSUME NEW r \in Requests, Carried, Frame(r), CarriedAt(r)'
    PROVE  Carried'
<1> SUFFICES ASSUME NEW q \in Requests PROVE CarriedAt(q)'
  BY DEF Carried
<1>1. CASE q = r
  BY <1>1
<1>2. CASE q # r
  BY <1>2 DEF Frame, Carried, CarriedAt
<1> QED BY <1>1, <1>2

\* The review is locked by those who find it free, and until they end.
Locks(r) ==
    \/ mine'[r] = mine[r] /\ review' = review /\ (op'[r] = op[r] \/ mine[r] = Nothing)
    \/ mine'[r] = Nothing /\ (review' = review \/ mine[r] # Nothing)
    \/ /\ review' = review /\ op'[r] = op[r]
       /\ ReviewHolders = {} \/ (review # Nothing /\ ReviewFree)
       /\ \/ mine'[r] = review
          \/ review = Nothing /\ op[r] \notin {"remove", "unreview"}

LEMMA StepLocks ==
    ASSUME TypeOK, NEW r \in Requests, CarriedAt(r), Begin(r) \/ Step(r) \/ Abort(r)
    PROVE  Locks(r)
<1>1. ASSUME NEW v, NEW e, Leave(r, v, e), v = review \/ mine[r] # Nothing PROVE Locks(r)
  <2>1. mine'[r] = Nothing /\ review' = v
    BY <1>1 DEF Leave, End, TypeOK
  <2> QED BY <1>1, <2>1 DEF Locks
<1>2. ASSUME Drop(r) PROVE Locks(r)
  BY <1>1, <1>2 DEF Drop
<1>3. ASSUME UNCHANGED <<data, op, mine>> PROVE Locks(r)
  BY <1>3 DEF Locks, data
<1>4. ASSUME NEW l, Only(r, l) PROVE Locks(r)
  BY <1>3, <1>4 DEF Only, carried
<1>5. ASSUME NEW e, Put(r, e) PROVE Locks(r)
  <2>1. CASE Transaction(r)
    BY <1>3, <1>5, <2>1 DEF Put
  <2>2. CASE ~Transaction(r)
    <3>1. Leave(r, review, IF e = Keep THEN entry ELSE e)
      BY <1>5, <2>2 DEF Put
    <3> QED BY <1>1, <3>1
  <2> QED BY <2>1, <2>2
<1>6. CASE Begin(r)
  <2>1. mine[r] = Nothing /\ UNCHANGED <<review, mine>>
    BY <1>6 DEF Begin, CarriedAt, data
  <2> QED BY <2>1 DEF Locks
<1>7. CASE Abort(r) \/ HoldFails(r) \/ Deadlock(r)
  BY <1>2, <1>7 DEF Abort, HoldFails, Deadlock
<1>8. CASE Check(r) \/ Find(r) \/ Pick(r) \/ Load(r)
  BY <1>2, <1>3, <1>4, <1>5, <1>8 DEF Check, Find, Pick, Load
<1>9. CASE Write(r) \/ Insert(r) \/ Unlist(r)
  BY <1>2, <1>5, <1>9 DEF Write, Insert, Unlist
<1>10. CASE Cascade(r) \/ Look(r) \/ Peek(r) \/ ReadReview(r) \/ Unlike(r) \/ Sight(r)
  BY <1>2, <1>3, <1>4, <1>10 DEF Cascade, Look, Peek, ReadReview, Unlike, Sight
<1>11. CASE RemoveReviews(r)
  <2>1. /\ UNCHANGED <<review, op>> /\ mine'[r] = review /\ mine[r] = Nothing
        /\ review = Nothing \/ ReviewFree
    BY <1>11 DEF RemoveReviews, data, TypeOK, CarriedAt
  <2> QED BY <2>1 DEF Locks
<1>12. CASE Plant(r)
  <2>1. CASE review # Nothing
    BY <1>2, <1>12, <2>1 DEF Plant
  <2>2. CASE review = Nothing
    <3>1. UNCHANGED <<review, op>> /\ ReviewHolders = {} /\ op[r] = "review"
      BY <1>12, <2>2 DEF Plant, data, CarriedAt, Places, Saving, TypeOK, Ops
    <3> QED BY <2>2, <3>1 DEF Locks
  <2> QED BY <2>1, <2>2
<1>13. CASE Hold(r)
  <2>1. UNCHANGED <<review, op>> /\ op[r] = "edit" /\ seen[r] # Nothing /\ mine[r] = Nothing
    BY <1>13, NothingAssumption DEF Hold, data, CarriedAt, Places, Saving, TypeOK, Ops
  <2>2. \/ ReviewFree /\ review # Nothing /\ mine'[r] = review
        \/ review = Nothing /\ ReviewHolders = {}
        \/ mine' = mine
    BY <1>13, <2>1 DEF Hold, TypeOK
  <2> QED BY <2>1, <2>2 DEF Locks
<1>14. CASE Seal(r)
  <2>1. Leave(r, Sealed(r), Listed(r)) /\ (Sealed(r) = review \/ mine[r] # Nothing)
    BY <1>14 DEF Seal, Sealed, Listed
  <2> QED BY <1>1, <2>1
<1>15. CASE DropReview(r)
  <2>1. CASE review # seen[r]
    BY <1>2, <1>15, <2>1 DEF DropReview
  <2>2. CASE review = seen[r]
    <3>1. /\ UNCHANGED <<review, op>> /\ mine'[r] = review /\ ReviewFree /\ review # Nothing
      BY <1>15, <2>2, NothingAssumption DEF DropReview, data, TypeOK, CarriedAt
    <3> QED BY <3>1 DEF Locks
  <2> QED BY <2>1, <2>2
<1> QED BY <1>6, <1>7, <1>8, <1>9, <1>10, <1>11, <1>12, <1>13, <1>14, <1>15 DEF Step

\* So it is locked by one of them at a time.
LEMMA FrameLocked ==
    ASSUME TypeOK, Locked, NEW r \in Requests, Frame(r), Locks(r)
    PROVE  Locked'
<1> SUFFICES ASSUME NEW q \in Requests, mine'[q] # Nothing
             PROVE  /\ \A p \in Requests : mine'[p] # Nothing => p = q
                    /\ review' \in {mine'[q], Nothing}
                    /\ op'[q] \in {"remove", "unreview"} => review' = mine'[q]
  BY DEF Locked, ReviewHolders
<1>1. \A p \in Requests \ {r} : mine'[p] = mine[p] /\ op'[p] = op[p]
  BY DEF Frame
<1>2. \A p \in Requests : mine[p] # Nothing =>
        /\ \A t \in Requests : mine[t] # Nothing => t = p
        /\ review \in {mine[p], Nothing}
        /\ op[p] \in {"remove", "unreview"} => review = mine[p]
  BY DEF Locked, ReviewHolders
<1>3. CASE mine'[r] = mine[r] /\ review' = review /\ (op'[r] = op[r] \/ mine[r] = Nothing)
  BY <1>1, <1>2, <1>3
<1>4. CASE mine'[r] = Nothing /\ (review' = review \/ mine[r] # Nothing)
  BY <1>1, <1>2, <1>4
<1>5. CASE /\ review' = review /\ op'[r] = op[r]
           /\ ReviewHolders = {} \/ (review # Nothing /\ ReviewFree)
           /\ \/ mine'[r] = review
              \/ review = Nothing /\ op[r] \notin {"remove", "unreview"}
  <2>1. \A p \in Requests : mine[p] = Nothing
    BY <1>2, <1>5 DEF ReviewHolders, ReviewFree
  <2> QED BY <1>1, <1>5, <2>1
<1> QED BY <1>3, <1>4, <1>5 DEF Locks

\* Types, what requests carry and who has locked the review are inductive by themselves.
TInv == TypeOK /\ Carried /\ Locked

\* ... at first.
LEMMA TInvInit == Init => TInv
<1> SUFFICES ASSUME Init PROVE TInv
  OBVIOUS
<1>1. TypeOK
  BY DEF Init, TypeOK, Labels, Ops
<1>2. Carried
  BY DEF Init, Carried, CarriedAt, Places, Saving
<1>3. Locked
  BY DEF Init, Locked
<1> QED BY <1>1, <1>2, <1>3 DEF TInv

\* ... and after each step.
LEMMA TInvNext == TInv /\ [Next]_vars => TInv'
<1> SUFFICES ASSUME TInv, [Next]_vars PROVE TInv'
  OBVIOUS
<1> USE DEF TInv
<1>1. CASE Next
  <2>1. PICK r \in Requests : Begin(r) \/ Step(r) \/ Abort(r)
    BY <1>1 DEF Next
  <2>2. Moves(r) /\ DataTypes' /\ CarriedAt(r)' /\ Locks(r)
    BY <2>1, StepMoves, StepLocks DEF Carried
  <2>3. TypeOK' /\ Frame(r)
    BY <2>2, MovesTypes
  <2> QED BY <2>2, <2>3, FrameCarried, FrameLocked
<1>2. CASE UNCHANGED vars
  BY <1>2 DEF vars, data, carried, history, TypeOK, Carried, CarriedAt, Locked, ReviewHolders
<1> QED BY <1>1, <1>2

\* The rows stay rows, and requests carry what they should.
THEOREM ShelfTypes == Spec => []TypeOK
<1>1. TInv => TypeOK
  BY DEF TInv
<1> QED BY <1>1, TInvInit, TInvNext, PTL DEF Spec

\* Who has changed the entry commits next.  Who has locked the review waits, if not for the
\* entry, for the likes of the review it deletes; who has deleted those waits for the review.
LEMMA RingsFromLocks == TInv => RingsAreOverLikes
<1> SUFFICES ASSUME TInv, NEW S \in SUBSET Requests, S # {}, Ring(S)
             PROVE  \E p, q \in S :
                      /\ op[p] = "edit" /\ pc[p] = "hold" /\ WaitsFor(p, q)
                      /\ op[q] \in {"remove", "unreview"} /\ pc[q] = "cascade"
                      /\ WaitsFor(q, p)
  BY DEF RingsAreOverLikes
<1> USE DEF TInv
<1>1. \A p \in S : CarriedAt(p) /\ p \in Requests /\ \E q \in S : WaitsFor(p, q)
  BY DEF Ring, Carried
<1>2. \A p \in S : next[p] = Keep
  BY <1>1 DEF CarriedAt, WaitsFor
<1>3. ASSUME NEW p \in S, NEW q \in S, WaitsFor(p, q)
      PROVE  \/ pc[p] \in {"plant", "hold", "reviews", "drop"} /\ mine[q] # Nothing
             \/ pc[p] = "unlike" /\ shed[q] = seen[p]
             \/ pc[p] = "cascade" /\ shed[q] = mine[p]
  BY <1>2, <1>3 DEF WaitsFor, ReviewHolders, EntryHolders, ReviewFree
<1>4. \A p \in S : mine[p] # Nothing => pc[p] = "cascade"
  BY <1>1, <1>3 DEF CarriedAt
<1>5. \A p \in S : shed[p] # Nothing => pc[p] = "hold"
  BY <1>1, <1>3 DEF CarriedAt
<1>6. \E p \in S : mine[p] # Nothing
  <2> SUFFICES ASSUME \A p \in S : mine[p] = Nothing PROVE FALSE
    OBVIOUS
  <2>1. \A p \in S : pc[p] \notin {"hold", "cascade"}
    BY <1>1, <1>3 DEF CarriedAt
  <2>2. \A p \in S : shed[p] = Nothing
    BY <1>5, <2>1
  <2>3. PICK p \in S : pc[p] = "unlike"
    BY <1>1, <1>3, <2>1
  <2>4. seen[p] # Nothing
    BY <1>1, <2>3, NothingAssumption DEF CarriedAt
  <2> QED BY <1>1, <1>3, <2>2, <2>3, <2>4
<1>7. PICK q \in S : mine[q] # Nothing
  BY <1>6
<1>8. /\ pc[q] = "cascade" /\ op[q] \in {"remove", "unreview"} /\ review = mine[q]
  <2>1. pc[q] = "cascade"
    BY <1>4, <1>7
  <2>2. op[q] \in {"remove", "unreview"}
    BY <1>1, <2>1 DEF CarriedAt, Places, Saving, TypeOK, Ops
  <2> QED BY <1>7, <2>1, <2>2 DEF Locked
<1>9. PICK p \in S : WaitsFor(q, p)
  BY <1>1
<1>10. shed[p] = mine[q] /\ pc[p] = "hold"
  BY <1>3, <1>5, <1>7, <1>8, <1>9
<1>11. op[p] = "edit"
  BY <1>1, <1>10 DEF CarriedAt, Places, Saving, TypeOK, Ops
<1>12. WaitsFor(p, q)
  <2>1. ~ReviewFree
    BY <1>7, <1>8 DEF ReviewFree, ReviewHolders
  <2> QED BY <1>8, <1>10, <2>1 DEF WaitsFor
<1> QED BY <1>8, <1>9, <1>10, <1>11, <1>12

\* A deadlock is one of an edit and a removal over the likes of the review.
THEOREM DeadlocksAreOverLikes == Spec => []RingsAreOverLikes
BY TInvInit, TInvNext, RingsFromLocks, PTL DEF Spec

-----------------------------------------------------------------------------
(* Review and entry agree.                                                 *)

\* The title has gone.
Emptied == review' = Nothing /\ entry' = Nothing

\* A step that changes no row, and one that a request ends with.
Quiet(r) ==
    /\ review' = review /\ entry' = entry /\ crossed' = crossed
    /\ \A q \in Requests \ {r} : q \in touched' <=> q \in touched
Loud(r) ==
    /\ Underway \ {r} \subseteq touched'
    /\ crossed' = ((crossed \/ r \in touched) /\ ~Emptied)
    /\ op'[r] = "none"

\* Nobody else is disturbed by a quiet step; whoever a loud one could disturb
\* is touched by it.
LEMMA QuietRight ==
    ASSUME IInv, NEW r \in Requests, Frame(r), Quiet(r), ~crossed => Right(r)'
    PROVE  Rightly'
<1> SUFFICES ASSUME ~crossed' PROVE Agree' /\ \A q \in Requests : Right(q)'
  BY DEF Rightly
<1>1. Agree /\ (\A q \in Requests : Right(q)) /\ Right(r)'
  BY DEF Quiet, IInv, Rightly
<1>2. Agree'
  BY <1>1 DEF Quiet, Agree
<1>3. ASSUME NEW q \in Requests \ {r} PROVE Right(q)'
  <2>1. Right(q)
    BY <1>1
  <2> QED BY <2>1 DEF Right, Alone, Frame, Quiet, Dated
<1> QED BY <1>1, <1>2, <1>3

\* A step that ends a request and changes a row.
LEMMA LoudRight ==
    ASSUME IInv, NEW r \in Requests, Frame(r), Loud(r),
           ~crossed /\ r \notin touched => Agree'
    PROVE  Rightly'
<1> SUFFICES ASSUME ~crossed' PROVE Agree' /\ \A q \in Requests : Right(q)'
  BY DEF Rightly
<1>1. Agree'
  BY DEF Loud, Emptied, Agree
<1>2. ASSUME NEW q \in Requests \ {r}, Alone(q)' PROVE FALSE
  <2>1. op[q] # "none" /\ pc[q] # Start(op[q], given[q]) /\ q \notin touched'
    BY <1>2 DEF Alone, Frame
  <2>2. pc[q] # "idle"
    BY <2>1 DEF IInv, Carried, CarriedAt, Places, Saving, TypeOK, Ops
  <2>3. q \in Underway
    BY <2>1, <2>2 DEF Underway
  <2> QED BY <2>1, <2>3 DEF Loud
<1>3. ~Alone(r)'
  BY DEF Loud, Alone
<1> QED BY <1>1, <1>2, <1>3 DEF Right

\* A request ends well if what it leaves agrees, in case it was alone.
LEMMA LeaveRight ==
    ASSUME IInv, NEW r \in Requests, Frame(r), NEW v, NEW e, Leave(r, v, e),
           op'[r] = "none",
           ~crossed /\ r \notin touched =>
             /\ v # Nothing => e # Nothing /\ e.status = "watched"
             /\ e # Nothing => Dated(e)
    PROVE  Rightly'
<1>1. CASE v = review /\ e = entry
  <2>1. Quiet(r)
    BY <1>1 DEF Leave, Quiet
  <2>2. Right(r)'
    BY DEF Right, Alone
  <2> QED BY <2>1, <2>2, QuietRight
<1>2. CASE ~(v = review /\ e = entry)
  <2>1. Loud(r) /\ review' = v /\ entry' = e
    BY <1>2 DEF Leave, Loud, Emptied
  <2>2. ~crossed /\ r \notin touched => Agree'
    BY <2>1 DEF Agree, Dated
  <2> QED BY <2>1, <2>2, LoudRight
<1> QED BY <1>1, <1>2

\* A request that is refused or cut off changes nothing.
LEMMA DropRight ==
    ASSUME IInv, NEW r \in Requests, Frame(r), Drop(r), op'[r] = "none"
    PROVE  Rightly'
BY LeaveRight DEF Drop, IInv, Rightly, Agree, Dated

\* Beyond the place it begins at, a request is alone now if it is alone next.
LEMMA AloneBefore ==
    ASSUME NEW r \in Requests, UNCHANGED <<op, given, history>>,
           pc[r] # Start(op[r], given[r]), Alone(r)'
    PROVE  Alone(r)
BY DEF Alone, history

\* What a statement makes of the entry.
Made(e) == IF e = Keep THEN entry ELSE e

\* A statement on the entry knows what it makes of it, or commits it.
LEMMA PutRight ==
    ASSUME IInv, NEW r \in Requests, Frame(r), pc[r] \in Saving \cup {"unlist"},
           CarriedAt(r)',
           NEW e \in Entries \cup {Nothing, Keep}, Put(r, e),
           ~crossed /\ Alone(r) =>
             IF op[r] = "remove" THEN e = Nothing
             ELSE /\ Made(e) # Nothing /\ Dated(Made(e))
                  /\ Made(e).status = "want_to_watch" => review = Nothing
                  /\ op[r] \in {"review", "edit"} => Made(e).status = "watched"
    PROVE  Rightly'
<1>0. pc[r] # Start(op[r], given[r]) /\ op[r] # "none" /\ op[r] \in Ops /\ CarriedAt(r)
      /\ pc[r] # "idle"
  BY DEF IInv, Carried, CarriedAt, Places, Saving, TypeOK, Ops, Start
<1>1. CASE Transaction(r)
  <2>1. /\ next' = [next EXCEPT ![r] = e] /\ pc' = [pc EXCEPT ![r] = "seal"]
        /\ UNCHANGED <<data, op, given, seen, entity, dirty, mine, shed, history>>
    BY <1>1 DEF Put, After, Saving, Goto
  <2>2. Quiet(r) /\ next'[r] = e /\ pc'[r] = "seal"
    BY <2>1 DEF Quiet, data, history, IInv, TypeOK
  <2>3. ASSUME ~crossed, Alone(r)' PROVE Right(r)'
    <3>1. Alone(r) /\ Right(r)
      BY <1>0, <2>1, <2>3, AloneBefore DEF IInv, Rightly
    <3>2. /\ op[r] = "review" => review = Nothing
          /\ op[r] = "edit" => review # Nothing /\ seen[r] = review /\ mine[r] \in {Nothing, review}
          /\ op[r] = "remove" => entry # Nothing /\ entity[r] = entry
      BY <3>1 DEF Right
    <3>3. op[r] = "remove" => pc[r] = "unlist" /\ mine[r] = review /\ e = Nothing
      BY <1>0, <2>3, <3>1 DEF Right, CarriedAt, Places, Saving
    <3>4. op[r] \in {"review", "edit"} =>
           IF e = Keep THEN entry # Nothing /\ entry.status = "watched"
           ELSE e \in Entries /\ e.status = "watched" /\ e.day # Nothing
      BY <2>3, <3>1 DEF Made, Dated
    <3> QED BY <2>1, <2>2, <3>2, <3>3, <3>4 DEF Right, Saving, data
  <2> QED BY <2>2, <2>3, QuietRight DEF Right
<1>2. CASE ~Transaction(r)
  <2>1. Leave(r, review, Made(e))
    BY <1>2 DEF Put, Made
  <2>2. op'[r] = "none"
    BY <2>1 DEF Leave, End, IInv, TypeOK
  <2>3. Made(e) \in Entries \cup {Nothing}
    BY DEF Made, IInv, TypeOK
  <2>4. ASSUME ~crossed, r \notin touched
        PROVE /\ review # Nothing => Made(e) # Nothing /\ Made(e).status = "watched"
              /\ Made(e) # Nothing => Dated(Made(e))
    <3>1. Alone(r) /\ op[r] # "remove"
      BY <1>0, <1>2, <2>4 DEF Alone, Transaction
    <3>2. Made(e) # Nothing => Made(e).status \in Statuses
      BY <2>3 DEF Entries
    <3> QED BY <2>4, <3>1, <3>2 DEF Statuses
  <2> QED BY <2>1, <2>2, <2>4, LeaveRight
<1> QED BY <1>1, <1>2

\* Each step knows review and entry as they are, if its request is alone.
LEMMA CheckRight ==
    ASSUME IInv, NEW r \in Requests, Frame(r), Check(r)
    PROVE  Rightly'
<1>1. CASE Drop(r)
  BY <1>1, DropMoves, DropRight DEF IInv
<1>2. CASE ~Drop(r)
  <2> DEFINE l == IF op[r] = "add" THEN "find" ELSE "load"
  <2>1. review = Nothing /\ Only(r, l) /\ pc[r] = "check"
    BY <1>2 DEF Check
  <2>2. pc'[r] = l /\ UNCHANGED <<data, carried, history>>
    BY <2>1, OnlyMoves DEF IInv, Labels
  <2>3. Quiet(r)
    BY <2>2 DEF Quiet, data, history
  <2>4. op[r] \in {"add", "change"} /\ CarriedAt(r)
    BY <2>1 DEF IInv, Carried, CarriedAt, Places, Saving, TypeOK, Ops
  <2>5. CASE op[r] = "add"
    BY <2>1, <2>2, <2>3, <2>5, QuietRight DEF Right, Saving, carried, data
  <2>6. CASE op[r] = "change"
    <3>1. ASSUME ~crossed, Alone(r)' PROVE Right(r)'
      <4>1. Alone(r) /\ Right(r)
        BY <2>1, <2>2, <2>6, <3>1, AloneBefore DEF carried, Start, IInv, Rightly
      <4>2. entry # Nothing /\ entity[r].id = entry.id /\ Dated(entity[r])
        BY <2>1, <2>6, <4>1 DEF Right
      <4> QED BY <2>1, <2>2, <2>6, <4>2 DEF Right, Saving, carried, data, Dated
    <3> QED BY <2>3, <3>1, QuietRight DEF Right
  <2> QED BY <2>4, <2>5, <2>6
<1> QED BY <1>1, <1>2

\* Looking for the entry.
LEMMA FindRight ==
    ASSUME IInv, NEW r \in Requests, Frame(r), Find(r)
    PROVE  Rightly'
<1>1. PICK d \in DaysOf(given[r]) :
        entity' = [entity EXCEPT ![r] =
           [id |-> IF entry = Nothing THEN Nothing ELSE entry.id,
            status |-> given[r].status, day |-> d]]
  BY DEF Find
<1>2. /\ pc' = [pc EXCEPT ![r] = IF entry = Nothing THEN "insert" ELSE "load"]
      /\ pc[r] = "find" /\ UNCHANGED <<data, op, given, seen, dirty, mine, next, shed, history>>
  BY DEF Find, Goto
<1>3. Quiet(r)
  BY <1>2 DEF Quiet, data, history
<1>4. /\ pc'[r] = IF entry = Nothing THEN "insert" ELSE "load"
      /\ entity'[r].status = given[r].status /\ entity'[r].day = d
      /\ entry # Nothing => entity'[r].id = entry.id
  BY <1>1, <1>2 DEF IInv, TypeOK
<1>5. /\ op[r] \in {"add", "review", "edit"} /\ given[r] \in Inputs
      /\ Sent(op[r], given[r]) /\ CarriedAt(r)
  BY <1>2 DEF IInv, Carried, CarriedAt, Places, Saving, TypeOK, Ops
<1>6. given[r].status \in Statuses
      /\ (op[r] \in {"review", "edit"} => given[r].status = "watched")
  BY <1>5, NothingAssumption DEF Sent, Inputs, Statuses
<1>7. Dated(entity'[r])
  BY <1>4, <1>5, <1>6, NothingAssumption, DaysFit DEF Dated
<1>8. ASSUME ~crossed, Alone(r)' PROVE Right(r)'
  <2>1. ASSUME given[r].status = "want_to_watch" PROVE review = Nothing
    <3>1. op[r] = "add"
      BY <1>5, <1>6, <2>1
    <3>2. Alone(r) /\ Right(r)
      BY <1>2, <1>8, <2>1, <3>1, AloneBefore DEF Start, IInv, Rightly
    <3> QED BY <1>2, <2>1, <3>2 DEF Right
  <2>2. ASSUME op[r] \in {"review", "edit"}
        PROVE  /\ op[r] = "review" => review = Nothing
               /\ op[r] = "edit" =>
                    review # Nothing /\ seen[r] = review /\ mine[r] \in {Nothing, review}
    <3>1. Alone(r) /\ Right(r)
      BY <1>2, <1>8, <2>2, AloneBefore DEF Start, IInv, Rightly
    <3> QED BY <3>1 DEF Right
  <2>3. /\ review' = review /\ entry' = entry /\ op' = op /\ given' = given /\ seen' = seen
        /\ mine' = mine
    BY <1>2 DEF data
  <2>4. Dated(entity[r])'
    BY <1>7 DEF Dated
  <2>5. pc'[r] = "insert" \/ pc'[r] = "load"
    BY <1>4
  <2> QED BY <1>4, <1>5, <1>6, <2>1, <2>2, <2>3, <2>4, <2>5 DEF Right, Saving
<1> QED BY <1>3, <1>8, QuietRight DEF Right

\* Reading the entry that is named.
LEMMA PickRight ==
    ASSUME IInv, NEW r \in Requests, Frame(r), Pick(r)
    PROVE  Rightly'
<1>1. CASE Drop(r)
  BY <1>1, DropMoves, DropRight DEF IInv
<1>2. CASE ~Drop(r)
  <2> DEFINE l == IF op[r] = "remove" THEN "reviews"
                  ELSE IF given[r].status = "want_to_watch" THEN "check" ELSE "load"
  <2>1. entry # Nothing /\ pc[r] = "pick" /\ pc' = [pc EXCEPT ![r] = l]
        /\ UNCHANGED <<data, op, given, seen, dirty, mine, next, shed, history>>
    BY <1>2 DEF Pick, Goto, After
  <2>2. PICK e \in (IF op[r] = "remove" THEN {entry} ELSE Changes(entry, given[r])) :
          entity' = [entity EXCEPT ![r] = e]
    BY <1>2 DEF Pick
  <2>3. op[r] \in {"change", "remove"} /\ given[r] \in Inputs /\ entry \in Entries
    BY <2>1 DEF IInv, Carried, CarriedAt, Places, Saving, TypeOK, Ops
  <2>4. pc'[r] = l /\ entity'[r] = e /\ Quiet(r)
    BY <2>1, <2>2 DEF IInv, TypeOK, Quiet, data, history
  <2>5. /\ review' = review /\ entry' = entry /\ op' = op /\ given' = given
    BY <2>1 DEF data
  <2>6. CASE op[r] = "remove"
    <3>1. Right(r)'
      BY <2>1, <2>2, <2>4, <2>5, <2>6 DEF Right, Saving
    <3> QED BY <2>4, <3>1, QuietRight
  <2>7. CASE op[r] = "change"
    <3>1. /\ e \in Entries /\ e.id = entry.id /\ (Dated(entry) => Dated(e))
          /\ (e.status # entry.status => e.status = given[r].status)
      BY <2>2, <2>3, <2>7, ChangesFit
    <3>2. ASSUME ~crossed PROVE Right(r)'
      <4>1. Agree
        BY <3>2 DEF IInv, Rightly
      <4>2. Dated(e)
        BY <2>1, <3>1, <4>1 DEF Agree, Dated
      <4>3. l = "load" => (e.status = "want_to_watch" => review = Nothing)
        BY <2>7, <3>1, <4>1 DEF Agree
      <4>4. Dated(entity[r])'
        BY <2>4, <4>2 DEF Dated
      <4> QED BY <2>1, <2>4, <2>5, <2>7, <3>1, <4>3, <4>4 DEF Right, Saving
    <3> QED BY <2>4, <3>2, QuietRight
  <2> QED BY <2>3, <2>6, <2>7
<1> QED BY <1>1, <1>2

\* A save of a request that is alone finds the entry that it has read.
LEMMA SavingKnows ==
    ASSUME IInv, NEW r \in Requests, pc[r] \in Saving, ~crossed, Alone(r)
    PROVE  /\ Right(r) /\ CarriedAt(r) /\ op[r] \in {"add", "change", "review", "edit"}
           /\ entity[r] \in Entities /\ Dated(entity[r])
           /\ entity[r].status = "want_to_watch" => review = Nothing
           /\ pc[r] \in {"load", "write"} =>
                entry # Nothing /\ entry \in Entries /\ entity[r].id = entry.id
           /\ pc[r] = "insert" => entry = Nothing
           /\ op[r] \in {"review", "edit"} => entity[r].status = "watched"
<1>1. Right(r) /\ CarriedAt(r)
  BY DEF IInv, Rightly, Carried
<1>2. op[r] \in {"add", "change", "review", "edit"}
  BY <1>1 DEF IInv, TypeOK, Ops, CarriedAt, Places, Saving
<1>3. entity[r] \in Entities
  BY <1>1 DEF CarriedAt
<1>4. entry # Nothing => entry \in Entries
  BY DEF IInv, TypeOK
<1> QED BY <1>1, <1>2, <1>3, <1>4 DEF Right

\* The SELECT of a save.
LEMMA LoadRight ==
    ASSUME IInv, NEW r \in Requests, Frame(r), Load(r)
    PROVE  Rightly'
<1> DEFINE differs == {c \in Columns : entity[r][c] # entry[c]}
<1>0. pc[r] = "load" /\ pc[r] \in Saving /\ CarriedAt(r) /\ TypeOK
  BY DEF Load, Saving, IInv, Carried
<1>1. CASE entry = Nothing \/ entry.id # entity[r].id
  <2>1. Only(r, "insert")
    BY <1>1 DEF Load
  <2>2. UNCHANGED <<data, carried, history>>
    BY <2>1 DEF Only
  <2>3. Quiet(r)
    BY <2>2 DEF Quiet, data, history
  <2>4. ASSUME ~crossed, Alone(r)' PROVE FALSE
    <3>1. Alone(r)
      BY <1>0, <2>2, <2>4, AloneBefore DEF Start, carried, IInv, CarriedAt, Places, Saving,
         TypeOK, Ops
    <3> QED BY <1>0, <1>1, <2>4, <3>1, SavingKnows
  <2> QED BY <2>3, <2>4, QuietRight DEF Right
<1>2. CASE ~(entry = Nothing \/ entry.id # entity[r].id) /\ differs = {}
  <2>1. Put(r, Keep)
    BY <1>2 DEF Load
  <2>2. ASSUME ~crossed, Alone(r)
        PROVE  /\ op[r] # "remove" /\ Made(Keep) # Nothing /\ Dated(Made(Keep))
               /\ Made(Keep).status = "want_to_watch" => review = Nothing
               /\ op[r] \in {"review", "edit"} => Made(Keep).status = "watched"
    <3>1. entity[r].status = entry.status
      BY <1>2 DEF Columns
    <3>2. Dated(entry)
      BY <1>2, <2>2 DEF IInv, Rightly, Agree, Dated
    <3> QED BY <1>0, <1>2, <2>2, <3>1, <3>2, SavingKnows DEF Made
  <2>3. CarriedAt(r)'
    BY <1>0, <2>1, PutMoves
  <2> QED BY <1>0, <2>1, <2>2, <2>3, PutRight
<1>3. CASE ~(entry = Nothing \/ entry.id # entity[r].id) /\ differs # {}
  <2>1. /\ dirty' = [dirty EXCEPT ![r] = differs] /\ pc' = [pc EXCEPT ![r] = "write"]
        /\ UNCHANGED <<data, op, given, seen, entity, mine, next, shed, history>>
    BY <1>3 DEF Load, Goto
  <2>2. Quiet(r) /\ dirty'[r] = differs /\ pc'[r] = "write"
    BY <1>0, <2>1 DEF Quiet, data, history, TypeOK
  <2>3. ASSUME ~crossed, Alone(r)' PROVE Right(r)'
    <3>1. Alone(r)
      BY <1>0, <2>1, <2>3, AloneBefore DEF Start, CarriedAt, Places, Saving, TypeOK, Ops
    <3>2. Right(r)
      BY <2>3, <3>1 DEF IInv, Rightly
    <3>3. op[r] # "remove"
      BY <1>0 DEF CarriedAt, Places, Saving
    <3>4. /\ review' = review /\ entry' = entry /\ op' = op /\ given' = given /\ seen' = seen
          /\ entity' = entity /\ mine' = mine
      BY <2>1 DEF data
    <3>5. Dated(entity[r])' <=> Dated(entity[r])
      BY <3>4 DEF Dated
    <3> QED BY <1>0, <2>2, <3>1, <3>2, <3>3, <3>4, <3>5 DEF Right, Saving
  <2> QED BY <2>2, <2>3, QuietRight DEF Right
<1> QED BY <1>1, <1>2, <1>3

\* The UPDATE of a save.
LEMMA WriteRight ==
    ASSUME IInv, NEW r \in Requests, Frame(r), Write(r)
    PROVE  Rightly'
<1> DEFINE e == IF entry = Nothing \/ entry.id # entity[r].id THEN Keep ELSE Merged(r)
<1>0. pc[r] = "write" /\ pc[r] \in Saving /\ CarriedAt(r) /\ TypeOK /\ Put(r, e)
  BY DEF Write, Saving, IInv, Carried
<1>1. e \in Entries \cup {Nothing, Keep}
  <2>1. entity[r] \in Entities
    BY <1>0 DEF CarriedAt
  <2> QED BY <1>0, <2>1 DEF TypeOK, Merged, Entries, Entities
<1>2. CarriedAt(r)'
  BY <1>0, <1>1, PutMoves
<1>3. ASSUME ~crossed, Alone(r)
      PROVE  /\ op[r] # "remove" /\ Made(e) # Nothing /\ Dated(Made(e))
             /\ Made(e).status = "want_to_watch" => review = Nothing
             /\ op[r] \in {"review", "edit"} => Made(e).status = "watched"
  <2>1. e = Merged(r) /\ entry # Nothing
    BY <1>0, <1>3, SavingKnows
  <2>2. dirty[r] = {c \in Columns : entity[r][c] # entry[c]}
    BY <1>0, <1>3 DEF IInv, Rightly, Right
  <2>3. Merged(r).status = entity[r].status /\ Merged(r).day = entity[r].day
    BY <2>2 DEF Merged, Columns
  <2>4. e \in Entries /\ Made(e) = e
    <3>1. Merged(r) \in Entries
      <4>1. entity[r] \in Entities /\ entry \in Entries
        BY <1>0, <1>3, SavingKnows
      <4> QED BY <4>1 DEF Merged, Entries, Entities
    <3> QED BY <2>1, <3>1, KeepAssumption DEF Made
  <2>5. Dated(e)
    BY <1>0, <1>3, <2>1, <2>3, SavingKnows DEF Dated
  <2> QED BY <1>0, <1>3, <2>1, <2>3, <2>4, <2>5, SavingKnows, NothingAssumption
<1> QED BY <1>0, <1>1, <1>2, <1>3, PutRight

\* The INSERT of a save.
LEMMA InsertRight ==
    ASSUME IInv, NEW r \in Requests, Frame(r), Insert(r)
    PROVE  Rightly'
<1>1. CASE Drop(r)
  BY <1>1, DropMoves, DropRight DEF IInv
<1>2. CASE ~Drop(r)
  <2>1. PICK i \in IF entity[r].id = Nothing THEN FreshEntry ELSE {entity[r].id} :
          Put(r, [entity[r] EXCEPT !.id = i])
    BY <1>2 DEF Insert
  <2> DEFINE e == [entity[r] EXCEPT !.id = i]
  <2>2. /\ pc[r] = "insert" /\ pc[r] \in Saving /\ CarriedAt(r) /\ TypeOK
        /\ entity[r] \in Entities
    BY DEF Insert, CarriedAt, Saving, IInv, Carried
  <2>3. i \in EntryIds
    BY <2>1, <2>2 DEF FreshEntry, Entities
  <2>4. e \in Entries /\ e.status = entity[r].status /\ e.day = entity[r].day
    BY <2>2, <2>3 DEF Entities, Entries
  <2>5. CarriedAt(r)'
    BY <2>1, <2>2, <2>4, PutMoves
  <2>6. ASSUME ~crossed, Alone(r)
        PROVE  /\ op[r] # "remove" /\ Made(e) # Nothing /\ Dated(Made(e))
               /\ Made(e).status = "want_to_watch" => review = Nothing
               /\ op[r] \in {"review", "edit"} => Made(e).status = "watched"
    <3>1. Made(e) = e /\ e # Nothing
      BY <2>4, KeepAssumption, NothingAssumption DEF Made
    <3>2. Dated(e)
      BY <2>2, <2>4, <2>6, SavingKnows DEF Dated
    <3> QED BY <2>2, <2>4, <2>6, <3>1, <3>2, SavingKnows
  <2> QED BY <2>1, <2>2, <2>4, <2>5, <2>6, PutRight
<1> QED BY <1>1, <1>2

\* A removal deletes the reviews.
LEMMA RemoveReviewsRight ==
    ASSUME IInv, NEW r \in Requests, Frame(r), RemoveReviews(r)
    PROVE  Rightly'
<1> DEFINE l == IF review = Nothing THEN "unlist" ELSE "cascade"
<1>1. /\ pc[r] = "reviews" /\ pc' = [pc EXCEPT ![r] = l]
      /\ mine' = [mine EXCEPT ![r] = review]
      /\ UNCHANGED <<data, op, given, seen, entity, dirty, next, shed, history>>
  BY DEF RemoveReviews, Goto, After
<1>2. Quiet(r) /\ pc'[r] = l /\ mine'[r] = review
  BY <1>1 DEF Quiet, data, history, IInv, TypeOK
<1>3. op[r] = "remove"
  BY <1>1 DEF IInv, Carried, CarriedAt, Places, Saving, TypeOK, Ops
<1>4. ASSUME ~crossed, Alone(r)' PROVE Right(r)'
  <2>1. Alone(r) /\ Right(r)
    BY <1>1, <1>3, <1>4, AloneBefore DEF Start, IInv, Rightly
  <2>2. /\ review' = review /\ entry' = entry /\ op' = op /\ entity' = entity
    BY <1>1 DEF data
  <2> QED BY <1>2, <1>3, <2>1, <2>2 DEF Right, Saving
<1> QED BY <1>2, <1>4, QuietRight DEF Right

\* ... with their likes,
LEMMA CascadeRight ==
    ASSUME IInv, NEW r \in Requests, Frame(r), Cascade(r)
    PROVE  Rightly'
<1> DEFINE l == IF op[r] = "remove" THEN "unlist" ELSE "seal"
<1>1. /\ pc[r] = "cascade" /\ pc' = [pc EXCEPT ![r] = l]
      /\ UNCHANGED <<data, op, given, seen, entity, dirty, mine, next, history>>
  BY DEF Cascade, Goto, After
<1>2. Quiet(r) /\ pc'[r] = l
  BY <1>1 DEF Quiet, data, history, IInv, TypeOK
<1>3. op[r] \in {"remove", "unreview"}
  BY <1>1 DEF IInv, Carried, CarriedAt, Places, Saving, TypeOK, Ops
<1>4. ASSUME ~crossed, Alone(r)' PROVE Right(r)'
  <2>1. Alone(r) /\ Right(r)
    BY <1>1, <1>3, <1>4, AloneBefore DEF Start, IInv, Rightly
  <2>2. /\ review' = review /\ entry' = entry /\ op' = op /\ entity' = entity /\ mine' = mine
    BY <1>1 DEF data
  <2> QED BY <1>1, <1>2, <1>3, <2>1, <2>2 DEF Right, Saving
<1> QED BY <1>2, <1>4, QuietRight DEF Right

\* ... and the entry.
LEMMA UnlistRight ==
    ASSUME IInv, NEW r \in Requests, Frame(r), Unlist(r)
    PROVE  Rightly'
<1> DEFINE e == IF entry = Nothing \/ entry.id # entity[r].id THEN Keep ELSE Nothing
<1>1. pc[r] = "unlist" /\ CarriedAt(r) /\ TypeOK /\ Put(r, e)
  BY DEF Unlist, IInv, Carried
<1>2. op[r] = "remove" /\ CarriedAt(r)'
  BY <1>1, PutMoves DEF CarriedAt, Places, Saving, TypeOK, Ops
<1>3. ASSUME ~crossed, Alone(r) PROVE e = Nothing
  BY <1>2, <1>3 DEF IInv, Rightly, Right
<1> QED BY <1>1, <1>2, <1>3, PutRight

\* A new review looks for an old one.
LEMMA LookRight ==
    ASSUME IInv, NEW r \in Requests, Frame(r), Look(r)
    PROVE  Rightly'
<1>1. CASE Drop(r)
  BY <1>1, DropMoves, DropRight DEF IInv
<1>2. CASE ~Drop(r)
  <2>1. review = Nothing /\ Only(r, "plant") /\ op[r] = "review"
    BY <1>2 DEF Look, IInv, Carried, CarriedAt, Places, Saving, TypeOK, Ops
  <2>2. pc'[r] = "plant" /\ UNCHANGED <<data, carried, history>>
    BY <2>1, OnlyMoves DEF IInv, Labels
  <2>3. Quiet(r) /\ Right(r)'
    BY <2>1, <2>2 DEF Quiet, data, history, carried, Right, Saving
  <2> QED BY <2>3, QuietRight
<1> QED BY <1>1, <1>2

\* Inserting the review.
LEMMA PlantRight ==
    ASSUME IInv, NEW r \in Requests, Frame(r), Plant(r)
    PROVE  Rightly'
<1>1. CASE Drop(r)
  BY <1>1, DropMoves, DropRight DEF IInv
<1>2. CASE ~Drop(r)
  <2>1. /\ review = Nothing /\ pc' = [pc EXCEPT ![r] = "peek"] /\ op[r] = "review"
        /\ UNCHANGED <<data, op, given, seen, entity, dirty, next, shed, history>>
    BY <1>2 DEF Plant, Goto, IInv, Carried, CarriedAt, Places, Saving, TypeOK, Ops
  <2>2. Quiet(r) /\ pc'[r] = "peek"
    BY <2>1 DEF Quiet, data, history, IInv, TypeOK
  <2>3. Right(r)'
    BY <2>1, <2>2 DEF data, Right, Saving
  <2> QED BY <2>2, <2>3, QuietRight
<1> QED BY <1>1, <1>2

\* ... and looking at the entry.
LEMMA PeekRight ==
    ASSUME IInv, NEW r \in Requests, Frame(r), Peek(r)
    PROVE  Rightly'
<1>1. pc[r] = "peek" /\ op[r] = "review" /\ next[r] = Keep /\ given[r].status = "watched"
  BY DEF Peek, IInv, Carried, CarriedAt, Places, Saving, TypeOK, Ops, Sent
<1>2. PICK l \in {"seal", "find"} :
        Only(r, l) /\ (l = "seal" => entry # Nothing /\ entry.status = "watched")
  BY DEF Peek
<1>3. pc'[r] = l /\ UNCHANGED <<data, carried, history>>
  BY <1>2, OnlyMoves DEF IInv, Labels
<1>4. Quiet(r)
  BY <1>3 DEF Quiet, data, history
<1>5. ASSUME ~crossed, Alone(r)' PROVE Right(r)'
  <2>1. review = Nothing
    BY <1>1, <1>3, <1>5, AloneBefore DEF Start, carried, IInv, Rightly, Right
  <2> QED BY <1>1, <1>2, <1>3, <2>1 DEF Right, Saving, carried, data
<1> QED BY <1>4, <1>5, QuietRight DEF Right

\* Reading the review that is edited or removed.
LEMMA ReadRight ==
    ASSUME IInv, NEW r \in Requests, Frame(r), ReadReview(r) \/ Sight(r)
    PROVE  Rightly'
<1>1. CASE Drop(r)
  BY <1>1, DropMoves, DropRight DEF IInv
<1>2. CASE ~Drop(r)
  <2>1. /\ review # Nothing /\ seen' = [seen EXCEPT ![r] = review]
        /\ UNCHANGED <<data, op, given, entity, dirty, mine, next, shed, history>>
    BY <1>2 DEF ReadReview, Sight
  <2>2. PICK l \in {"find", "unlike", "drop"} :
          /\ pc' = [pc EXCEPT ![r] = l]
          /\ (l = "drop" /\ pc[r] = "sight") \/ (l # "drop" /\ pc[r] = "read")
    <3>1. CASE ReadReview(r)
      BY <1>2, <3>1 DEF ReadReview, Goto
    <3>2. CASE Sight(r)
      BY <1>2, <3>2 DEF Sight, Goto
    <3> QED BY <3>1, <3>2
  <2>3. CarriedAt(r) /\ TypeOK
    BY DEF IInv, Carried
  <2>4. /\ (op[r] = "edit" /\ l # "drop") \/ (op[r] = "unreview" /\ l = "drop")
        /\ mine[r] = Nothing
    BY <2>2, <2>3 DEF CarriedAt, Places, Saving, TypeOK, Ops
  <2>5. op[r] = "edit" => given[r].status = "watched"
    BY <2>3 DEF CarriedAt, Sent
  <2>6. Quiet(r) /\ pc'[r] = l /\ seen'[r] = review
    BY <2>1, <2>2, <2>3 DEF Quiet, data, history, TypeOK
  <2>7. Right(r)'
    BY <2>1, <2>4, <2>5, <2>6 DEF Right, Saving, data
  <2> QED BY <2>6, <2>7, QuietRight
<1> QED BY <1>1, <1>2

\* Deleting the likes of an edited review.
LEMMA UnlikeRight ==
    ASSUME IInv, NEW r \in Requests, Frame(r), Unlike(r)
    PROVE  Rightly'
<1>1. /\ pc[r] = "unlike" /\ pc' = [pc EXCEPT ![r] = "hold"]
      /\ UNCHANGED <<data, op, given, seen, entity, dirty, mine, next, history>>
  BY DEF Unlike, Goto
<1>2. op[r] = "edit"
  BY <1>1 DEF IInv, Carried, CarriedAt, Places, Saving, TypeOK, Ops
<1>3. Quiet(r) /\ pc'[r] = "hold"
  BY <1>1 DEF Quiet, data, history, IInv, TypeOK
<1>4. ASSUME ~crossed, Alone(r)' PROVE Right(r)'
  <2>1. Alone(r) /\ Right(r)
    BY <1>1, <1>2, <1>4, AloneBefore DEF Start, IInv, Rightly
  <2> QED BY <1>1, <1>2, <1>3, <2>1 DEF Right, Saving, data
<1> QED BY <1>3, <1>4, QuietRight DEF Right

\* ... and saving it.
LEMMA HoldRight ==
    ASSUME IInv, NEW r \in Requests, Frame(r), Hold(r)
    PROVE  Rightly'
<1>1. /\ pc[r] = "hold" /\ pc' = [pc EXCEPT ![r] = "find"]
      /\ UNCHANGED <<data, op, given, seen, entity, dirty, next, shed, history>>
  BY DEF Hold, Goto
<1>2. op[r] = "edit" /\ given[r].status = "watched"
  BY <1>1 DEF IInv, Carried, CarriedAt, Places, Saving, TypeOK, Ops, Sent
<1>3. Quiet(r) /\ pc'[r] = "find"
  BY <1>1 DEF Quiet, data, history, IInv, TypeOK
<1>4. ASSUME ~crossed, Alone(r)' PROVE Right(r)'
  <2>1. Alone(r) /\ Right(r)
    BY <1>1, <1>2, <1>4, AloneBefore DEF Start, IInv, Rightly
  <2>2. review # Nothing /\ seen[r] = review /\ mine[r] \in {Nothing, review}
    BY <1>2, <2>1 DEF Right
  <2>3. mine'[r] \in {Nothing, review}
    BY <2>2 DEF Hold, IInv, TypeOK
  <2> QED BY <1>1, <1>2, <1>3, <2>2, <2>3 DEF Right, Saving, data
<1> QED BY <1>3, <1>4, QuietRight DEF Right

\* A commit.
LEMMA SealRight ==
    ASSUME IInv, NEW r \in Requests, Frame(r), Seal(r)
    PROVE  Rightly'
<1>1. Leave(r, Sealed(r), Listed(r)) /\ pc[r] = "seal"
  BY DEF Seal, Sealed, Listed
<1>2. op'[r] = "none"
  BY <1>1 DEF Leave, End, IInv, TypeOK
<1>3. op[r] \in {"remove", "review", "edit", "unreview"}
  BY <1>1 DEF IInv, Carried, CarriedAt, Places, Saving, TypeOK, Ops
<1>4. ASSUME ~crossed, r \notin touched
      PROVE  /\ Sealed(r) # Nothing => Listed(r) # Nothing /\ Listed(r).status = "watched"
             /\ Listed(r) # Nothing => Dated(Listed(r))
  <2>1. Alone(r) /\ Right(r) /\ Agree /\ CarriedAt(r)
    BY <1>1, <1>3, <1>4 DEF Alone, Start, IInv, Rightly, Carried
  <2>2. CASE op[r] = "remove"
    <3>1. mine[r] = review /\ next[r] = Nothing
      BY <1>1, <2>1, <2>2 DEF Right
    <3> QED BY <2>2, <3>1, KeepAssumption DEF Sealed, Listed
  <2>3. CASE op[r] \in {"review", "edit"}
    <3>1. IF next[r] = Keep THEN entry # Nothing /\ entry.status = "watched"
          ELSE next[r] \in Entries /\ next[r].status = "watched" /\ next[r].day # Nothing
      BY <1>1, <2>1, <2>3 DEF Right
    <3>2. Listed(r) # Nothing /\ Listed(r).status = "watched" /\ Dated(Listed(r))
      BY <2>1, <3>1, NothingAssumption DEF Listed, Agree, Dated
    <3> QED BY <3>2
  <2>4. CASE op[r] = "unreview"
    <3>1. mine[r] # Nothing /\ next[r] = Keep
      BY <1>1, <2>1, <2>4 DEF CarriedAt
    <3> QED BY <2>1, <2>4, <3>1 DEF Sealed, Listed, Agree, Dated
  <2> QED BY <1>3, <2>2, <2>3, <2>4
<1> QED BY <1>1, <1>2, <1>4, LeaveRight

\* Deleting a review by itself.
LEMMA DropReviewRight ==
    ASSUME IInv, NEW r \in Requests, Frame(r), DropReview(r)
    PROVE  Rightly'
<1>1. CASE Drop(r)
  BY <1>1, DropMoves, DropRight DEF IInv
<1>2. CASE ~Drop(r)
  <2>1. /\ pc[r] = "drop" /\ pc' = [pc EXCEPT ![r] = "cascade"]
        /\ UNCHANGED <<data, op, given, seen, entity, dirty, next, shed, history>>
    BY <1>2 DEF DropReview, Goto
  <2>2. op[r] = "unreview" /\ Quiet(r) /\ pc'[r] = "cascade"
    BY <2>1 DEF Quiet, data, history, IInv, Carried, CarriedAt, Places, Saving, TypeOK, Ops
  <2>3. Right(r)'
    BY <2>1, <2>2 DEF Right, Saving
  <2> QED BY <2>2, <2>3, QuietRight
<1> QED BY <1>1, <1>2

\* A request begins.
LEMMA BeginRight ==
    ASSUME IInv, NEW r \in Requests, Frame(r), Begin(r)
    PROVE  Rightly'
<1>1. PICK o \in Ops, i \in Inputs :
        /\ op' = [op EXCEPT ![r] = o] /\ given' = [given EXCEPT ![r] = i]
        /\ pc' = [pc EXCEPT ![r] = Start(o, i)]
  BY DEF Begin, Goto
<1>2. pc'[r] = Start(op'[r], given'[r])
  BY <1>1 DEF IInv, TypeOK
<1>3. Quiet(r)
  BY DEF Begin, Quiet, data, history
<1> QED BY <1>2, <1>3, QuietRight DEF Right, Alone

\* The invariant holds at first.
LEMMA IInvInit == Init => IInv
<1> SUFFICES ASSUME Init PROVE IInv
  OBVIOUS
<1>1. TypeOK /\ Carried /\ Locked
  BY TInvInit DEF TInv
<1>2. Rightly
  BY DEF Init, Rightly, Agree, Right, Alone
<1> QED BY <1>1, <1>2 DEF IInv

\* ... and by every step.
LEMMA IInvNext == IInv /\ [Next]_vars => IInv'
<1> SUFFICES ASSUME IInv, [Next]_vars PROVE IInv'
  OBVIOUS
<1>0. TypeOK' /\ Carried' /\ Locked'
  BY TInvNext DEF TInv, IInv
<1>1. CASE Next
  <2>1. PICK r \in Requests : Begin(r) \/ Step(r) \/ Abort(r)
    BY <1>1 DEF Next
  <2>2. Moves(r) /\ DataTypes'
    BY <2>1, StepMoves DEF IInv, Carried
  <2>3. Frame(r)
    BY <2>2, MovesTypes DEF IInv
  <2>7. Rightly'
    <3>4. CASE Abort(r) \/ HoldFails(r) \/ Deadlock(r)
      BY <2>3, <3>4, DropMoves, DropRight DEF Abort, HoldFails, Deadlock, IInv
    <3>5. CASE Begin(r)
      BY <2>3, <3>5, BeginRight
    <3>6. CASE Step(r)
      BY <2>3, <3>4, <3>6, CheckRight, FindRight, PickRight, LoadRight, WriteRight,
         InsertRight, RemoveReviewsRight, CascadeRight, UnlistRight, LookRight, PlantRight,
         PeekRight, ReadRight, UnlikeRight, HoldRight, SealRight, DropReviewRight DEF Step
    <3> QED BY <2>1, <3>4, <3>5, <3>6
  <2> QED BY <1>0, <2>7 DEF IInv
<1>2. CASE UNCHANGED vars
  <2>1. Rightly'
    BY <1>2 DEF vars, data, carried, history, IInv, Rightly, Agree, Right, Alone, Dated
  <2> QED BY <1>0, <2>1 DEF IInv
<1> QED BY <1>1, <1>2

\* The inductive invariant of the specification.
THEOREM ShelfInvariant == Spec => []IInv
BY IInvInit, IInvNext, PTL DEF Spec

\* What is reviewed has been watched, and what has been watched has a date,
\* as long as no change has overlapped another.
THEOREM ReviewAndEntryAgree == Spec => []ReviewedIsWatched
<1>1. IInv => ReviewedIsWatched
  BY DEF IInv, Rightly, ReviewedIsWatched
<1> QED BY <1>1, IInvInit, IInvNext, PTL DEF Spec

-----------------------------------------------------------------------------
(* The refinement: what a request leaves is one move of ReviewedShelf.      *)

\* Requests change review and entry when they write or insert an entry by itself, and when
\* they commit.
LEMMA ChangesWhere ==
    ASSUME NEW r \in Requests, Begin(r) \/ Step(r) \/ Abort(r)
    PROVE  \/ UNCHANGED data
           \/ Write(r) \/ Insert(r) \/ Unlist(r) \/ Seal(r)
<1>1. CASE Begin(r)
  BY <1>1 DEF Begin
<1>2. ASSUME Drop(r) PROVE UNCHANGED data
  BY <1>2 DEF Drop, Leave, data
<1>3. ASSUME NEW l, Only(r, l) PROVE UNCHANGED data
  BY <1>3 DEF Only
<1>4. ASSUME Put(r, Keep) PROVE UNCHANGED data
  BY <1>4 DEF Put, Leave, data
<1>5. CASE Abort(r) \/ HoldFails(r) \/ Deadlock(r)
  BY <1>2, <1>5 DEF Abort, HoldFails, Deadlock
<1>6. CASE Check(r) \/ Find(r) \/ Pick(r) \/ Load(r)
  BY <1>2, <1>3, <1>4, <1>6 DEF Check, Find, Pick, Load
<1>7. CASE RemoveReviews(r) \/ Cascade(r) \/ Look(r) \/ Plant(r) \/ Peek(r) \/ ReadReview(r)
  BY <1>2, <1>3, <1>7 DEF RemoveReviews, Cascade, Look, Plant, Peek, ReadReview
<1>8. CASE Unlike(r) \/ Hold(r) \/ Sight(r) \/ DropReview(r)
  BY <1>2, <1>8 DEF Unlike, Hold, Sight, DropReview
<1> QED BY <1>1, <1>5, <1>6, <1>7, <1>8 DEF Step

\* Once changes have crossed they have, until the title goes.
LEMMA CrossedStays ==
    ASSUME NEW r \in Requests, Begin(r) \/ Step(r) \/ Abort(r), crossed, ~Emptied \/ UNCHANGED data
    PROVE  crossed'
<1>1. ASSUME NEW v, NEW e, Leave(r, v, e) PROVE crossed'
  BY <1>1 DEF Leave, Emptied, data
<1>2. ASSUME Drop(r) PROVE crossed'
  BY <1>1, <1>2 DEF Drop
<1>3. ASSUME NEW l, Only(r, l) PROVE crossed'
  BY <1>3 DEF Only, history
<1>4. ASSUME NEW e, Put(r, e) PROVE crossed'
  BY <1>1, <1>4 DEF Put, history
<1>5. CASE Begin(r) \/ Abort(r) \/ HoldFails(r) \/ Deadlock(r)
  BY <1>2, <1>5 DEF Begin, Abort, HoldFails, Deadlock, history
<1>6. CASE Check(r) \/ Find(r) \/ Pick(r) \/ Load(r)
  BY <1>2, <1>3, <1>4, <1>6 DEF Check, Find, Pick, Load, history
<1>7. CASE RemoveReviews(r) \/ Cascade(r) \/ Look(r) \/ Plant(r) \/ Peek(r) \/ ReadReview(r)
  BY <1>2, <1>3, <1>7 DEF RemoveReviews, Cascade, Look, Plant, Peek, ReadReview, history
<1>8. CASE Unlike(r) \/ Hold(r) \/ Sight(r) \/ Seal(r) \/ DropReview(r)
  BY <1>1, <1>2, <1>8 DEF Unlike, Hold, Sight, Seal, DropReview, history
<1>9. CASE Write(r) \/ Insert(r) \/ Unlist(r)
  BY <1>2, <1>4, <1>9 DEF Write, Insert, Unlist
<1> QED BY <1>5, <1>6, <1>7, <1>8, <1>9 DEF Step

\* A step that leaves the promise standing begins and ends where the rows agree.
LEMMA Standing ==
    ASSUME IInv, NEW r \in Requests, NEW v, NEW e, Leave(r, v, e), ~crossed',
           ~Emptied \/ UNCHANGED data
    PROVE  /\ ~crossed /\ Agree
           /\ review' = v /\ entry' = e
           /\ UNCHANGED data \/ r \notin touched
BY DEF IInv, TypeOK, Rightly, Leave, data, Emptied

\* A row that is put on the list while the review stays as it is: want or watch.
LEMMA EntryMove ==
    ASSUME IInv, IInv', ~crossed, ~crossed', review' = review, entry' # Nothing
    PROVE  Shelf!Promised
<1>1. /\ entry' \in Entries /\ Agree'
      /\ entry'.status \in {"want_to_watch", "watched"}
      /\ entry'.day \in Days \cup {Nothing}
  BY DEF IInv, TypeOK, Rightly, Entries, Statuses
<1>2. UNCHANGED crossed
  BY DEF IInv, TypeOK
<1>3. CASE entry'.status = "want_to_watch"
  <2>1. review = Nothing /\ entry'.day = Nothing
    BY <1>1, <1>3 DEF Agree
  <2>2. Shelf!Want
    BY <1>3, <2>1 DEF Shelf!Want
  <2> QED BY <1>2, <2>2 DEF Shelf!Promised
<1>4. CASE entry'.status = "watched"
  <2>1. entry'.day \in Days
    BY <1>1, <1>4 DEF Agree
  <2>2. Shelf!Watch
    BY <1>4, <2>1 DEF Shelf!Watch
  <2> QED BY <1>2, <2>2 DEF Shelf!Promised
<1> QED BY <1>1, <1>3, <1>4

\* A statement on the entry is such a move, or the transaction hides it.
LEMMA PutMove ==
    ASSUME IInv, IInv', NEW r \in Requests, NEW e \in Entries \cup {Keep}, Put(r, e), ~crossed',
           ~Emptied \/ UNCHANGED data
    PROVE  UNCHANGED data \/ Shelf!Promised
<1>1. CASE Transaction(r)
  BY <1>1 DEF Put
<1>2. CASE ~Transaction(r)
  <2>1. Leave(r, review, IF e = Keep THEN entry ELSE e)
    BY <1>2 DEF Put
  <2>2. ~crossed /\ review' = review /\ entry' = IF e = Keep THEN entry ELSE e
    BY <2>1, Standing
  <2>3. CASE e = Keep
    BY <2>2, <2>3 DEF data
  <2>4. CASE e # Keep
    <3>1. entry' # Nothing
      BY <2>2, <2>4, NothingAssumption
    <3> QED BY <2>2, <3>1, EntryMove
  <2> QED BY <2>3, <2>4
<1> QED BY <1>1, <1>2

\* What a transaction commits is one move as well.
LEMMA SealMove ==
    ASSUME IInv, IInv', NEW r \in Requests, Seal(r), ~crossed', ~Emptied \/ UNCHANGED data
    PROVE  UNCHANGED data \/ Shelf!Promised
<1>1. Leave(r, Sealed(r), Listed(r)) /\ pc[r] = "seal"
  BY DEF Seal, Sealed, Listed
<1>2. /\ ~crossed /\ Agree /\ review' = Sealed(r) /\ entry' = Listed(r)
      /\ UNCHANGED data \/ r \notin touched
  BY <1>1, Standing
<1>3. op[r] \in {"remove", "review", "edit", "unreview"}
  BY <1>1 DEF IInv, Carried, CarriedAt, Places, Saving, TypeOK, Ops
<1>4. SUFFICES ASSUME r \notin touched PROVE UNCHANGED data \/ Shelf!Promised
  BY <1>2
<1>5. Alone(r) /\ Right(r) /\ CarriedAt(r)
  BY <1>1, <1>2, <1>3, <1>4 DEF Alone, Start, IInv, Rightly, Carried
<1>6. UNCHANGED crossed /\ Agree' /\ TypeOK'
  BY <1>2 DEF IInv, TypeOK, Rightly
<1>7. CASE op[r] = "remove"
  <2>1. /\ mine[r] = review /\ next[r] = Nothing
        /\ entry # Nothing /\ entry.status # Nothing
    BY <1>1, <1>5, <1>7, NothingAssumption DEF Right, IInv, TypeOK, Entries
  <2>2. review' = Nothing /\ entry' = Nothing
    BY <1>2, <1>7, <2>1, KeepAssumption DEF Sealed, Listed
  <2> QED BY <2>2 DEF Emptied
<1>8. CASE op[r] = "review"
  <2>1. review = Nothing /\ mine[r] # Nothing
    BY <1>1, <1>5, <1>8 DEF Right, CarriedAt
  <2>2. review' # Nothing
    BY <1>2, <1>8, <2>1 DEF Sealed
  <2>3. entry' # Nothing /\ entry'.status = "watched" /\ entry'.day \in Days
    BY <1>6, <2>2 DEF Agree, TypeOK, Entries
  <2>4. Shelf!Review
    BY <2>1, <2>2, <2>3 DEF Shelf!Review
  <2> QED BY <1>6, <2>4 DEF Shelf!Promised
<1>9. CASE op[r] = "edit"
  <2>1. review # Nothing /\ mine[r] \in {Nothing, review}
    BY <1>5, <1>9 DEF Right
  <2>2. review' = review
    BY <1>2, <1>9, <2>1 DEF Sealed
  <2>3. entry' # Nothing
    BY <1>6, <2>1, <2>2 DEF Agree
  <2> QED BY <1>2, <2>2, <2>3, EntryMove
<1>10. CASE op[r] = "unreview"
  <2>1. mine[r] # Nothing /\ next[r] = Keep /\ review = mine[r]
    BY <1>1, <1>5, <1>10 DEF CarriedAt, IInv, Locked
  <2>2. review # Nothing /\ review' = Nothing /\ entry' = entry
    BY <1>2, <1>10, <2>1 DEF Sealed, Listed
  <2>3. Shelf!Unreview
    BY <2>2 DEF Shelf!Unreview
  <2> QED BY <1>6, <2>3 DEF Shelf!Promised
<1> QED BY <1>3, <1>7, <1>8, <1>9, <1>10

\* Every step is a move of the shelf, or changes nothing of it.
LEMMA ShelfMoves ==
    ASSUME IInv, IInv', [Next]_vars
    PROVE  [Shelf!Next]_Shelf!vars
<1>1. CASE crossed' = TRUE
  <2>1. entry' # Nothing => /\ entry'.status \in {"want_to_watch", "watched"}
                            /\ entry'.day \in Days \cup {Nothing}
    BY DEF IInv, TypeOK, Entries, Statuses
  <2>2. Shelf!Tear
    BY <1>1, <2>1 DEF Shelf!Tear
  <2> QED BY <2>2 DEF Shelf!Next
<1>2. CASE ~crossed' /\ Emptied /\ ~UNCHANGED data
  <2>1. CASE crossed
    <3>1. Shelf!Mend
      BY <1>2, <2>1 DEF Emptied, Shelf!Mend
    <3> QED BY <3>1 DEF Shelf!Next
  <2>2. CASE ~crossed
    <3>1. entry # Nothing /\ entry.status # Nothing /\ UNCHANGED crossed
      BY <1>2, <2>2, NothingAssumption
      DEF IInv, TypeOK, Rightly, Agree, Emptied, data, Entries
    <3>2. Shelf!Unlist
      BY <1>2, <3>1 DEF Emptied, Shelf!Unlist
    <3> QED BY <3>1, <3>2 DEF Shelf!Next, Shelf!Promised
  <2> QED BY <2>1, <2>2 DEF IInv, TypeOK
<1>3. CASE ~crossed' /\ (~Emptied \/ UNCHANGED data)
  <2>1. ASSUME UNCHANGED <<data, crossed>> PROVE UNCHANGED Shelf!vars
    BY <2>1 DEF data, Shelf!vars
  <2>2. CASE UNCHANGED vars
    BY <2>1, <2>2 DEF vars, history
  <2>3. CASE Next
    <3>1. PICK r \in Requests : Begin(r) \/ Step(r) \/ Abort(r)
      BY <2>3 DEF Next
    <3>2. UNCHANGED data \/ Shelf!Promised
      <4>1. CASE Write(r)
        <5>1. (IF entry = Nothing \/ entry.id # entity[r].id THEN Keep ELSE Merged(r))
                \in Entries \cup {Keep}
          BY <4>1 DEF Write, IInv, Carried, CarriedAt, Saving, TypeOK, Merged, Entries,
                      Entities
        <5> QED BY <1>3, <4>1, <5>1, PutMove DEF Write
      <4>2. CASE Insert(r)
        <5>1. CASE Drop(r)
          BY <5>1 DEF Drop, Leave, data
        <5>2. CASE ~Drop(r)
          <6>1. PICK i \in IF entity[r].id = Nothing THEN FreshEntry ELSE {entity[r].id} :
                  Put(r, [entity[r] EXCEPT !.id = i])
            BY <4>2, <5>2 DEF Insert
          <6>2. entity[r] \in Entities
            BY <4>2 DEF Insert, IInv, Carried, CarriedAt, Saving
          <6>3. [entity[r] EXCEPT !.id = i] \in Entries
            BY <6>1, <6>2 DEF FreshEntry, Entities, Entries
          <6> QED BY <1>3, <6>1, <6>3, PutMove
        <5> QED BY <5>1, <5>2
      <4>3. CASE Unlist(r)
        <5>1. op[r] = "remove"
          BY <4>3 DEF Unlist, IInv, Carried, CarriedAt, Places, Saving, TypeOK, Ops
        <5> QED BY <4>3, <5>1 DEF Unlist, Put, Transaction
      <4>4. CASE Seal(r)
        BY <1>3, <4>4, SealMove
      <4> QED BY <3>1, <4>1, <4>2, <4>3, <4>4, ChangesWhere
    <3>3. ~crossed
      <4>1. crossed => crossed'
        BY <1>3, <3>1, CrossedStays DEF IInv
      <4> QED BY <1>3, <4>1
    <3>4. UNCHANGED crossed
      BY <1>3, <3>3 DEF IInv, TypeOK
    <3> QED BY <2>1, <3>2, <3>4 DEF Shelf!Next
  <2> QED BY <2>2, <2>3
<1> QED BY <1>1, <1>2, <1>3 DEF IInv, TypeOK

\* Whatever the requests and however they interleave, until two changes cross, and again when
\* the title has been removed, each of them changes review and entry in one move that the shelf allows.
THEOREM ShelfIsImplemented == Spec => ImplementsReviewedShelf
<1>1. Init => Shelf!Init
  BY DEF Init, Shelf!Init
<1>2. IInv /\ IInv' /\ [Next]_vars => [Shelf!Next]_Shelf!vars
  BY ShelfMoves
<1> QED BY <1>1, <1>2, ShelfInvariant, PTL DEF Spec, ImplementsReviewedShelf, Shelf!Spec
=============================================================================
