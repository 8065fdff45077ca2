--------------------------- MODULE WatchlistReview ---------------------------
(***************************************************************************)
(* backend/src/watchlist and backend/src/reviews: the watchlist entry and  *)
(* the review that one user has of one title, while they are added,        *)
(* changed and removed by requests that run at the same time.              *)
(*                                                                         *)
(* Creating, editing and removing a review and removing an entry are       *)
(* transactions (READ COMMITTED): what they insert, update or delete is    *)
(* locked, and not seen by others, until they commit.  Elsewhere a         *)
(* statement commits by itself.  save of an entity that has an id is a     *)
(* SELECT that finds the columns in which it differs from the row, and an  *)
(* UPDATE of those, or an INSERT when it finds no row.                     *)
(*                                                                         *)
(* The likes of the review are deleted by an edit, before it saves the     *)
(* review, and with the review (ON DELETE CASCADE), after it.  Whether it  *)
(* has any when a DELETE looks for them is open: see ReviewLikes.          *)
(***************************************************************************)
EXTENDS FiniteSets

CONSTANTS
    Requests,    \* requests in flight at once
    EntryIds, ReviewIds,
    Days,        \* dates of watching
    CutOff,      \* the requests that may be cut off at any point
    Nothing,     \* no row, no id, no date
    Keep         \* the entry is left as it is

Statuses == {"want_to_watch", "watched"}
Entries  == [id : EntryIds, status : Statuses, day : Days \cup {Nothing}]
Columns  == {"status", "day"}

ASSUME NothingAssumption ==
    Nothing \notin EntryIds \cup ReviewIds \cup Days \cup Statuses \cup Entries
ASSUME KeepAssumption == Keep \notin Entries \cup {Nothing}

VARIABLES
    review,     \* the id of the review
    entry,      \* the row of the watchlist
    op, pc,     \* what each request does, and where it is
    given,      \* the status and the date it was sent
    seen,       \* the review it has read
    entity,     \* the entry it has read and changed
    dirty,      \* the columns its save will write
    mine,       \* the review its transaction has inserted, updated or deleted
    next,       \* ... what it has made of the entry
    shed,       \* ... and the review whose likes it has deleted
    \* history, for the properties
    touched,    \* requests that overlap a change by somebody else
    crossed     \* one of them has changed something, and the title has not gone since

data    == <<review, entry>>
carried == <<op, given, seen, entity, dirty, mine, next, shed>>
history == <<touched, crossed>>
vars    == <<data, pc, carried, history>>

Inputs == [status : Statuses \cup {Nothing}, day : Days \cup {Nothing}]
Ops    == {"add", "change", "remove", "review", "edit", "unreview"}
Labels == {"idle", "check", "find", "pick", "load", "write", "insert", "seal",
           "look", "plant", "peek", "read", "unlike", "hold", "reviews", "cascade",
           "unlist", "sight", "drop"}

\* Explicit transactions keep what they have locked until they commit.
Transaction(r) == op[r] \in {"remove", "review", "edit", "unreview"}

-----------------------------------------------------------------------------
Init ==
    /\ review = Nothing /\ entry = Nothing
    /\ op = [r \in Requests |-> "none"]
    /\ pc = [r \in Requests |-> "idle"]
    /\ given = [r \in Requests |-> Nothing]
    /\ seen = [r \in Requests |-> Nothing]
    /\ entity = [r \in Requests |-> Nothing]
    /\ dirty = [r \in Requests |-> {}]
    /\ mine = [r \in Requests |-> Nothing]
    /\ next = [r \in Requests |-> Keep]
    /\ shed = [r \in Requests |-> Nothing]
    /\ touched = {} /\ crossed = FALSE

Goto(r, l) == pc' = [pc EXCEPT ![r] = l]

End(r) ==
    /\ Goto(r, "idle")
    /\ op' = [op EXCEPT ![r] = "none"]
    /\ given' = [given EXCEPT ![r] = Nothing]
    /\ seen' = [seen EXCEPT ![r] = Nothing]
    /\ entity' = [entity EXCEPT ![r] = Nothing]
    /\ dirty' = [dirty EXCEPT ![r] = {}]
    /\ mine' = [mine EXCEPT ![r] = Nothing]
    /\ next' = [next EXCEPT ![r] = Keep]
    /\ shed' = [shed EXCEPT ![r] = Nothing]

\* The place a request begins at.
Start(o, i) ==
    CASE o = "add" -> IF i.status = "want_to_watch" THEN "check" ELSE "find"
      [] o \in {"change", "remove"} -> "pick"
      [] o = "review" -> "look"
      [] o = "edit" -> "read"
      [] o = "unreview" -> "sight"

\* Requests that have begun to read or write.
Underway == {q \in Requests : pc[q] # "idle" /\ pc[q] # Start(op[q], given[q])}

\* The request ends and leaves review and entry as given.
Leave(r, newReview, newEntry) ==
    /\ review' = newReview /\ entry' = newEntry
    /\ End(r)
    /\ IF newReview = review /\ newEntry = entry
         THEN touched' = touched \ {r} /\ UNCHANGED crossed
         ELSE /\ touched' = (touched \cup Underway) \ {r}
              /\ crossed' = /\ crossed \/ r \in touched
                            /\ newReview # Nothing \/ newEntry # Nothing

\* It ends without a change: refused, failed or rolled back.
Drop(r)  == Leave(r, review, entry)
Abort(r) == r \in CutOff /\ pc[r] # "idle" /\ Drop(r)

Only(r, l) == Goto(r, l) /\ UNCHANGED <<data, carried, history>>

\* An id that no row and no request knows.
FreshEntry  == EntryIds \ ({entity[q].id : q \in {p \in Requests : entity[p] # Nothing}}
                 \cup {next[q].id : q \in {p \in Requests : next[p] \in Entries}}
                 \cup (IF entry = Nothing THEN {} ELSE {entry.id}))
FreshReview == ReviewIds \ ({review} \cup {seen[q] : q \in Requests}
                                     \cup {mine[q] : q \in Requests})

\* The transactions that hold the review's or the entry's unique key.
ReviewHolders == {q \in Requests : mine[q] # Nothing}
EntryHolders  == {q \in Requests : next[q] # Keep}

\* A DELETE of a review's likes waits for those who have deleted them.
LikesFree(v) == \A q \in Requests : shed[q] # v

\* A statement on the committed review waits for those who have locked it.
ReviewFree == review = Nothing \/ \A q \in ReviewHolders : mine[q] # review
EntryFree  == entry = Nothing \/ EntryHolders = {}

-----------------------------------------------------------------------------
\* What each request carries: only a change of an entry may come without a
\* status, a review promotes to watched, an edit matters here when it has a
\* date, and a removal carries nothing.
Sent(o, i) ==
    CASE o = "add" -> i.status # Nothing
      [] o = "change" -> TRUE
      [] o = "review" -> i.status = "watched"
      [] o = "edit" -> i.status = "watched" /\ i.day # Nothing
      [] OTHER -> i.status = Nothing /\ i.day = Nothing

Begin(r) ==
    /\ pc[r] = "idle"
    /\ \E o \in Ops, i \in Inputs :
         /\ Sent(o, i)
         /\ op' = [op EXCEPT ![r] = o]
         /\ given' = [given EXCEPT ![r] = i]
         /\ Goto(r, Start(o, i))
    /\ UNCHANGED <<data, seen, entity, dirty, mine, next, shed, history>>

-----------------------------------------------------------------------------
(* The watchlist: addToWatchlist, updateStatus, upsertByContentId.         *)

\* assertStatusTransitionAllowed, for want_to_watch.
Check(r) ==
    /\ pc[r] = "check"
    /\ IF review # Nothing THEN Drop(r)
       ELSE Only(r, IF op[r] = "add" THEN "find" ELSE "load")

\* normalizeKoreaDateInput: the date that was sent, or today.
DaysOf(i) == IF i.status = "want_to_watch" THEN {Nothing}
             ELSE IF i.day = Nothing THEN Days ELSE {i.day}

Find(r) ==
    /\ pc[r] = "find"
    /\ \E d \in DaysOf(given[r]) :
         entity' = [entity EXCEPT ![r] =
           [id |-> IF entry = Nothing THEN Nothing ELSE entry.id,
            status |-> given[r].status, day |-> d]]
    /\ Goto(r, IF entry = Nothing THEN "insert" ELSE "load")
    /\ UNCHANGED <<data, op, given, seen, dirty, mine, next, shed, history>>

\* Fault: updateStatus stores a status that was not sent.
ChangesUnguarded(row, i) ==
    {[id |-> row.id, status |-> i.status, day |-> d] : d \in DaysOf(i)}

\* What updateStatus makes of the entry it has read.
Changes(row, i) ==
    IF i.status # Nothing
      THEN {[id |-> row.id, status |-> i.status, day |-> d] : d \in DaysOf(i)}
    ELSE IF i.day # Nothing /\ row.status = "watched" THEN {[row EXCEPT !.day = i.day]}
    ELSE {row}

\* Fault: the entry goes before its reviews.
AfterEntryFirst(l) ==
    CASE l = "pick" -> "unlist" [] l = "unlist" -> "reviews" [] OTHER -> "seal"

\* The order of removeFromWatchlist; the other transactions put the entry last.
After(l) ==
    CASE l = "pick" -> "reviews" [] l = "cascade" -> "unlist" [] OTHER -> "seal"

\* The request names an entry: the one that is there, or one that is not.
Pick(r) ==
    /\ pc[r] = "pick"
    /\ \/ Drop(r)
       \/ /\ entry # Nothing
          /\ \E e \in (IF op[r] = "remove" THEN {entry} ELSE Changes(entry, given[r])) :
               entity' = [entity EXCEPT ![r] = e]
          /\ Goto(r, IF op[r] = "remove" THEN After("pick")
                     ELSE IF given[r].status = "want_to_watch" THEN "check" ELSE "load")
          /\ UNCHANGED <<data, op, given, seen, dirty, mine, next, shed, history>>

\* A statement of r has made e of the entry; its transaction, if it has one,
\* commits later.
Put(r, e) ==
    IF Transaction(r)
      THEN /\ next' = [next EXCEPT ![r] = e]
           /\ Goto(r, After(pc[r]))
           /\ UNCHANGED <<data, op, given, seen, entity, dirty, mine, shed, history>>
      ELSE Leave(r, review, IF e = Keep THEN entry ELSE e)

Load(r) ==
    /\ pc[r] = "load"
    /\ IF entry = Nothing \/ entry.id # entity[r].id THEN Only(r, "insert")
       ELSE LET differs == {c \in Columns : entity[r][c] # entry[c]} IN
            IF differs = {} THEN Put(r, Keep)
            ELSE /\ dirty' = [dirty EXCEPT ![r] = differs]
                 /\ Goto(r, "write")
                 /\ UNCHANGED <<data, op, given, seen, entity, mine, next, shed, history>>

Merged(r) == [id |-> entry.id,
              status |-> IF "status" \in dirty[r] THEN entity[r].status ELSE entry.status,
              day |-> IF "day" \in dirty[r] THEN entity[r].day ELSE entry.day]

Write(r) ==
    /\ pc[r] = "write"
    /\ EntryFree
    /\ Put(r, IF entry = Nothing \/ entry.id # entity[r].id THEN Keep ELSE Merged(r))

\* Waits for those who insert or delete the entry, then fails if there is one.
Insert(r) ==
    /\ pc[r] = "insert"
    /\ EntryHolders = {}
    /\ IF entry # Nothing THEN Drop(r)
       ELSE \E i \in IF entity[r].id = Nothing THEN FreshEntry ELSE {entity[r].id} :
              Put(r, [entity[r] EXCEPT !.id = i])

-----------------------------------------------------------------------------
(* removeFromWatchlist: the reviews, then the entry.                       *)

\* It does not see a review that is not committed yet.
RemoveReviews(r) ==
    /\ pc[r] = "reviews"
    /\ ReviewFree
    /\ mine' = [mine EXCEPT ![r] = review]
    /\ Goto(r, IF review = Nothing THEN After("cascade") ELSE "cascade")
    /\ UNCHANGED <<data, op, given, seen, entity, dirty, next, shed, history>>

\* The likes of a review that goes, here or in delete, go with it.
Cascade(r) ==
    /\ pc[r] = "cascade"
    /\ LikesFree(mine[r])
    /\ \E v \in {Nothing, mine[r]} : shed' = [shed EXCEPT ![r] = v]
    /\ Goto(r, IF op[r] = "remove" THEN After("cascade") ELSE "seal")
    /\ UNCHANGED <<data, op, given, seen, entity, dirty, mine, next, history>>

Unlist(r) ==
    /\ pc[r] = "unlist"
    /\ EntryFree
    /\ Put(r, IF entry = Nothing \/ entry.id # entity[r].id THEN Keep ELSE Nothing)

-----------------------------------------------------------------------------
(* ReviewsService.create, update with a date, delete.                      *)

Look(r) ==
    /\ pc[r] = "look"
    /\ IF review # Nothing THEN Drop(r) ELSE Only(r, "plant")

\* Waits for those who insert or delete the review, then fails if there is one.
Plant(r) ==
    /\ pc[r] = "plant"
    /\ ReviewHolders = {}
    /\ IF review # Nothing THEN Drop(r)
       ELSE \E i \in FreshReview :
              /\ mine' = [mine EXCEPT ![r] = i]
              /\ Goto(r, "peek")
              /\ UNCHANGED <<data, op, given, seen, entity, dirty, next, shed, history>>

\* Fault: an entry that is there is left as it is.
PeekLeavesEntry(r) ==
    /\ pc[r] = "peek"
    /\ Only(r, IF entry # Nothing /\ given[r].day = Nothing THEN "seal" ELSE "find")

Peek(r) ==
    /\ pc[r] = "peek"
    /\ Only(r, IF entry # Nothing /\ entry.status = "watched" /\ given[r].day = Nothing
                 THEN "seal" ELSE "find")

\* The edit leaves rating and comment as they are, or saves them first: then the
\* likes they have had are deleted.
ReadReview(r) ==
    /\ pc[r] = "read"
    /\ IF review = Nothing THEN Drop(r)
       ELSE /\ seen' = [seen EXCEPT ![r] = review]
            /\ \E l \in {"find", "unlike"} : Goto(r, l)
            /\ UNCHANGED <<data, op, given, entity, dirty, mine, next, shed, history>>

Unlike(r) ==
    /\ pc[r] = "unlike"
    /\ LikesFree(seen[r])
    /\ \E v \in {Nothing} \cup ({seen[r]} \cap {review}) : shed' = [shed EXCEPT ![r] = v]
    /\ Goto(r, "hold")
    /\ UNCHANGED <<data, op, given, seen, entity, dirty, mine, next, history>>

\* save of the review: UPDATE, INSERT when its SELECT found no row, or nothing:
\* its SELECT found the row as it is to be, or the row has gone since.
Hold(r) ==
    /\ pc[r] = "hold"
    /\ \/ review = seen[r] /\ ReviewFree /\ mine' = [mine EXCEPT ![r] = review]
       \/ review = Nothing /\ ReviewHolders = {} /\ mine' = [mine EXCEPT ![r] = seen[r]]
       \/ UNCHANGED mine
    /\ Goto(r, "find")
    /\ UNCHANGED <<data, op, given, seen, entity, dirty, next, shed, history>>

\* ... or the INSERT runs into the review that has been written meanwhile.
HoldFails(r) == pc[r] = "hold" /\ review \notin {seen[r], Nothing} /\ Drop(r)

\* COMMIT.
Seal(r) ==
    /\ pc[r] = "seal"
    /\ Leave(r, IF mine[r] = Nothing THEN review
                ELSE IF op[r] \in {"remove", "unreview"} THEN Nothing ELSE mine[r],
             IF next[r] = Keep THEN entry ELSE next[r])

Sight(r) ==
    /\ pc[r] = "sight"
    /\ IF review = Nothing THEN Drop(r)
       ELSE /\ seen' = [seen EXCEPT ![r] = review]
            /\ Goto(r, "drop")
            /\ UNCHANGED <<data, op, given, entity, dirty, mine, next, shed, history>>

DropReview(r) ==
    /\ pc[r] = "drop"
    /\ ReviewFree
    /\ IF review # seen[r] THEN Drop(r)
       ELSE /\ mine' = [mine EXCEPT ![r] = review]
            /\ Goto(r, "cascade")
            /\ UNCHANGED <<data, op, given, seen, entity, dirty, next, shed, history>>

-----------------------------------------------------------------------------
(* Requests that wait for each other: the database lets one of them fail.  *)

WaitsFor(p, q) ==
    \/ pc[p] = "plant" /\ q \in ReviewHolders
    \/ pc[p] = "hold" /\ review = Nothing /\ q \in ReviewHolders
    \/ pc[p] \in {"reviews", "hold", "drop"} /\ ~ReviewFree /\ mine[q] = review
    \/ pc[p] = "insert" /\ q \in EntryHolders
    \/ pc[p] \in {"write", "unlist"} /\ ~EntryFree /\ q \in EntryHolders
    \/ pc[p] = "unlike" /\ shed[q] = seen[p]
    \/ pc[p] = "cascade" /\ shed[q] = mine[p]

Ring(S) == \A p \in S : \E q \in S \ {p} : WaitsFor(p, q)

Deadlock(r) == (\E S \in SUBSET Requests : r \in S /\ Ring(S)) /\ Drop(r)

Step(r) ==
    \/ Check(r) \/ Find(r) \/ Pick(r) \/ Load(r) \/ Write(r) \/ Insert(r)
    \/ RemoveReviews(r) \/ Cascade(r) \/ Unlist(r)
    \/ Look(r) \/ Plant(r) \/ Peek(r) \/ ReadReview(r) \/ Unlike(r) \/ Hold(r)
    \/ HoldFails(r) \/ Seal(r) \/ Sight(r) \/ DropReview(r) \/ Deadlock(r)

Next == \E r \in Requests : Begin(r) \/ Step(r) \/ Abort(r)
Spec == Init /\ [][Next]_vars

-----------------------------------------------------------------------------
(* Properties.                                                             *)

\* The rows are rows, and requests carry what they should.
TypeOK ==
    /\ review \in ReviewIds \cup {Nothing} /\ entry \in Entries \cup {Nothing}
    /\ op \in [Requests -> Ops \cup {"none"}] /\ pc \in [Requests -> Labels]
    /\ given \in [Requests -> Inputs \cup {Nothing}]
    /\ seen \in [Requests -> ReviewIds \cup {Nothing}]
    /\ entity \in [Requests -> [id : EntryIds \cup {Nothing}, status : Statuses,
                                day : Days \cup {Nothing}] \cup {Nothing}]
    /\ dirty \in [Requests -> SUBSET Columns]
    /\ mine \in [Requests -> ReviewIds \cup {Nothing}]
    /\ next \in [Requests -> Entries \cup {Nothing, Keep}]
    /\ shed \in [Requests -> ReviewIds \cup {Nothing}]
    /\ touched \subseteq Requests /\ crossed \in BOOLEAN

\* Review and entry of a title agree: what is reviewed has been watched, and
\* exactly what has been watched has a date.
Agree ==
    /\ review # Nothing => entry # Nothing /\ entry.status = "watched"
    /\ entry # Nothing => (entry.status = "watched" <=> entry.day # Nothing)

\* They agree until a request has made a change that overlapped somebody
\* else's: no interleaving of requests that do not cross each other, and no
\* failure between two statements, tears them apart; and they agree again when
\* the title has been removed (watchlist.service.ts:183-192).
ReviewedIsWatched == ~crossed => Agree

\* Every ring of requests that wait for each other has an edit that has deleted
\* the likes and wants the review (reviews.service.ts:119-120), and a removal
\* that has deleted the review and wants the likes (watchlist.service.ts:185,
\* reviews.service.ts:160): but for the likes, the order in which the requests
\* lock rows, review before entry, leaves no deadlock.
RingsAreOverLikes ==
    \A S \in (SUBSET Requests) \ {{}} :
      Ring(S) => \E p, q \in S :
                   /\ op[p] = "edit" /\ pc[p] = "hold" /\ WaitsFor(p, q)
                   /\ op[q] \in {"remove", "unreview"} /\ pc[q] = "cascade" /\ WaitsFor(q, p)

Shelf == INSTANCE ReviewedShelf WITH
           reviewed <- review # Nothing,
           listed <- IF entry = Nothing THEN Nothing ELSE entry.status,
           day <- IF entry = Nothing THEN Nothing ELSE entry.day,
           torn <- crossed

\* Until two changes cross, and again when the title has been removed since, each
\* request changes review and entry in one move that the abstraction allows: its
\* transaction hides the statements in between.
ImplementsReviewedShelf == Shelf!Spec

\* watchlist.service.ts:439: a title that has a review is not put back on the
\* list of titles to watch.
WantRefusedWithReview ==
    [][entry' # entry /\ entry' # Nothing /\ entry'.status = "want_to_watch"
         => review = Nothing]_vars
=============================================================================
