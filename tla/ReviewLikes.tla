----------------------------- MODULE ReviewLikes -----------------------------
(***************************************************************************)
(* backend/src/reviews: one review, the likes it has (rows of              *)
(* review_likes) and the counter likes_count that is kept beside them,     *)
(* while likes are toggled and the author edits or deletes the review.     *)
(*                                                                         *)
(* PostgreSQL runs READ COMMITTED.  A toggle locks the review first, so    *)
(* its statements commit as one step.  An edit that changes the review     *)
(* deletes the likes and saves the review in one transaction: what it has  *)
(* deleted is locked, and still seen by others, until it commits.  save is *)
(* a SELECT that finds the columns in which the entity differs from the    *)
(* row, and an UPDATE of those, or an INSERT when it finds no row.         *)
(***************************************************************************)
EXTENDS Naturals, FiniteSets

CONSTANTS
    Requests,    \* requests in flight at once
    Users,       \* who can like the review
    Texts,       \* ratings and comments
    MaxCount,    \* bound on the counter: an insert beyond it fails
    CutOff,      \* the requests that may be cut off at any point
    Gone         \* no row

Rows == [text : Texts, likesCount : Nat]

ASSUME UsersAssumption == IsFiniteSet(Users)
ASSUME CountAssumption == MaxCount \in Nat
ASSUME GoneAssumption  == Gone \notin Rows /\ Gone \notin Users

VARIABLES
    review,     \* the row of the review
    likes,      \* the users who have a row in review_likes
    op, pc,     \* what each request does, and where it is
    user,       \* whose like a toggle is about
    entity,     \* the review as an edit has read and changed it
    dirty,      \* the columns its save will write
    snap,       \* the likes its DELETE has found
    doomed,     \* ... and deleted, not yet committed
    \* history, for the properties
    touched,    \* edits that overlap a change by somebody else
    blurred     \* one of them has been saved, and nothing has put it right since

data     == <<review, likes>>
carried  == <<op, user, entity, dirty, snap, doomed>>
history  == <<touched, blurred>>
vars     == <<data, pc, carried, history>>

Columns == {"text", "likesCount"}
Edits   == {"revise", "resave"}     \* an edit that changes the text, one that does not
Labels  == {"idle", "lock", "toggle", "insert", "unlike", "read", "find", "doom",
            "load", "write", "create", "look", "erase", "cascade"}

-----------------------------------------------------------------------------
Init ==
    /\ \E t \in Texts : review = [text |-> t, likesCount |-> 0]
    /\ likes = {}
    /\ op = [r \in Requests |-> "none"]
    /\ pc = [r \in Requests |-> "idle"]
    /\ user = [r \in Requests |-> Gone]
    /\ entity = [r \in Requests |-> Gone]
    /\ dirty = [r \in Requests |-> {}]
    /\ snap = [r \in Requests |-> {}]
    /\ doomed = [r \in Requests |-> {}]
    /\ touched = {} /\ blurred = FALSE

Goto(r, l) == pc' = [pc EXCEPT ![r] = l]

\* The transaction is over: committed or rolled back.
End(r) ==
    /\ Goto(r, "idle")
    /\ op' = [op EXCEPT ![r] = "none"]
    /\ user' = [user EXCEPT ![r] = Gone]
    /\ entity' = [entity EXCEPT ![r] = Gone]
    /\ dirty' = [dirty EXCEPT ![r] = {}]
    /\ snap' = [snap EXCEPT ![r] = {}]
    /\ doomed' = [doomed EXCEPT ![r] = {}]

Drop(r) == End(r) /\ touched' = touched \ {r} /\ UNCHANGED <<data, blurred>>
Abort(r) == r \in CutOff /\ pc[r] # "idle" /\ Drop(r)

\* It takes the likes and their counter back to nothing.
Renews(r) == op[r] = "revise" \/ pc[r] = "cascade"

\* r ends having changed the review or its likes.
Commit(r) ==
    /\ End(r)
    /\ touched' = (touched \cup {q \in Requests : op[q] \in Edits}) \ {r}
    /\ blurred' = (r \in touched \/ (blurred /\ ~Renews(r)))

\* A request only moves on.
Only(r, l) == Goto(r, l) /\ UNCHANGED <<data, carried, history>>

\* The review's row is locked by a toggle or a delete until it commits; an
\* edit's UPDATE commits at once.
HasReview(r) == pc[r] \in {"toggle", "insert", "unlike", "cascade"}
ReviewFree   == \A r \in Requests : ~HasReview(r)

Begin(r) ==
    /\ pc[r] = "idle"
    /\ \/ \E u \in Users : /\ op' = [op EXCEPT ![r] = "like"]
                           /\ user' = [user EXCEPT ![r] = u]
                           /\ Goto(r, "lock")
       \/ op' = [op EXCEPT ![r] = "edit"] /\ Goto(r, "read") /\ UNCHANGED user
       \/ op' = [op EXCEPT ![r] = "delete"] /\ Goto(r, "look") /\ UNCHANGED user
    /\ UNCHANGED <<data, entity, dirty, snap, doomed, history>>

-----------------------------------------------------------------------------
(* toggleLike.                                                             *)

\* Fault: the review is read without a lock.
ToggleLockUnlocked(r) ==
    /\ pc[r] = "lock"
    /\ IF review = Gone THEN Drop(r) ELSE Only(r, "toggle")

\* Fault: a toggle whose review is gone keeps looking for it.
ToggleLockRetries(r) ==
    /\ pc[r] = "lock"
    /\ ReviewFree
    /\ IF review = Gone THEN Only(r, "lock") ELSE Only(r, "toggle")

ToggleLock(r) ==
    /\ pc[r] = "lock"
    /\ ReviewFree
    /\ IF review = Gone THEN Drop(r) ELSE Only(r, "toggle")

ToggleFind(r) ==
    /\ pc[r] = "toggle"
    /\ Only(r, IF user[r] \in likes THEN "unlike" ELSE "insert")

ToggleInsert(r) ==
    /\ pc[r] = "insert"
    /\ IF review.likesCount < MaxCount
         THEN /\ likes' = likes \cup {user[r]}
              /\ review' = [review EXCEPT !.likesCount = @ + 1]
              /\ Commit(r)
         ELSE Drop(r)

\* Fault: nothing keeps the counter from going below zero.
ToggleRemoveBelowZero(r) ==
    /\ pc[r] = "unlike"
    /\ \A q \in Requests : user[r] \notin doomed[q]
    /\ likes' = likes \ {user[r]}
    /\ review' = [review EXCEPT !.likesCount = @ - 1]
    /\ Commit(r)

\* Waits for an edit that has deleted the same like; the UPDATE takes one off
\* the counter even when no row was left to delete.
ToggleRemove(r) ==
    /\ pc[r] = "unlike"
    /\ \A q \in Requests : user[r] \notin doomed[q]
    /\ likes' = likes \ {user[r]}
    /\ review' = [review EXCEPT !.likesCount = IF @ > 0 THEN @ - 1 ELSE 0]
    /\ Commit(r)

-----------------------------------------------------------------------------
(* update.                                                                 *)

\* Fault: the entity keeps the counter it was read with.
ReadKeepsCount(r) ==
    /\ pc[r] = "read"
    /\ IF review = Gone THEN Drop(r)
       ELSE \E t \in Texts :
              /\ op' = [op EXCEPT ![r] = IF t = review.text THEN "resave" ELSE "revise"]
              /\ entity' = [entity EXCEPT ![r] = [review EXCEPT !.text = t]]
              /\ Goto(r, IF t = review.text THEN "load" ELSE "find")
              /\ UNCHANGED <<data, user, dirty, snap, doomed, history>>

\* A text that differs from the one that was read sets the counter to zero;
\* otherwise the review is saved as it was read, its counter with it.
Read(r) ==
    /\ pc[r] = "read"
    /\ IF review = Gone THEN Drop(r)
       ELSE \E t \in Texts :
              /\ op' = [op EXCEPT ![r] = IF t = review.text THEN "resave" ELSE "revise"]
              /\ entity' = [entity EXCEPT ![r] =
                   IF t = review.text THEN review ELSE [text |-> t, likesCount |-> 0]]
              /\ Goto(r, IF t = review.text THEN "load" ELSE "find")
              /\ UNCHANGED <<data, user, dirty, snap, doomed, history>>

\* DELETE of the likes: it finds those committed when it begins, waits for
\* other edits that have deleted some of them, and locks the rest.
Find(r) ==
    /\ pc[r] = "find"
    /\ snap' = [snap EXCEPT ![r] = likes]
    /\ Goto(r, "doom")
    /\ UNCHANGED <<data, op, user, entity, dirty, doomed, history>>

Doom(r) ==
    /\ pc[r] = "doom"
    /\ \A q \in Requests : snap[r] \cap doomed[q] = {}
    /\ doomed' = [doomed EXCEPT ![r] = snap[r] \cap likes]
    /\ Goto(r, "load")
    /\ UNCHANGED <<data, op, user, entity, dirty, snap, history>>

\* save: SELECT the row and compare; the transaction commits at once when
\* there is nothing to write.
Load(r) ==
    /\ pc[r] = "load"
    /\ \/ review = Gone /\ Only(r, "create")
       \/ /\ review # Gone /\ entity[r] = review
          /\ likes' = likes \ doomed[r]
          /\ UNCHANGED review
          /\ Commit(r)
       \/ /\ review # Gone /\ entity[r] # review
          /\ dirty' = [dirty EXCEPT ![r] = {c \in Columns : entity[r][c] # review[c]}]
          /\ Goto(r, "write")
          /\ UNCHANGED <<data, op, user, entity, snap, doomed, history>>

\* save: UPDATE the columns that differed, of no row when it has been deleted.
Write(r) ==
    /\ pc[r] = "write"
    /\ ReviewFree
    /\ review' = IF review = Gone THEN Gone
                 ELSE [c \in Columns |-> IF c \in dirty[r] THEN entity[r][c] ELSE review[c]]
    /\ likes' = likes \ doomed[r]
    /\ Commit(r)

\* save: INSERT the review that was not found; its id may be taken by now.
Create(r) ==
    /\ pc[r] = "create"
    /\ IF review = Gone
         THEN review' = entity[r] /\ likes' = likes \ doomed[r] /\ Commit(r)
         ELSE Drop(r)

-----------------------------------------------------------------------------
(* delete: the likes go with the review (ON DELETE CASCADE).               *)

Look(r) == pc[r] = "look" /\ IF review = Gone THEN Drop(r) ELSE Only(r, "erase")

Erase(r) ==
    /\ pc[r] = "erase"
    /\ ReviewFree
    /\ IF review = Gone THEN Drop(r) ELSE Only(r, "cascade")

Cascade(r) ==
    /\ pc[r] = "cascade"
    /\ \A q \in Requests : likes \cap doomed[q] = {}
    /\ review' = Gone /\ likes' = {}
    /\ Commit(r)

-----------------------------------------------------------------------------
\* Transactions that wait for each other: the database lets one of them fail.
WaitsFor(p, q) ==
    \/ pc[p] \in {"lock", "write", "erase"} /\ HasReview(q)
    \/ pc[p] = "unlike" /\ user[p] \in doomed[q]
    \/ pc[p] = "doom" /\ snap[p] \cap doomed[q] # {}
    \/ pc[p] = "cascade" /\ likes \cap doomed[q] # {}
Deadlock(r) ==
    /\ \E ring \in SUBSET Requests :
         r \in ring /\ \A p \in ring : \E q \in ring \ {p} : WaitsFor(p, q)
    /\ Drop(r)

Step(r) ==
    \/ ToggleLock(r) \/ ToggleFind(r) \/ ToggleInsert(r) \/ ToggleRemove(r)
    \/ Read(r) \/ Find(r) \/ Doom(r) \/ Load(r) \/ Write(r) \/ Create(r)
    \/ Look(r) \/ Erase(r) \/ Cascade(r) \/ Deadlock(r)

Next == \E r \in Requests : Begin(r) \/ Step(r) \/ Abort(r)

\* A row lock is handed on in the order of waiting.
Fairness == \A r \in Requests : SF_vars(Step(r))
Spec == Init /\ [][Next]_vars /\ Fairness

-----------------------------------------------------------------------------
(* Properties.                                                             *)

\* The rows are rows, and a request carries what its place in the code needs.
TypeOK ==
    /\ review \in Rows \cup {Gone}
    /\ likes \subseteq Users
    /\ op \in [Requests -> {"none", "like", "edit", "delete"} \cup Edits]
    /\ pc \in [Requests -> Labels]
    /\ user \in [Requests -> Users \cup {Gone}]
    /\ entity \in [Requests -> Rows \cup {Gone}]
    /\ dirty \in [Requests -> SUBSET Columns]
    /\ snap \in [Requests -> SUBSET Users] /\ doomed \in [Requests -> SUBSET Users]
    /\ touched \subseteq Requests /\ blurred \in BOOLEAN

\* The counter counts the likes, whatever toggles and deletions overlap, until
\* an edit is saved that overlapped somebody else's change: toggles are safe
\* among themselves, the edit is the one operation that is not.  What such an
\* edit has spoiled lasts until the next deletion, or the next change of rating
\* or comment that overlaps nothing (reviews.service.ts:118-120).
LikesCounted ==
    ~blurred /\ review # Gone => review.likesCount = Cardinality(likes)

\* A toggle that has found no like of its user inserts the first one: two
\* clicks at once never run into the unique constraint (reviews.service.ts:346).
NoDuplicateLike ==
    \A r \in Requests : pc[r] = "insert" => user[r] \notin likes

\* Every request ends: deadlocks of edits with toggles and deletions are broken.
RequestsEnd == \A r \in Requests : pc[r] # "idle" ~> pc[r] = "idle"

\* reviews.service.spec.ts:407: an edit that changes neither rating nor comment
\* keeps the likes.
NoopEditKeepsLikes ==
    [][\A r \in Requests : op[r] = "resave" /\ Write(r) /\ review # Gone
         => review'.likesCount = review.likesCount]_vars

\* reviews.service.spec.ts:557: an update of a review that does not exist is
\* refused; it does not bring the review back.
DeletedReviewStaysDeleted == [][review = Gone => review' = Gone]_vars
=============================================================================
