----------------------------- MODULE ContentPage -----------------------------
(***************************************************************************)
(* The page of one title, for a user who is signed in: the button that      *)
(* shows and changes the watchlist entry, the card that shows the user's    *)
(* own review, and their forms.  Each keeps its own copy of what the server *)
(* stores and sends its own requests; a write is followed by the window's   *)
(* event watchlist-updated, which makes both read again.                    *)
(*                                                                         *)
(* A request is sent, takes effect or is refused, and is answered; an       *)
(* answer may get lost, and a read may fail.                                *)
(***************************************************************************)
EXTENDS Naturals

CONSTANTS
    MaxWrites,    \* bound on the writes the server accepts
    MaxFailures,  \* bound on the requests that fail and the answers that get lost
    Uses          \* what the user does: a subset of Calls

Forms    == {"card form", "button form"}
Removals == {"remove", "remove both"}   \* without and after the confirmation
Calls    == Forms \cup Removals \cup {"add", "check", "open", "delete"}

VARIABLES
    entry,    \* the watchlist row: [id, status]
    review,   \* the review's row: [id, text]
    writes,   \* writes so far; gives ids and texts
    call,     \* the request of each caller
    button,   \* what the button shows: an entry
    dialog,   \* the confirmation dialog is open
    form,     \* the review each open form edits
    asked,    \* number of status reads so far
    reads,    \* status reads in flight: [n, served, got]
    latest,   \* the one that was applied last
    key,      \* refreshKey
    loads,    \* loads of the card in flight: [key, served, got]
    card,     \* reviewState: [key, review]
    stale,    \* history: [button, card]: the last thing it should have read was lost
    failures  \* failed requests so far

rows     == <<entry, review, writes>>
buttonUI == <<button, dialog, asked, reads, latest>>
cardUI   == <<key, loads, card>>
pageVars == <<rows, buttonUI, cardUI, call, form, stale, failures>>

NoEntry  == [id |-> 0, status |-> "none"]
NoReview == [id |-> 0, text |-> 0]
Numbers  == 0 .. MaxWrites
Entries  == [id : Numbers, status : {"none", "want_to_watch", "watched"}]
Reviews  == [id : Numbers, text : Numbers]
Closed   == {}

\* A read that has just been sent.
StatusOf(n) == [n |-> n, served |-> FALSE, got |-> NoEntry]
LoadOf(k)   == [key |-> k, served |-> FALSE, got |-> NoReview]

Unused == [at |-> "idle", id |-> 0, reply |-> 0]
Idle(c) == call[c].at = "idle"
Busy   == \E c \in {"add", "check", "open"} \cup Removals : ~Idle(c)   \* isLoading

\* The effects of the first rendering have sent a status read and a load.
Init ==
    /\ entry = NoEntry /\ review = NoReview /\ writes = 0
    /\ call = [c \in Calls |-> Unused]
    /\ button = NoEntry /\ dialog = FALSE
    /\ form = [f \in Forms |-> Closed]
    /\ asked = 1 /\ reads = {StatusOf(1)} /\ latest = 0
    /\ key = 1 /\ loads = {LoadOf(1)}
    /\ card = [key |-> 0, review |-> NoReview]
    /\ stale = [button |-> FALSE, card |-> FALSE]
    /\ failures = 0

CardShown == card.key = key          \* else the card is a skeleton

-----------------------------------------------------------------------------
(* The server.                                                              *)
Fresh == writes + 1

Watched == [id |-> IF entry.id = 0 THEN Fresh ELSE entry.id, status |-> "watched"]

Stored(e, r) == entry' = e /\ review' = r /\ writes' = Fresh

Allowed(c) ==
    \/ c = "add" /\ review = NoReview
    \/ c \in Removals /\ entry.id = call[c].id
    \/ c \in Forms \cup {"delete"} /\ review.id = call[c].id

\* What a request does to the rows when it is allowed.
Effect(c) ==
    \/ c = "add" /\ Stored([Watched EXCEPT !.status = "want_to_watch"], review)
    \/ c \in Removals /\ Stored(NoEntry, NoReview)
    \/ c = "delete" /\ Stored(entry, NoReview)
    \/ /\ c \in Forms
       /\ Stored(Watched, [id |-> IF review.id = 0 THEN Fresh ELSE review.id, text |-> Fresh])

Reply(c, at, value) == call' = [call EXCEPT ![c].at = at, ![c].reply = value]

Failure == failures < MaxFailures /\ failures' = failures + 1

Accept(c) ==
    /\ call[c].at = "sent" /\ Allowed(c)
    /\ writes < MaxWrites
    /\ Effect(c)
    /\ \/ Reply(c, "done", entry'.id) /\ UNCHANGED <<stale, failures>>
       \/ Reply(c, "failed", 0) /\ Failure /\ stale' = [button |-> TRUE, card |-> TRUE]
    /\ UNCHANGED <<buttonUI, cardUI, form>>

\* Refused by the server, or failed on its way to it.
Refuse(c) ==
    /\ call[c].at = "sent"
    /\ Reply(c, "failed", 0)
    /\ \/ c \notin {"check", "open"} /\ ~Allowed(c) /\ UNCHANGED failures
       \/ Failure
    /\ UNCHANGED <<rows, buttonUI, cardUI, form, stale>>

\* GET /reviews/my for the button.
FindReview(c) ==
    /\ c \in {"check", "open"} /\ call[c].at = "sent"
    /\ Reply(c, "done", review.id)
    /\ UNCHANGED <<rows, buttonUI, cardUI, form, stale, failures>>

ServeRead(q) ==
    /\ ~q.served
    /\ reads' = (reads \ {q}) \cup {[q EXCEPT !.served = TRUE, !.got = entry]}
    /\ UNCHANGED <<rows, button, dialog, asked, latest, cardUI, call, form, stale, failures>>

ServeLoad(q) ==
    /\ ~q.served
    /\ loads' = (loads \ {q}) \cup {[q EXCEPT !.served = TRUE, !.got = review]}
    /\ UNCHANGED <<rows, buttonUI, key, card, call, form, stale, failures>>

-----------------------------------------------------------------------------
(* Reading again.                                                           *)
ReadStatus ==
    /\ asked' = asked + 1
    /\ reads' = reads \cup {StatusOf(asked + 1)}

\* A new key: the skeleton replaces the card and its form.
Reload ==
    /\ key' = key + 1
    /\ loads' = loads \cup {LoadOf(key + 1)}
    /\ UNCHANGED card

\* Fault: a write has the card load again, and nobody else.
UpdatedForCard ==
    /\ Reload /\ UNCHANGED <<asked, reads>>
    /\ stale' = [stale EXCEPT !.card = FALSE]

\* window.dispatchEvent(new Event('watchlist-updated'))
Updated == ReadStatus /\ Reload /\ stale' = [button |-> FALSE, card |-> FALSE]

\* Whatever arrives is shown: handleUpdate does not tell an old answer.
StatusRead(q) ==
    /\ q.served
    /\ reads' = reads \ {q}
    /\ button' = q.got
    /\ latest' = q.n
    /\ UNCHANGED <<rows, dialog, asked, cardUI, call, form, stale, failures>>

StatusReadFails(q) ==
    /\ reads' = reads \ {q}
    /\ stale' = [stale EXCEPT !.button = TRUE] /\ Failure
    /\ UNCHANGED <<rows, button, dialog, asked, latest, cardUI, call, form>>

\* Fault: a load counts although its key is an old one.
LoadedLate(q, r) == card' = [key |-> key, review |-> r]

\* Only the newest key's load is active.
Loaded(q, r) == card' = IF q.key = key THEN [key |-> key, review |-> r] ELSE card

CardLoaded(q) ==
    /\ q.served
    /\ loads' = loads \ {q}
    /\ Loaded(q, q.got)
    /\ UNCHANGED <<rows, buttonUI, key, call, form, stale, failures>>

\* A load that fails shows the card of somebody without a review.
CardLoadFails(q) ==
    /\ loads' = loads \ {q}
    /\ Loaded(q, NoReview)
    /\ stale' = [stale EXCEPT !.card = @ \/ q.key = key] /\ Failure
    /\ UNCHANGED <<rows, buttonUI, key, call, form>>

-----------------------------------------------------------------------------
(* The button.                                                              *)
Send(c, id) == c \in Uses /\ call' = [call EXCEPT ![c] = [at |-> "sent", id |-> id, reply |-> 0]]
End(c)      == call' = [call EXCEPT ![c] = Unused]

Click ==
    /\ ~Busy /\ ~dialog /\ latest > 0
    /\ \/ button = NoEntry /\ Send("add", 0)
       \/ button.status # "watched" /\ Send("open", 0)
       \/ button # NoEntry /\ Send("check", button.id)
    /\ UNCHANGED <<rows, buttonUI, cardUI, form, stale, failures>>

Confirm ==
    /\ dialog /\ ~Busy
    /\ \/ button # NoEntry /\ Send("remove both", button.id) /\ UNCHANGED dialog
       \/ dialog' = FALSE /\ UNCHANGED call
    /\ UNCHANGED <<rows, button, asked, reads, latest, cardUI, form, stale, failures>>

\* fetchMyReview: a failure counts as no review.
Checked ==
    /\ call["check"].at \in {"done", "failed"}
    /\ IF call["check"].reply # 0
         THEN dialog' = TRUE /\ End("check")
         ELSE /\ call' = [call EXCEPT !["check"] = Unused,
                              !["remove"] = [at |-> "sent", id |-> button.id, reply |-> 0]]
              /\ UNCHANGED dialog
    /\ UNCHANGED <<rows, button, asked, reads, latest, cardUI, form, stale, failures>>

Opened ==
    /\ call["open"].at \in {"done", "failed"}
    /\ form' = [form EXCEPT !["button form"] = {call["open"].reply}]
    /\ End("open")
    /\ UNCHANGED <<rows, buttonUI, cardUI, stale, failures>>

\* The card's form goes with the card.
Cleared == [form EXCEPT !["card form"] = Closed]

Changed(c) ==
    /\ c \in Removals \cup {"add"} /\ call[c].at = "done"
    /\ button' = IF c = "add" THEN [id |-> call[c].reply, status |-> "want_to_watch"]
                              ELSE NoEntry
    /\ dialog' = (dialog /\ c # "remove both")
    /\ End(c)
    /\ Updated
    /\ form' = Cleared
    /\ UNCHANGED <<rows, latest, failures>>

Failed(c) ==
    /\ c \notin {"check", "open"} /\ call[c].at = "failed"
    /\ End(c)
    /\ UNCHANGED <<rows, buttonUI, cardUI, form, stale, failures>>

-----------------------------------------------------------------------------
(* The card and the forms.                                                  *)
OpenCardForm ==
    /\ CardShown /\ form["card form"] = Closed
    /\ form' = [form EXCEPT !["card form"] = {card.review.id}]
    /\ UNCHANGED <<rows, buttonUI, cardUI, call, stale, failures>>

CloseForm(f) ==
    /\ form[f] # Closed
    /\ form' = [form EXCEPT ![f] = Closed]
    /\ UNCHANGED <<rows, buttonUI, cardUI, call, stale, failures>>

\* POST for a form that was opened without a review, PATCH otherwise.
Submit(f) ==
    /\ Idle(f)
    /\ \E id \in form[f] : Send(f, id)
    /\ UNCHANGED <<rows, buttonUI, cardUI, form, stale, failures>>

Submitted(f) ==
    /\ call[f].at = "done"
    /\ Updated
    /\ form' = [Cleared EXCEPT ![f] = Closed]
    /\ End(f)
    /\ UNCHANGED <<rows, button, dialog, latest, failures>>

Delete ==
    /\ CardShown /\ card.review # NoReview /\ Idle("delete")
    /\ Send("delete", card.review.id)
    /\ UNCHANGED <<rows, buttonUI, cardUI, form, stale, failures>>

\* onMutate only: the entry stays as it is.
Deleted ==
    /\ call["delete"].at = "done"
    /\ Reload
    /\ stale' = [stale EXCEPT !.card = FALSE]
    /\ form' = Cleared
    /\ End("delete")
    /\ UNCHANGED <<rows, buttonUI, failures>>

-----------------------------------------------------------------------------
Next ==
    \/ \E c \in Calls : Accept(c) \/ Refuse(c) \/ FindReview(c) \/ Changed(c) \/ Failed(c)
    \/ \E q \in reads : ServeRead(q) \/ StatusRead(q) \/ StatusReadFails(q)
    \/ \E q \in loads : ServeLoad(q) \/ CardLoaded(q) \/ CardLoadFails(q)
    \/ Click \/ Confirm \/ Checked \/ Opened \/ OpenCardForm \/ Delete \/ Deleted
    \/ \E f \in Forms : CloseForm(f) \/ Submit(f) \/ Submitted(f)

Spec == Init /\ [][Next]_pageVars

-----------------------------------------------------------------------------
(* Every part of the state has its type, and the server never has a review  *)
(* of a title that is not watched.                                          *)
TypeOK ==
    /\ entry \in Entries /\ review \in Reviews /\ writes \in Numbers
    /\ \A c \in Calls : /\ call[c].at \in {"idle", "sent", "done", "failed"}
                        /\ call[c].id \in Numbers /\ call[c].reply \in Numbers
    /\ button \in Entries /\ dialog \in BOOLEAN
    /\ form \in [Forms -> SUBSET Numbers]
    /\ \A q \in reads : q.n \in 1 .. asked /\ q.got \in Entries
    /\ \A q \in loads : q.key \in 1 .. key /\ q.got \in Reviews
    /\ card.key \in 0 .. key /\ card.review \in Reviews
    /\ review # NoReview => entry.status = "watched"

\* No write is under way, and nothing is about to be read.
Quiet == \A c \in Calls \ {"check", "open"} : Idle(c)

(* A card that is shown while no write is under way shows the review that   *)
(* is stored, whatever the order in which older loads are answered.         *)
CardShowsSaved == Quiet /\ CardShown /\ ~stale.card => card.review = review

(* Once everything is answered, the button shows the stored entry, unless   *)
(* an older answer was applied after that of the newest read; the next read *)
(* puts that right.                                                         *)
ButtonShowsSaved ==
    Quiet /\ reads = {} /\ ~stale.button /\ latest = asked => button = entry

(* WatchlistStatusButton.test.tsx:294: a removal that takes a review with   *)
(* it asks first.                                                           *)
ReviewRemovalIsAsked ==
    [][call["remove"].at = "sent" /\ call'["remove"].at # "sent" => review' = review]_pageVars
=============================================================================
