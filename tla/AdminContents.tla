----------------------------- MODULE AdminContents -----------------------------
(***************************************************************************)
(* The administrator's list of blocked contents (ContentManagement): pages  *)
(* read when they are turned to and after every decision.  Nothing keeps    *)
(* the list from being turned while an older page is still being read.     *)
(* Nobody else blocks contents meanwhile.                                  *)
(***************************************************************************)
EXTENDS Naturals, Arrays

CONSTANTS
    Contents,     \* contents that may be blocked
    Works,        \* the contents of the person that may be blocked as a whole
    Limit,        \* contents on a page (20)
    MaxRequests   \* bound on the requests the administrator causes

Closed == [action |-> "none", targets |-> {}, listed |-> FALSE]

VARIABLES
    blocked,   \* contents with the adult flag, the one changed last first
    list,      \* [items, page, pages]: adultList, page, totalPages
    first,     \* listLoading
    modal,     \* confirmModal, or Closed
    acting,    \* loading
    asked,     \* requests so far
    requests,  \* in flight: [n, kind, page, phase, got, old]
    muddled    \* history: what is shown was read before a decision

blockVars == <<blocked, list, first, modal, acting, asked, requests, muddled>>

Unread == [items |-> <<>>, page |-> 1, pages |-> 1]

Request(n, kind, page) ==
    [n |-> n, kind |-> kind, page |-> page, phase |-> "sent", got |-> Unread, old |-> FALSE]

Init ==
    /\ blocked \in Arrangements(Contents)
    /\ list = Unread /\ first = TRUE /\ modal = Closed /\ acting = FALSE
    /\ asked = 1 /\ requests = {Request(1, "list", 1)} /\ muddled = FALSE

-----------------------------------------------------------------------------
(* What the administrator does.                                             *)
Ask(kind, page) ==
    /\ asked < MaxRequests /\ asked' = asked + 1
    /\ requests' = requests \cup {Request(asked + 1, kind, page)}

\* The buttons are there while the list has several pages.
Turn ==
    /\ modal = Closed /\ list.pages > 1
    /\ \/ list.page > 1 /\ Ask("list", list.page - 1)
       \/ list.page < list.pages /\ Ask("list", list.page + 1)
    /\ UNCHANGED <<blocked, list, first, modal, acting, muddled>>

\* The form for a content or a person, or the button of a row.
HandleAction(action, targets) ==
    /\ modal = Closed /\ modal' = [action |-> action, targets |-> targets, listed |-> FALSE]
    /\ UNCHANGED <<blocked, list, first, acting, asked, requests, muddled>>

HandleUnblock ==
    /\ modal = Closed /\ ~first
    /\ \E c \in Elements(list.items) :
         modal' = [action |-> "unblock", targets |-> {c}, listed |-> TRUE]
    /\ UNCHANGED <<blocked, list, first, acting, asked, requests, muddled>>

Cancel ==
    /\ modal # Closed /\ ~acting /\ modal' = Closed
    /\ UNCHANGED <<blocked, list, first, acting, asked, requests, muddled>>

\* A person's contents are followed by the first page, others by the page shown now.
ConfirmAction ==
    /\ modal # Closed /\ ~acting /\ acting' = TRUE
    /\ Ask("decide", IF modal.action = "block-person" THEN 1 ELSE list.page)
    /\ UNCHANGED <<blocked, list, first, modal, muddled>>

-----------------------------------------------------------------------------
(* The server.                                                              *)
GetAdultContents(page) ==
    LET last == IF page * Limit < Len(blocked) THEN page * Limit ELSE Len(blocked)
    IN  [items |-> SubSeq(blocked, (page - 1) * Limit + 1, last), page |-> page,
         pages |-> (Len(blocked) + Limit - 1) \div Limit]

ServeList(q) ==
    /\ q.kind # "decide"
    /\ requests' = (requests \ {q}) \cup {[q EXCEPT !.phase = "ok", !.got = GetAdultContents(q.page)]}
    /\ UNCHANGED <<blocked, muddled>>

\* The order by updatedAt once some contents have been blocked or allowed: those that were
\* not blocked come first, in any order; of a person's, those that could not be fetched stay out.
Decided ==
    LET news == modal.targets \ Elements(blocked)
    IN  IF modal.action = "unblock"
        THEN {Without(blocked, modal.targets)}
        ELSE {front \o blocked : front \in UNION {Orderings(moved) :
                moved \in IF modal.action = "block-person" THEN SUBSET news ELSE {news}}}

\* toggleAdult and blockPersonContents; the answer may be lost.
ServeDecision(q) ==
    /\ q.kind = "decide"
    /\ blocked' \in Decided
    /\ \E phase \in {"ok", "error"} :
         /\ requests' = {[r EXCEPT !.old = @ \/ r.phase = "ok"] : r \in requests \ {q}}
                          \cup {[q EXCEPT !.phase = phase]}
         /\ muddled' = (muddled \/ phase = "error")

Reject(q) ==
    /\ requests' = (requests \ {q}) \cup {[q EXCEPT !.phase = "error"]}
    /\ UNCHANGED <<blocked, muddled>>

Serve(q) ==
    /\ q.phase = "sent"
    /\ ServeList(q) \/ ServeDecision(q) \/ Reject(q)
    /\ UNCHANGED <<list, first, modal, acting, asked>>

-----------------------------------------------------------------------------
(* Answers.                                                                 *)
\* A list that fails leaves what is shown; one that follows a decision ends it.
ListComes(q) ==
    /\ q.kind # "decide"
    /\ \/ q.phase = "ok" /\ list' = q.got /\ muddled' = q.old
       \/ q.phase = "error" /\ UNCHANGED list /\ muddled' = (muddled \/ q.kind = "after" \/ first)
    /\ first' = FALSE
    /\ \/ q.kind = "after" /\ acting' = FALSE /\ modal' = Closed
       \/ q.kind = "list" /\ UNCHANGED <<acting, modal>>
    /\ requests' = requests \ {q}
    /\ UNCHANGED <<blocked, asked>>

DecisionComes(q) ==
    /\ q.kind = "decide"
    /\ \/ /\ q.phase = "ok" /\ asked' = asked + 1
          /\ requests' = (requests \ {q}) \cup {Request(asked + 1, "after", q.page)}
          /\ UNCHANGED <<acting, modal>>
       \/ /\ q.phase = "error" /\ acting' = FALSE /\ modal' = Closed
          /\ requests' = requests \ {q} /\ UNCHANGED asked
    /\ UNCHANGED <<blocked, list, first, muddled>>

Next ==
    \/ Turn \/ HandleUnblock \/ Cancel \/ ConfirmAction
    \/ \E c \in Contents, action \in {"block", "unblock"} : HandleAction(action, {c})
    \/ HandleAction("block-person", Works)
    \/ \E q \in requests : Serve(q) \/ ListComes(q) \/ DecisionComes(q)

Spec == Init /\ [][Next]_blockVars

-----------------------------------------------------------------------------
\* State and requests are of their shapes; one decision is made at a time.
TypeOK ==
    /\ Elements(blocked) \subseteq Contents /\ NoRepeats(blocked)
    /\ Elements(list.items) \subseteq Contents /\ list.page \in Nat \ {0}
    /\ {first, acting, muddled} \subseteq BOOLEAN /\ modal.targets \subseteq Contents
    /\ \A q \in requests, r \in requests : q.kind # "list" /\ r.kind # "list" => q = r

\* Once every answer is in, no decision is shown as being made, and unless the list
\* could not be read after one, or was read before it and answered after it, what is
\* shown is a page of the contents that are blocked.
BlockedShown ==
    requests = {} =>
        /\ ~first /\ ~acting
        /\ ~muddled => list = GetAdultContents(list.page)

=============================================================================
