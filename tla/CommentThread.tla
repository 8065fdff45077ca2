---------------------------- MODULE CommentThread ----------------------------
(***************************************************************************)
(* The comments of a review: the server's list, and the modal that shows    *)
(* it in pieces (useComments, ReviewCommentsModal, CommentList).  Nothing    *)
(* cancels a request, so pieces, new comments and deletions are answered in  *)
(* any order; the number on the card is the modal's total when it is closed. *)
(* Comments are numbered in the order they are written.                     *)
(***************************************************************************)
EXTENDS Naturals, Arrays

CONSTANTS
    Viewers,      \* who may look at them: "guest", "user", "admin"
    Take,         \* comments in a piece (20)
    MaxComments,  \* bound on the comments ever written
    MaxRequests   \* bound on the requests

VARIABLES
    stored,     \* the comments of the review, oldest first
    made,       \* comments written so far
    mine,       \* those the viewer has written
    viewer,     \* user and its role
    open,       \* showComments
    count,      \* commentsCount of the card
    view,       \* what useComments keeps
    submitting, \* isSubmitting
    asked,      \* requests so far
    requests,   \* in flight: [n, kind, arg, phase, got, old, gone]
    muddled     \* history: the list was changed elsewhere, or answers have crossed

server     == <<stored, made, mine>>
threadVars == <<server, viewer, open, count, view, submitting, asked, requests, muddled>>

Blank == [comments |-> <<>>, total |-> 0, page |-> 1, pages |-> 1,
          loading |-> FALSE, failed |-> FALSE]

Nothing == [comments |-> <<>>, total |-> 0, pages |-> 0]

Loads == {"load", "reload"}                \* the effect or the button; a submission

Request(kind, arg) ==
    [n |-> asked + 1, kind |-> kind, arg |-> arg, phase |-> "sent", got |-> Nothing,
     old |-> FALSE, gone |-> FALSE]

Loading(v) == [v EXCEPT !.loading = TRUE, !.failed = FALSE]

Init ==
    /\ made \in 0 .. MaxComments /\ stored = [i \in 1 .. made |-> i]
    /\ mine \in SUBSET (1 .. made)
    /\ viewer \in Viewers /\ (viewer = "guest" => mine = {})
    /\ open = FALSE /\ count = made /\ view = Blank /\ submitting = FALSE
    /\ asked = 0 /\ requests = {} /\ muddled = FALSE

-----------------------------------------------------------------------------
(* What the viewer does.                                                    *)
Ask(rest, kind, arg) ==
    /\ asked < MaxRequests /\ asked' = asked + 1
    /\ requests' = rest \cup {Request(kind, arg)}

\* The modal is mounted and its effect asks for the first piece.
Open ==
    /\ ~open /\ open' = TRUE
    /\ view' = Loading(Blank) /\ submitting' = FALSE /\ muddled' = FALSE
    /\ Ask(requests, "load", 1)
    /\ UNCHANGED <<server, viewer, count>>

\* What is still answered then reaches no component.
Close ==
    /\ open /\ open' = FALSE /\ count' = view.total
    /\ view' = Blank /\ submitting' = FALSE
    /\ requests' = {[q EXCEPT !.gone = TRUE] : q \in {r \in requests : r.phase = "sent"}}
    /\ UNCHANGED <<server, viewer, asked, muddled>>

LoadMore ==
    /\ open /\ view.comments # <<>> /\ view.page < view.pages /\ ~view.loading
    /\ view' = Loading(view)
    /\ Ask(requests, "load", view.page + 1)
    /\ UNCHANGED <<server, viewer, open, count, submitting, muddled>>

Submit ==
    /\ open /\ viewer # "guest" /\ ~submitting
    /\ submitting' = TRUE
    /\ Ask(requests, "create", 0)
    /\ UNCHANGED <<server, viewer, open, count, view, muddled>>

Delete(c) ==
    /\ open /\ c \in Elements(view.comments)
    /\ viewer = "admin" \/ c \in mine
    /\ Ask(requests, "delete", c)
    /\ UNCHANGED <<server, viewer, open, count, view, submitting, muddled>>

-----------------------------------------------------------------------------
(* The server.                                                              *)

Piece(p) == SubSeq(stored, (p - 1) * Take + 1, IF p * Take < Len(stored) THEN p * Take ELSE Len(stored))

FindByReview(p) ==
    [comments |-> Piece(p), total |-> Len(stored), pages |-> (Len(stored) + Take - 1) \div Take]

\* A change of the list makes the pieces read before old.
Outdated(rest) ==
    {[r EXCEPT !.old = @ \/ (r.kind \in Loads /\ r.phase = "ok")] : r \in rest}

\* The request q has its answer; nobody waits for it once the modal is gone.
Replied(rest, q, phase, got) ==
    requests' = rest \cup (IF q.gone THEN {} ELSE {[q EXCEPT !.phase = phase, !.got = got]})

ServeLoad(q) ==
    /\ q.kind \in Loads /\ q.phase = "sent"
    /\ Replied(requests \ {q}, q, "ok", FindByReview(q.arg))
    /\ UNCHANGED <<server, muddled>>

\* The change is made, though its answer may be lost.
Changed(q) ==
    \E phase \in {"ok", "error"} :
        /\ Replied(Outdated(requests \ {q}), q, phase, Nothing)
        /\ muddled' = (muddled \/ q.gone \/ phase = "error")

CreateComment(q) ==
    /\ q.kind = "create" /\ q.phase = "sent" /\ made < MaxComments
    /\ made' = made + 1 /\ stored' = Append(stored, made + 1) /\ mine' = mine \cup {made + 1}
    /\ Changed(q)

RemoveComment(q) ==
    /\ q.kind = "delete" /\ q.phase = "sent" /\ q.arg \in Elements(stored)
    /\ stored' = Without(stored, {q.arg})
    /\ Changed(q)
    /\ UNCHANGED <<made, mine>>

\* NotFound, or anything that fails before a change is made.
Reject(q) ==
    /\ q.phase = "sent"
    /\ Replied(requests \ {q}, q, "error", Nothing)
    /\ UNCHANGED <<server, muddled>>

Serve(q) ==
    /\ ServeLoad(q) \/ CreateComment(q) \/ RemoveComment(q) \/ Reject(q)
    /\ UNCHANGED <<viewer, open, count, view, submitting, asked>>

\* Others write and delete.
Elsewhere ==
    /\ \/ /\ made < MaxComments
          /\ made' = made + 1 /\ stored' = Append(stored, made + 1)
       \/ /\ \E c \in Elements(stored) : stored' = Without(stored, {c})
          /\ UNCHANGED made
    /\ muddled' = TRUE /\ requests' = Outdated(requests)
    /\ UNCHANGED <<mine, viewer, open, count, view, submitting, asked>>

-----------------------------------------------------------------------------
(* Answers.                                                                 *)

\* setComments of loadComments.
Shown(q) == IF q.arg = 1 THEN q.got.comments ELSE view.comments \o q.got.comments

\* A piece that does not continue what is shown.
Overtaken(q) == q.arg # 1 /\ Len(view.comments) # (q.arg - 1) * Take

\* The changes that are not answered yet may be in what was loaded.
LoadComes(q) ==
    /\ q.kind \in Loads
    /\ \/ /\ q.phase = "ok"
          /\ view' = [comments |-> Shown(q), total |-> q.got.total, page |-> q.arg,
                      pages |-> q.got.pages, loading |-> FALSE, failed |-> view.failed]
          /\ muddled' = (q.old \/ Overtaken(q) \/ (q.arg # 1 /\ muddled))
          /\ requests' = {[r EXCEPT !.old = @ \/ (r.kind = "delete" /\ r.phase = "ok")] :
                            r \in requests \ {q}}
       \/ /\ q.phase = "error"
          /\ view' = [view EXCEPT !.loading = FALSE, !.failed = TRUE]
          /\ requests' = requests \ {q} /\ UNCHANGED muddled
    /\ submitting' = (submitting /\ q.kind # "reload")
    /\ UNCHANGED <<server, viewer, open, count, asked>>

\* submitComment: the first piece is loaded anew before the submission ends.
CreateComes(q) ==
    /\ q.kind = "create"
    /\ \/ /\ q.phase = "ok"
          /\ view' = Loading([view EXCEPT !.total = @ + 1])
          /\ asked' = asked + 1 /\ requests' = (requests \ {q}) \cup {Request("reload", 1)}
          /\ UNCHANGED submitting
       \/ /\ q.phase = "error"
          /\ view' = [view EXCEPT !.failed = TRUE]
          /\ requests' = requests \ {q} /\ submitting' = FALSE /\ UNCHANGED asked
    /\ UNCHANGED <<server, viewer, open, count, muddled>>

DeleteComes(q) ==
    /\ q.kind = "delete"
    /\ \/ /\ q.phase = "ok"
          /\ view' = [view EXCEPT !.comments = Without(@, {q.arg}),
                                  !.total = IF @ = 0 THEN 0 ELSE @ - 1]
          /\ muddled' = (muddled \/ q.old)
       \/ /\ q.phase = "error"
          /\ view' = [view EXCEPT !.failed = TRUE] /\ UNCHANGED muddled
    /\ requests' = requests \ {q}
    /\ UNCHANGED <<server, viewer, open, count, submitting, asked>>

Next ==
    \/ Open \/ Close \/ LoadMore \/ Submit \/ Elsewhere
    \/ \E c \in Elements(view.comments) : Delete(c)
    \/ \E q \in requests : Serve(q) \/ LoadComes(q) \/ CreateComes(q) \/ DeleteComes(q)

Spec == Init /\ [][Next]_threadVars

-----------------------------------------------------------------------------
\* State and requests are of their shapes, and a comment is written once at a time.
TypeOK ==
    /\ made \in 0 .. MaxComments /\ Elements(stored) \subseteq 1 .. made /\ mine \subseteq 1 .. made
    /\ viewer \in Viewers /\ {open, submitting, muddled} \subseteq BOOLEAN
    /\ count \in 0 .. MaxComments + 1 /\ view.total \in 0 .. MaxComments + 1
    /\ Elements(view.comments) \subseteq 1 .. made
    /\ \A q \in requests, r \in requests :
         q.kind = "create" /\ r.kind = "create" /\ ~q.gone /\ ~r.gone => q = r

\* Once every answer is in, nothing is shown as loading or as being sent.  Unless a
\* request has failed, others have changed the list, or a piece was read before a
\* change and shown after it, the modal then shows the beginning of the list without
\* gap or repetition and its number, and there is a next piece for whatever it does
\* not show (whose button is gone when the viewer has deleted all that was shown).
ThreadAgrees ==
    open /\ requests = {} =>
        /\ ~view.loading /\ ~submitting
        /\ ~view.failed /\ ~muddled =>
             /\ IsBeginning(view.comments, stored) /\ view.total = Len(stored)
             /\ view.page < view.pages \/ view.comments = stored

=============================================================================
