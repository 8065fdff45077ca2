------------------------------ MODULE ReviewList ------------------------------
(***************************************************************************)
(* The reviews of a title on its page (ReviewListClient): the list the      *)
(* server rendered, replaced by one the browser asks for as soon as         *)
(* somebody is signed in or another order is chosen.  A signed-in viewer's  *)
(* load is two requests, for the reviews and for the ids of those the       *)
(* viewer likes, read by the server at two times and applied together.      *)
(*                                                                         *)
(* An id that the server has answered for user u is kept as <<u, review>>:  *)
(* the page does not look at u, the property does.                          *)
(***************************************************************************)
EXTENDS Naturals

CONSTANTS
    Users,     \* who may sign in in this browser
    Admins,    \* those of them who may delete reviews
    Titles,    \* the reviews there may be
    MaxLoads   \* bound on the loads

Guest  == "guest"
Orders == {"latest", "likes"}

VARIABLES
    stored,    \* the reviews the server has
    likes,     \* review_likes: pairs of a user and a review
    viewer,    \* user, or Guest
    sort,      \* the order chosen
    initial,   \* initialReviews: what the server has rendered
    state,     \* reviewState: [key, reviews, liked]
    asked,     \* loads so far
    loads,     \* loads that are not over: [n, key, user, list, liked, active]
    deleting   \* reviews whose deletion has not been answered

listVars == <<stored, likes, viewer, sort, initial, state, asked, loads, deleting>>

NoKey == <<>>

\* Fault (for a mutant): the key leaves out the user.
KeyOfOrder(v, s) == IF v = Guest /\ s = "latest" THEN NoKey ELSE <<"user", s>>

\* requestKey; the page's own request is enough for a guest and the default order.
KeyOf(v, s) == IF v = Guest /\ s = "latest" THEN NoKey ELSE <<v, s>>
Key == KeyOf(viewer, sort)

Waiting  == [answered |-> FALSE, value |-> {}]
Value(s) == [answered |-> TRUE, value |-> s]

Init ==
    /\ stored \in SUBSET Titles
    /\ likes \in SUBSET (Users \X stored)
    /\ viewer = Guest /\ sort = "latest"
    /\ initial = stored
    /\ state = [key |-> NoKey, reviews |-> initial, liked |-> {}]
    /\ asked = 0 /\ loads = {} /\ deleting = {}

Shown ==
    IF Key # NoKey /\ state.key = Key
      THEN state
      ELSE [key |-> Key, reviews |-> initial, liked |-> {}]

-----------------------------------------------------------------------------
(* The effect that loads.                                                   *)
Cancelled == {[q EXCEPT !.active = FALSE] : q \in loads}

\* Its cleanup, and its next run for key k of viewer v.
Rerun(v, k) ==
    IF k = NoKey
      THEN loads' = Cancelled /\ UNCHANGED asked
      ELSE /\ asked < MaxLoads
           /\ asked' = asked + 1
           /\ loads' = Cancelled \cup
                {[n |-> asked + 1, key |-> k, user |-> v, list |-> Waiting, active |-> TRUE,
                  liked |-> IF v = Guest THEN Value({}) ELSE Waiting]}

\* Somebody signs in or out, here or in another tab, or the account is read again.
Authenticated(v) ==
    /\ viewer' = v
    /\ Rerun(v, KeyOf(v, sort))
    /\ UNCHANGED <<stored, likes, sort, initial, state, deleting>>

Sort(s) ==
    /\ s # sort
    /\ sort' = s
    /\ Rerun(viewer, KeyOf(viewer, s))
    /\ UNCHANGED <<stored, likes, viewer, initial, state, deleting>>

\* router.refresh hands the component what the server renders now.
Refresh ==
    /\ initial' = stored
    /\ Rerun(viewer, Key)
    /\ UNCHANGED <<stored, likes, viewer, sort, state, deleting>>

FindByContent(q) ==
    /\ ~q.list.answered
    /\ loads' = (loads \ {q}) \cup {[q EXCEPT !.list = Value(stored)]}
    /\ UNCHANGED <<stored, likes, viewer, sort, initial, state, asked, deleting>>

GetLikedReviewIds(q) ==
    /\ ~q.liked.answered
    /\ loads' = (loads \ {q}) \cup
         {[q EXCEPT !.liked = Value({p \in likes : p[1] = q.user})]}
    /\ UNCHANGED <<stored, likes, viewer, sort, initial, state, asked, deleting>>

\* What a load that is over leaves in the component, if its effect still runs.
Settled(q, reviews, liked) ==
    /\ loads' = loads \ {q}
    /\ state' = IF q.active THEN [key |-> q.key, reviews |-> reviews, liked |-> liked] ELSE state
    /\ UNCHANGED <<stored, likes, viewer, sort, initial, asked, deleting>>

Loaded(q)    == q.list.answered /\ q.liked.answered /\ Settled(q, q.list.value, q.liked.value)
LoadFails(q) == Settled(q, initial, {})

-----------------------------------------------------------------------------
(* An administrator deletes a review; likes go with it.                     *)
Delete(r) ==
    /\ viewer \in Admins /\ r \in Shown.reviews /\ r \notin deleting
    /\ stored' = stored \ {r}
    /\ likes' = {p \in likes : p[2] # r}
    /\ deleting' = deleting \cup {r}
    /\ UNCHANGED <<viewer, sort, initial, state, asked, loads>>

Deleted(r) ==
    /\ r \in deleting
    /\ deleting' = deleting \ {r}
    /\ \/ state' = [state EXCEPT !.reviews = @ \ {r}]
       \/ UNCHANGED state                 \* the answer is an error, or lost
    /\ UNCHANGED <<stored, likes, viewer, sort, initial, asked, loads>>

\* Likes of a user in another tab.
ToggleLike(u, r) ==
    /\ r \in stored
    /\ likes' = IF <<u, r>> \in likes THEN likes \ {<<u, r>>} ELSE likes \cup {<<u, r>>}
    /\ UNCHANGED <<stored, viewer, sort, initial, state, asked, loads, deleting>>

Next ==
    \/ \E v \in Users \cup {Guest} : Authenticated(v)
    \/ \E s \in Orders : Sort(s)
    \/ Refresh
    \/ \E q \in loads : FindByContent(q) \/ GetLikedReviewIds(q) \/ Loaded(q) \/ LoadFails(q)
    \/ \E r \in Titles : Delete(r) \/ Deleted(r) \/ \E u \in Users : ToggleLike(u, r)

Spec == Init /\ [][Next]_listVars

-----------------------------------------------------------------------------
Keys == {KeyOf(v, s) : v \in Users \cup {Guest}, s \in Orders}

\* State, requests and answers are of their shapes, and at most one load is active.
TypeOK ==
    /\ stored \subseteq Titles /\ likes \subseteq Users \X stored
    /\ viewer \in Users \cup {Guest} /\ sort \in Orders
    /\ initial \subseteq Titles /\ deleting \subseteq Titles
    /\ state.key \in Keys /\ state.reviews \subseteq Titles
    /\ state.liked \subseteq Users \X Titles
    /\ asked \in 0 .. MaxLoads
    /\ \A p \in loads, q \in loads : p.active /\ q.active => p = q

\* However sign-ins, orders and answers follow each other: the likes that are shown are
\* the viewer's own, and once nothing is loading the list is the one that was asked for
\* last (it does not stay dimmed).
ListIsRequested ==
    /\ \A p \in Shown.liked : p[1] = viewer
    /\ Key # NoKey /\ (\A q \in loads : ~q.active) => state.key = Key

=============================================================================
