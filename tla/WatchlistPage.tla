----------------------------- MODULE WatchlistPage -----------------------------
(***************************************************************************)
(* The user's watchlist page: a tab of watched titles by year and a tab of  *)
(* titles to watch, loaded in pieces.  Tab and year are in the URL, which   *)
(* router.push changes a while after it is called.  The page asks again on  *)
(* every change and applies each answer when it comes, in whatever order.   *)
(***************************************************************************)
EXTENDS Naturals, Arrays

CONSTANTS
    Years,        \* years there may be watched titles of (numbers)
    ThisYear,     \* the year it is
    Titles,       \* titles to watch there may be
    Limit,        \* titles to watch in one piece (30)
    MaxRequests,  \* bound on the requests: the user leaves room for a new URL to ask
    MaxChanges    \* bound on changes made elsewhere

None  == 0
ActiveStatuses == {"watched", "want_to_watch"}
Kinds == {"years", "data", "wants", "more"}

VARIABLES
    watched,   \* years of the watched entries on the server
    wants,     \* the titles to watch on the server, newest first
    changes,   \* changes made elsewhere so far
    url,       \* [tab, year]
    nav,       \* the URL that router.push was last asked for
    years,     \* watchedYears
    selected,  \* selectedYear
    data,      \* the year of watchedData
    items,     \* wtwItems
    more,      \* wtwHasMore
    loading,   \* isLoading
    asked,     \* requests so far
    sent,      \* per kind: the newest request
    requests,  \* in flight: [n, kind, arg, got, served, old]
    last,      \* per kind: the request whose answer came last, 0 after a failure
    muddled    \* history: items may repeat or miss titles

server   == <<watched, wants, changes>>
shelf    == <<years, selected, data, items, more, loading>>
wire     == <<asked, sent, requests, last, muddled>>
pageVars == <<server, url, nav, shelf, wire>>

Nothing == [years |-> {}, items |-> <<>>, more |-> FALSE]

Request(n, k, a) ==
    [n |-> n, kind |-> k, arg |-> a, served |-> FALSE, got |-> Nothing, old |-> FALSE]

Init ==
    /\ watched \in SUBSET Years /\ wants \in Arrangements(Titles) /\ changes = 0
    /\ url \in [tab : ActiveStatuses, year : {None} \cup Years] /\ nav = url
    /\ years = {} /\ selected = None /\ data = None
    /\ items = <<>> /\ more = FALSE /\ loading = TRUE
    /\ LET k == IF url.tab = "watched" THEN "years" ELSE "wants"
       IN  /\ requests = {Request(1, k, IF k = "years" THEN url.year ELSE None)}
           /\ sent = [j \in Kinds |-> IF j = k THEN 1 ELSE 0]
    /\ asked = 1
    /\ last = [k \in Kinds |-> 0] /\ muddled = FALSE

-----------------------------------------------------------------------------
\* The requests of rest go on and one more is sent.
Ask(rest, k, a) ==
    /\ asked' = asked + 1 /\ sent' = [sent EXCEPT ![k] = asked + 1]
    /\ requests' = rest \cup {Request(asked + 1, k, a)}

\* The effects of one rendering ask for the years and for the titles of year.
AskBoth(param, year) ==
    /\ asked' = asked + 2
    /\ sent' = [sent EXCEPT !["years"] = asked + 1, !["data"] = asked + 2]
    /\ requests' = requests \cup {Request(asked + 1, "years", param),
                                  Request(asked + 2, "data", year)}

-----------------------------------------------------------------------------
(* What the user does.                                                      *)
SetTab(tab) ==
    /\ nav' = [tab |-> tab, year |-> None]
    /\ nav' # nav
    /\ UNCHANGED <<server, url, shelf, wire>>

HandleYearChange(y) ==
    /\ url.tab = "watched" /\ selected # None /\ y \in years /\ y # selected
    /\ selected' = y /\ nav' = [tab |-> "watched", year |-> y]
    /\ Ask(requests, "data", y) /\ loading' = TRUE
    /\ UNCHANGED <<server, url, years, data, items, more, last, muddled>>

\* The URL changes and the effects run: fetchWantToWatch, or fetchWatchedYears and,
\* when the tab has changed, fetchWatchedByYear for the year selected before.
Navigate ==
    /\ nav # url
    /\ url' = nav
    /\ LET back == url.tab # "watched" /\ selected # None
       IN  \/ /\ nav.tab = "want_to_watch"
              /\ Ask(requests, "wants", None) /\ loading' = TRUE
           \/ /\ nav.tab = "watched" /\ ~back
              /\ Ask(requests, "years", nav.year) /\ UNCHANGED loading
           \/ /\ nav.tab = "watched" /\ back
              /\ AskBoth(nav.year, selected) /\ loading' = TRUE
    /\ UNCHANGED <<server, nav, years, selected, data, items, more, last, muddled>>

\* A form of the page has changed an entry (onMutate).
Mutate ==
    /\ url.tab = "watched" /\ ~loading /\ data # None /\ selected # None
    /\ Ask(requests, "data", selected) /\ loading' = TRUE
    /\ UNCHANGED <<server, url, nav, years, selected, data, items, more, last, muddled>>

LoadMore ==
    /\ url.tab = "want_to_watch" /\ ~loading /\ items # <<>> /\ more
    /\ \A q \in requests : q.kind # "more"                     \* wtwLoadingMore
    /\ Ask(requests, "more", Len(items))
    /\ UNCHANGED <<server, url, nav, shelf, last, muddled>>

-----------------------------------------------------------------------------
(* The server.                                                              *)

\* Fault (for a mutant): there is more whenever the piece is full.
IsFull(offset, piece) == Len(piece) = Limit

HasMore(offset, piece) == offset + Len(piece) < Len(wants)

GetWantToWatchAll(offset) ==
    LET end   == IF offset + Limit < Len(wants) THEN offset + Limit ELSE Len(wants)
        piece == SubSeq(wants, offset + 1, end)
    IN  [years |-> {}, items |-> piece, more |-> HasMore(offset, piece)]

Answer(q) ==
    CASE q.kind = "years" -> [Nothing EXCEPT !.years = watched]
      [] q.kind = "data"  -> Nothing
      [] q.kind = "wants" -> GetWantToWatchAll(0)
      [] q.kind = "more"  -> GetWantToWatchAll(q.arg)

Serve(q) ==
    /\ ~q.served
    /\ requests' = (requests \ {q}) \cup {[q EXCEPT !.served = TRUE, !.got = Answer(q)]}
    /\ UNCHANGED <<server, url, nav, shelf, asked, sent, last, muddled>>

\* Entries come and go in another tab.
Elsewhere ==
    /\ changes < MaxChanges /\ changes' = changes + 1
    /\ \/ watched' \in SUBSET Years /\ UNCHANGED <<wants, requests, muddled>>
       \/ /\ wants' \in Arrangements(Titles) /\ UNCHANGED watched
          /\ requests' = {[q EXCEPT !.old = @ \/ q.served] : q \in requests}
          /\ muddled' = TRUE
    /\ UNCHANGED <<url, nav, shelf, asked, sent, last>>

-----------------------------------------------------------------------------
(* Answers.                                                                 *)
Newest(s) == CHOOSE y \in s : \A z \in s : z <= y

\* The year the page chooses, for the one its request remembers from the URL.
Chosen(param, ys) ==
    CASE param \in ys    -> param
      [] param \notin ys -> IF ThisYear \in ys THEN ThisYear ELSE IF ys = {} THEN None ELSE Newest(ys)

\* years and selectedYear are set, and another year makes its effect ask for the titles.
YearsSet(q, ys, y) ==
    /\ years' = ys /\ selected' = y
    /\ \/ /\ y \notin {selected, None} /\ url.tab = "watched"
          /\ Ask(requests \ {q}, "data", y) /\ loading' = TRUE
       \/ /\ y \in {selected, None} \/ url.tab # "watched"
          /\ requests' = requests \ {q} /\ UNCHANGED <<asked, sent>>
          /\ loading' = (loading /\ y # None)
    /\ UNCHANGED <<server, url, nav, data, items, more, muddled>>

Came(q, ok) == last' = [last EXCEPT ![q.kind] = IF ok THEN q.n ELSE 0]

YearsCome(q) == q.kind = "years" /\ q.served /\ YearsSet(q, q.got.years, Chosen(q.arg, q.got.years)) /\ Came(q, TRUE)

YearsFail(q) == q.kind = "years" /\ YearsSet(q, {}, None) /\ Came(q, FALSE)

\* The titles of a year, and then the likes of their reviews; either may fail.
DataComes(q) ==
    /\ q.kind = "data"
    /\ \/ q.served /\ data' = q.arg /\ Came(q, TRUE)
       \/ data' = None /\ Came(q, FALSE)
    /\ loading' = FALSE
    /\ requests' = requests \ {q}
    /\ UNCHANGED <<server, url, nav, years, selected, items, more, asked, sent, muddled>>

WantsCome(q) ==
    /\ q.kind = "wants"
    /\ \/ q.served /\ items' = q.got.items /\ more' = q.got.more /\ muddled' = q.old /\ Came(q, TRUE)
       \/ UNCHANGED <<items, more, muddled>> /\ Came(q, FALSE)
    /\ loading' = FALSE
    /\ requests' = requests \ {q}
    /\ UNCHANGED <<server, url, nav, years, selected, data, asked, sent>>

\* A first piece has been put in place of what the request was to continue.
Overtaken(q) == last["wants"] > q.n \/ Len(items) # q.arg

MoreCome(q) ==
    /\ q.kind = "more"
    /\ \/ /\ q.served /\ items' = items \o q.got.items /\ more' = q.got.more
          /\ muddled' = (muddled \/ q.old \/ Overtaken(q))
          /\ Came(q, TRUE)
       \/ UNCHANGED <<items, more, muddled>> /\ Came(q, FALSE)
    /\ requests' = requests \ {q}
    /\ UNCHANGED <<server, url, nav, years, selected, data, loading, asked, sent>>

Next ==
    \/ /\ asked + 2 <= MaxRequests
       /\ \/ \E t \in ActiveStatuses : SetTab(t)
          \/ \E y \in Years : HandleYearChange(y)
          \/ Mutate \/ LoadMore
    \/ asked < MaxRequests /\ Navigate
    \/ Elsewhere
    \/ \E q \in requests : Serve(q) \/ YearsCome(q) \/ YearsFail(q) \/ DataComes(q) \/ WantsCome(q) \/ MoreCome(q)

Spec == Init /\ [][Next]_pageVars

-----------------------------------------------------------------------------
\* State and requests are of their shapes.
TypeOK ==
    /\ watched \subseteq Years /\ wants \in Arrangements(Titles)
    /\ {url, nav} \subseteq [tab : ActiveStatuses, year : Years \cup {None}]
    /\ years \subseteq Years /\ {selected, data} \subseteq Years \cup {None}
    /\ Elements(items) \subseteq Titles
    /\ {more, loading, muddled} \subseteq BOOLEAN
    /\ \A q \in requests : q.n \in 1 .. asked /\ q.kind \in Kinds

AtRest == nav = url /\ requests = {}

\* The answer that came last was that of the newest request.
InOrder(k) == last[k] = sent[k]

YearAgrees ==
    url.tab = "watched" /\ InOrder("years") /\ InOrder("data") =>
        /\ url.year \in years => selected = url.year
        /\ selected \in years => data = selected
        /\ selected \in years <=> years # {}

WantsAgree ==
    url.tab = "want_to_watch" /\ InOrder("wants") /\ ~muddled =>
        IsBeginning(items, wants) /\ more = (Len(items) < Len(wants))

\* Once every answer is in, nothing is shown as loading.  Unless an older answer came
\* last, the year selected is the one of the URL and its titles are shown; unless the
\* list has changed in between, the titles to watch are a beginning of it without
\* gap or repetition, and the page knows whether there are more.
PageSettles == AtRest => ~loading /\ YearAgrees /\ WantsAgree

=============================================================================
