------------------------------ MODULE AdminUsers ------------------------------
(***************************************************************************)
(* The administrator's list of users (UserManagement): a page of those that *)
(* a search and a filter by status select, read anew when one of the three  *)
(* changes and after a user was suspended or restored.  Requests are not    *)
(* cancelled.  A dialog asks before a status is changed and covers the rest *)
(* until that is answered.                                                 *)
(***************************************************************************)
EXTENDS Naturals, Arrays

CONSTANTS
    Users,        \* numbers, in the order of createdAt
    Admins,       \* users with the role ADMIN
    Searches,     \* the sets of users a search may select
    Limit,        \* users on a page (20)
    MaxRequests   \* bound on the requests the user causes

Statuses == {"ACTIVE", "SUSPENDED"}
Filters  == Statuses \cup {"all"}           \* "all" is the empty statusFilter
Closed   == [user |-> 0, action |-> "none"]

VARIABLES
    status,    \* of each user on the server
    query,     \* page, search, statusFilter
    data,      \* <<>> or <<the answer shown>>: [users, page, pages]
    loading,   \* loading
    failed,    \* error
    modal,     \* confirmModal, or Closed
    acting,    \* actionLoading
    asked,     \* requests so far
    requests,  \* in flight: [n, kind, arg, phase, got, old]
    muddled    \* history: what is shown is not the answer to the newest query

adminVars == <<status, query, data, loading, failed, modal, acting, asked, requests, muddled>>

Unread == [users |-> <<>>, page |-> 0, pages |-> 0]

Request(n, kind, arg) ==
    [n |-> n, kind |-> kind, arg |-> arg, phase |-> "sent", got |-> Unread, old |-> FALSE]

\* fetchUsers with what page, search and statusFilter are.
Fetch(rest, kind, q) ==
    /\ loading' = TRUE /\ failed' = FALSE
    /\ asked' = asked + 1 /\ requests' = rest \cup {Request(asked + 1, kind, q)}

Init ==
    /\ status \in [Users -> Statuses]
    /\ query = [page |-> 1, search |-> Users, filter |-> "all"]
    /\ data = <<>> /\ loading = TRUE /\ failed = FALSE
    /\ modal = Closed /\ acting = FALSE
    /\ asked = 1 /\ requests = {Request(1, "fetch", query)} /\ muddled = FALSE

-----------------------------------------------------------------------------
(* What the administrator does.                                             *)
Uncovered == modal = Closed /\ asked < MaxRequests

\* The effect asks again when page, search or statusFilter has changed.
Choose(q) ==
    /\ Uncovered /\ q # query
    /\ query' = q
    /\ Fetch(requests, "fetch", q)
    /\ UNCHANGED <<status, data, modal, acting, muddled>>

HandleSearch(s)       == Choose([page |-> 1, search |-> s, filter |-> query.filter])
HandleStatusFilter(f) == Choose([page |-> 1, search |-> query.search, filter |-> f])

\* The buttons are there while the list has several pages.
Turn ==
    /\ data # <<>> /\ data[1].pages > 1
    /\ \/ query.page > 1 /\ Choose([query EXCEPT !.page = @ - 1])
       \/ /\ query.page < data[1].pages
          /\ Choose([query EXCEPT !.page = @ + 1])

\* A row offers the other status, unless its user is an administrator.
HandleStatusChange ==
    /\ Uncovered /\ ~loading /\ data # <<>>
    /\ \E row \in Elements(data[1].users) :
         /\ row.id \notin Admins
         /\ modal' = [user |-> row.id,
                      action |-> IF row.status = "ACTIVE" THEN "SUSPENDED" ELSE "ACTIVE"]
    /\ UNCHANGED <<status, query, data, loading, failed, acting, asked, requests, muddled>>

Cancel ==
    /\ modal # Closed /\ ~acting /\ modal' = Closed
    /\ UNCHANGED <<status, query, data, loading, failed, acting, asked, requests, muddled>>

Confirm ==
    /\ modal # Closed /\ ~acting /\ acting' = TRUE
    /\ asked < MaxRequests /\ asked' = asked + 1
    /\ requests' = requests \cup {Request(asked + 1, "patch", query)}
    /\ UNCHANGED <<status, query, data, loading, failed, modal, muddled>>

-----------------------------------------------------------------------------
(* The server.                                                              *)
\* ORDER BY createdAt DESC.
NewestFirst(s) ==
    CHOOSE rows \in Orderings(s) : \A i, j \in DOMAIN rows : i < j => rows[i] > rows[j]

\* Those that search and status select.
Selected(q) == NewestFirst({u \in q.search : q.filter \in {"all", status[u]}})

FindAllForAdmin(q) ==
    LET rows  == Selected(q)
        first == (q.page - 1) * Limit
        last  == IF first + Limit < Len(rows) THEN first + Limit ELSE Len(rows)
    IN  [users |-> [i \in 1 .. (IF last < first THEN 0 ELSE last - first) |->
                      [id |-> rows[first + i], status |-> status[rows[first + i]]]],
         page |-> q.page, pages |-> (Len(rows) + Limit - 1) \div Limit]

Outdated(rest) == {[r EXCEPT !.old = @ \/ r.phase = "ok"] : r \in rest}

ServeFetch(q) ==
    /\ q.kind # "patch"
    /\ requests' = (requests \ {q}) \cup {[q EXCEPT !.phase = "ok", !.got = FindAllForAdmin(q.arg)]}
    /\ UNCHANGED <<status, muddled>>

\* updateStatusByAdmin; its answer may be lost.
ServePatch(q) ==
    /\ q.kind = "patch" /\ modal.user \notin Admins
    /\ status' = [status EXCEPT ![modal.user] = modal.action]
    /\ \E phase \in {"ok", "error"} :
         /\ requests' = Outdated(requests \ {q}) \cup {[q EXCEPT !.phase = phase]}
         /\ muddled' = (muddled \/ phase = "error")

Reject(q) ==
    /\ requests' = (requests \ {q}) \cup {[q EXCEPT !.phase = "error"]}
    /\ UNCHANGED <<status, muddled>>

Serve(q) ==
    /\ q.phase = "sent"
    /\ ServeFetch(q) \/ ServePatch(q) \/ Reject(q)
    /\ UNCHANGED <<query, data, loading, failed, modal, acting, asked>>

-----------------------------------------------------------------------------
(* Answers.                                                                 *)
FetchComes(q) ==
    /\ q.kind # "patch"
    /\ \/ q.phase = "ok" /\ data' = <<q.got>> /\ UNCHANGED failed /\ muddled' = (q.old \/ q.arg # query)
       \/ q.phase = "error" /\ failed' = TRUE /\ UNCHANGED <<data, muddled>>
    /\ loading' = FALSE
    /\ acting' = (acting /\ q.kind # "reload")
    /\ requests' = requests \ {q}
    /\ UNCHANGED <<status, query, modal, asked>>

\* The dialog closes and the list is read anew; an error is shown in the dialog.
PatchComes(q) ==
    /\ q.kind = "patch"
    /\ \/ q.phase = "ok" /\ modal' = Closed /\ Fetch(requests \ {q}, "reload", q.arg) /\ UNCHANGED acting
       \/ /\ q.phase = "error" /\ acting' = FALSE /\ requests' = requests \ {q}
          /\ UNCHANGED <<modal, loading, failed, asked>>
    /\ UNCHANGED <<status, query, data, muddled>>

Next ==
    \/ \E s \in Searches : HandleSearch(s)
    \/ \E f \in Filters : HandleStatusFilter(f)
    \/ Turn \/ HandleStatusChange \/ Cancel \/ Confirm
    \/ \E q \in requests : Serve(q) \/ FetchComes(q) \/ PatchComes(q)

Spec == Init /\ [][Next]_adminVars

-----------------------------------------------------------------------------
\* State and requests are of their shapes; the dialog asks about no administrator.
TypeOK ==
    /\ status \in [Users -> Statuses]
    /\ query.page \in Nat \ {0} /\ query.search \in Searches \cup {Users} /\ query.filter \in Filters
    /\ {loading, failed, acting, muddled} \subseteq BOOLEAN
    /\ modal.user \in (Users \ Admins) \cup {0} /\ modal.action \in Statuses \cup {"none"}
    /\ \A q \in requests, r \in requests : q.kind # "fetch" /\ r.kind # "fetch" => q = r

\* Once every answer is in, nothing is shown as loading or as being done.  Unless a
\* request has failed, an answer to an older query came last or was read before a
\* status changed, the list then is the page of what search and status select, with
\* every user's status.
UsersAgree ==
    requests = {} =>
        /\ ~loading /\ ~acting
        /\ ~failed /\ ~muddled => data = <<FindAllForAdmin(query)>>

=============================================================================
