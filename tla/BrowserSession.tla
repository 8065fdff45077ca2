--------------------------- MODULE BrowserSession ---------------------------
(***************************************************************************)
(* The session as the tabs of one browser see it.  The tabs share the      *)
(* cookies; each keeps the user it shows, the state of auth-session and    *)
(* its requests.  Refresh and logout run one at a time under a Web Lock    *)
(* (or, without one, one at a time per tab), social sign-in is a           *)
(* navigation outside that order, and tabs tell each other of what they    *)
(* did over a BroadcastChannel.                                            *)
(*                                                                         *)
(* A generation counter is kept as what it decides: whether a request was  *)
(* started in the current generation ("current").  A request reaches the   *)
(* server when it is sent; its answer, and the cookies it sets, arrive in  *)
(* a later step.                                                           *)
(***************************************************************************)
EXTENDS Integers, Sequences

CONSTANTS
    Tabs,
    Logins,      \* sign-ins, each starting a session of its own
    First,       \* the sign-in whose session the pages show at first
    Editors,     \* bound: the tabs on the profile page
    NetworkFails,\* bound: whether requests may fail
    HasLocks,    \* whether the browser has navigator.locks
    MaxTurns,    \* bound: rotations of one session
    MaxLoads,    \* bound: reloads
    MaxInbox,    \* bound: undelivered messages of a tab
    Nobody       \* no user, no cookie; also the answer 401

VARIABLES
    cookies,     \* [access, refresh]: the session's cookies
    live,        \* the refresh tokens the server accepts
    tab,         \* the state of each page
    queue,       \* the operations that wait or run, with those each comes after
    inbox,       \* messages of the channel not yet delivered
    loads,       \* reloads so far
    begun,       \* the sign-ins so far
    lost         \* history: sessions that rotated without the browser learning it

browserVars == <<cookies, live, tab, queue, inbox, loads, begun, lost>>

NoToken == [login |-> Nobody, turn |-> 0]
Tokens  == [login : Logins, turn : 0..MaxTurns]
Answers == {{n} : n \in Logins} \cup {{Nobody}, {}}    \* {} is a failure of the network

Idle      == [phase |-> "idle", answer |-> {}, current |-> FALSE]
NoRefresh == [phase |-> "idle", result |-> "ok", token |-> NoToken,
              current |-> FALSE, notify |-> FALSE]

Asked(answer) == [phase |-> "asked", answer |-> answer, current |-> TRUE]

(* What /users/me and the other protected requests can be answered now.    *)
Reply(jar) == {{jar.access}} \cup (IF NetworkFails THEN {{}} ELSE {})

FreshTab(restore, callback) ==
    [user |-> Nobody, loading |-> TRUE, cleared |-> FALSE, modal |-> FALSE,
     restore |-> Asked(restore), established |-> Idle, callback |-> callback,
     call |-> Idle, refresh |-> NoRefresh, logout |-> "idle"]

(* The pages have loaded and show the user of the first sign-in.           *)
Init ==
    /\ cookies = [access |-> First, refresh |-> [login |-> First, turn |-> 0]]
    /\ live = {[login |-> First, turn |-> 0]}
    /\ tab = [t \in Tabs |-> [FreshTab({}, Idle) EXCEPT !.user = First, !.loading = FALSE,
                                                       !.restore = Idle]]
    /\ queue = {}
    /\ inbox = [t \in Tabs |-> <<>>]
    /\ loads = 0
    /\ begun = {First}
    /\ lost = {}

-----------------------------------------------------------------------------
(* Generations.                                                            *)

Stale(request) == [request EXCEPT !.current = FALSE]

NewContextGeneration(p) ==
    [p EXCEPT !.restore = Stale(@), !.established = Stale(@)]

NewSessionGeneration(p, cleared) ==
    [p EXCEPT !.refresh = Stale(@), !.cleared = cleared]

SignedOutStillLoading(p, modal) ==      \* a slip: the loading state is left as it was
    [NewContextGeneration(p) EXCEPT !.user = Nobody, !.modal = modal]

SignedOutPage(p, modal) ==
    [NewContextGeneration(p) EXCEPT !.user = Nobody, !.loading = FALSE, !.modal = modal]

(* handleAuthSuccess, without the message to the other tabs.               *)
SignedInPage(p, n) ==
    NewSessionGeneration(
        [NewContextGeneration(p) EXCEPT !.user = n, !.loading = FALSE, !.modal = FALSE],
        FALSE)

Post(t, message) ==
    /\ \A u \in Tabs \ {t} : Len(inbox[u]) < MaxInbox
    /\ inbox' = [u \in Tabs |-> IF u = t THEN inbox[u] ELSE Append(inbox[u], message)]

-----------------------------------------------------------------------------
(* runSessionOperation: an operation runs when none of its queue is before *)
(* it.  A pair <<d, e>> of queue says that e does not run before d; one of *)
(* an operation with itself, that it is there.                             *)

OwnTab(d, e) == d[1] = e[1]            \* a slip: the lock is never asked for
SameQueue(d, e) == HasLocks \/ d[1] = e[1]

Before(e) == {p[1] : p \in {q \in queue : SameQueue(q[1], e)}}
Turn(e) == <<e, e>> \in queue /\ \A p \in queue : p[2] = e => p[1] = e

Enqueue(e) == queue' = queue \cup ((Before(e) \cup {e}) \X {e})
Dequeue(e) == queue' = {p \in queue : p[1] # e /\ p[2] # e}
Forget(t)  == queue' = {p \in queue : p[1][1] # t /\ p[2][1] # t}

(* refreshSession: callers of one tab share the refresh that is under way. *)
JoinRefresh(t, p, notify) ==
    IF p.refresh.phase = "idle"
    THEN /\ tab' = [tab EXCEPT ![t] = [p EXCEPT !.refresh =
                      [NoRefresh EXCEPT !.phase = "queued", !.current = TRUE,
                                        !.notify = notify]]]
         /\ Enqueue(<<t, "refresh">>)
    ELSE /\ tab' = [tab EXCEPT ![t] = [p EXCEPT !.refresh.notify = @ \/ notify]]
         /\ UNCHANGED queue

(* POST /auth/refresh: a live token is exchanged for its successor.        *)
SendRefresh(t) ==
    LET token == cookies.refresh
        next  == [token EXCEPT !.turn = @ + 1]
        Outcome(result, newToken) ==
            tab' = [tab EXCEPT ![t].refresh = [@ EXCEPT !.phase = "asked", !.result = result,
                                                        !.token = newToken]]
    IN  /\ Turn(<<t, "refresh">>)
        /\ tab[t].refresh.phase = "queued"
        /\ \/ /\ token \in live
              /\ token.turn < MaxTurns
              /\ live' = (live \ {token}) \cup {next}
              /\ \/ Outcome("ok", next) /\ UNCHANGED lost
                 \/ NetworkFails /\ Outcome("failed", next) /\ lost' = lost \cup {token.login}
           \/ /\ token \notin live \/ token.turn = MaxTurns   \* the bound ends the session
              /\ live' = live \ {token}
              /\ Outcome("refused", token)
              /\ UNCHANGED lost
           \/ /\ NetworkFails
              /\ Outcome("failed", token)
              /\ UNCHANGED <<live, lost>>
    /\ UNCHANGED <<cookies, queue, inbox, loads, begun>>

(* The callers that wait for the refresh go on: the restoration and the    *)
(* call ask again, or give up.                                             *)
AfterRefresh(p, reply) ==
    LET again(r)  == [r EXCEPT !.phase = "again", !.answer = reply]
        waits(r)  == r.phase = "refreshing"
        restored  == [p EXCEPT !.restore = IF waits(p.restore) THEN again(@) ELSE @,
                               !.call    = IF waits(p.call) THEN again(@) ELSE @]
    IN  [restored EXCEPT !.refresh = NoRefresh]

GiveUp(p) ==
    LET waits(r) == r.phase = "refreshing"
        last     == waits(p.restore) /\ p.restore.current
    IN  [p EXCEPT !.refresh = NoRefresh,
                  !.call    = IF waits(@) THEN Idle ELSE @,
                  !.restore = IF waits(@) THEN Idle ELSE @,
                  !.user    = IF last THEN Nobody ELSE @,
                  !.loading = IF last THEN FALSE ELSE @]

RefreshSucceeds(t) ==
    LET jar == [access |-> tab[t].refresh.token.login, refresh |-> tab[t].refresh.token]
    IN  /\ tab[t].refresh.phase = "asked"
        /\ tab[t].refresh.result = "ok"
        /\ cookies' = jar
        /\ \E reply \in Reply(jar) : tab' = [tab EXCEPT ![t] = AfterRefresh(@, reply)]
        /\ Dequeue(<<t, "refresh">>)
        /\ UNCHANGED <<live, inbox, loads, begun, lost>>

(* A refused or failed refresh asks for a sign-in, in this tab and the     *)
(* others, unless the session ended or began in the meantime.              *)
Notifies(p) == p.refresh.notify /\ p.refresh.current /\ ~p.cleared

RefreshFails(t) ==
    /\ tab[t].refresh.phase = "asked"
    /\ tab[t].refresh.result # "ok"
    /\ IF Notifies(tab[t])
       THEN /\ tab' = [tab EXCEPT ![t] = GiveUp(SignedOutPage(@, TRUE))]
            /\ Post(t, "auth-required")
       ELSE /\ tab' = [tab EXCEPT ![t] = GiveUp(@)]
            /\ UNCHANGED inbox
    /\ Dequeue(<<t, "refresh">>)
    /\ UNCHANGED <<cookies, live, loads, begun, lost>>

-----------------------------------------------------------------------------
(* Pages.                                                                  *)

(* A navigation drops the page's requests; a refresh on its way may still  *)
(* set its cookies.                                                        *)
Unload(t, arrives) ==
    LET r == tab[t].refresh
        rotated == r.phase = "asked" /\ r.result = "ok"
    IN  /\ Forget(t)
        /\ lost' = IF rotated /\ ~arrives THEN lost \cup {r.token.login} ELSE lost
        /\ arrives => rotated

Reload(t) ==
    /\ loads < MaxLoads
    /\ loads' = loads + 1
    /\ \E arrives \in BOOLEAN :
         LET token == tab[t].refresh.token
         IN  /\ Unload(t, arrives)
             /\ cookies' = IF arrives THEN [access |-> token.login, refresh |-> token]
                                      ELSE cookies
             /\ \E reply \in Reply(cookies') : tab' = [tab EXCEPT ![t] = FreshTab(reply, Idle)]
    /\ inbox' = [inbox EXCEPT ![t] = <<>>]
    /\ UNCHANGED <<live, begun>>

(* The provider's callback sets the cookies of a new session and sends the *)
(* tab to /auth/callback, where the page restores the session and          *)
(* useAuthCallback asks for its user.                                      *)
SocialLogin(t, n) ==
    /\ n \notin begun
    /\ begun' = begun \cup {n}
    /\ Unload(t, FALSE)
    /\ LET token == [login |-> n, turn |-> 0]
           jar   == [access |-> n, refresh |-> token]
       IN  /\ live' = live \cup {token}
           /\ cookies' = jar
           /\ \E restore, callback \in Reply(jar) :
                tab' = [tab EXCEPT ![t] = FreshTab(restore, Asked(callback))]
    /\ inbox' = [inbox EXCEPT ![t] = <<>>]
    /\ UNCHANGED loads

(* useAuthCallback: handleAuthSuccess with the user that /users/me named.  *)
CallbackAnswered(t) ==
    /\ tab[t].callback.phase = "asked"
    /\ LET n == tab[t].callback.answer
           p == [tab[t] EXCEPT !.callback = Idle]
       IN  \/ /\ n # {} /\ n # {Nobody}
              /\ \E user \in n : tab' = [tab EXCEPT ![t] = SignedInPage(p, user)]
              /\ Post(t, "session-established")
           \/ /\ n = {} \/ n = {Nobody}
              /\ tab' = [tab EXCEPT ![t] = p]
              /\ UNCHANGED inbox
    /\ UNCHANGED <<cookies, live, queue, loads, begun, lost>>

ApplyAlways(p, user) ==                  \* a slip: a stale result counts too
    [p EXCEPT !.user = user, !.loading = FALSE, !.restore = Idle]

(* restoreSession: a result counts only in the generation it began in.     *)
Apply(p, user) ==
    IF p.restore.current THEN [p EXCEPT !.user = user, !.loading = FALSE, !.restore = Idle]
                         ELSE [p EXCEPT !.restore = Idle]

RestoreAnswered(t) ==
    LET r == tab[t].restore
    IN  /\ r.phase \in {"asked", "again"}
        /\ \/ /\ r.phase = "asked" /\ r.answer = {Nobody}
              /\ JoinRefresh(t, [tab[t] EXCEPT !.restore.phase = "refreshing"], FALSE)
           \/ /\ r.phase = "again" \/ r.answer # {Nobody}
              /\ \E user \in IF r.answer = {} THEN {Nobody} ELSE r.answer :
                   tab' = [tab EXCEPT ![t] = Apply(@, user)]
              /\ UNCHANGED queue
        /\ UNCHANGED <<cookies, live, inbox, loads, begun, lost>>

(* handleSessionEstablished: the answer to the request of the last message.*)
EstablishedAnswered(t) ==
    LET e == tab[t].established
        p == [tab[t] EXCEPT !.established = Idle]
    IN  /\ e.phase = "asked"
        /\ tab' = [tab EXCEPT ![t] =
             IF ~e.current THEN p
             ELSE IF e.answer \in {{}, {Nobody}} THEN [p EXCEPT !.loading = FALSE]
             ELSE [p EXCEPT !.user = CHOOSE n \in e.answer : TRUE, !.loading = FALSE,
                            !.modal = FALSE]]
        /\ UNCHANGED <<cookies, live, queue, inbox, loads, begun, lost>>

-----------------------------------------------------------------------------
(* A profile edit of the page, through api.ts: a 401 refreshes the session *)
(* and tries once more; an answer goes to updateUser.                      *)

Edit(t) ==
    /\ t \in Editors
    /\ tab[t].user # Nobody
    /\ tab[t].call = Idle
    /\ \E reply \in Reply(cookies) : tab' = [tab EXCEPT ![t].call = Asked(reply)]
    /\ UNCHANGED <<cookies, live, queue, inbox, loads, begun, lost>>

EditRefused(t) ==
    /\ tab[t].call.phase = "asked"
    /\ tab[t].call.answer = {Nobody}
    /\ JoinRefresh(t, [tab[t] EXCEPT !.call.phase = "refreshing"], TRUE)
    /\ UNCHANGED <<cookies, live, inbox, loads, begun, lost>>

EditFails(t) ==
    /\ \/ tab[t].call.phase \in {"asked", "again"} /\ tab[t].call.answer = {}
       \/ tab[t].call.phase = "again" /\ tab[t].call.answer = {Nobody}
    /\ tab' = [tab EXCEPT ![t].call = Idle]
    /\ UNCHANGED <<cookies, live, queue, inbox, loads, begun, lost>>

EditSaved(t) ==
    /\ tab[t].call.phase \in {"asked", "again"}
    /\ \E n \in tab[t].call.answer \ {Nobody} :
         tab' = [tab EXCEPT ![t].call = Idle, ![t].user = n]
    /\ UNCHANGED <<cookies, live, queue, inbox, loads, begun, lost>>

-----------------------------------------------------------------------------
(* Logout.                                                                 *)

Logout(t) ==
    /\ tab[t].user # Nobody
    /\ tab[t].logout = "idle"
    /\ tab' = [tab EXCEPT ![t] =
         [NewSessionGeneration(NewContextGeneration(@), TRUE)
             EXCEPT !.user = Nobody, !.modal = FALSE, !.logout = "queued"]]
    /\ Enqueue(<<t, "logout">>)
    /\ UNCHANGED <<cookies, live, inbox, loads, begun, lost>>

(* POST /auth/logout; a request that is lost on its way reaches nobody.    *)
SendLogout(t) ==
    /\ Turn(<<t, "logout">>)
    /\ tab[t].logout = "queued"
    /\ \/ /\ live' = live \ {cookies.refresh}
          /\ tab' = [tab EXCEPT ![t].logout = "cleared"]
       \/ /\ NetworkFails
          /\ live' \in {live, live \ {cookies.refresh}}
          /\ tab' = [tab EXCEPT ![t].logout = "failed"]
    /\ UNCHANGED <<cookies, queue, inbox, loads, begun, lost>>

(* Whatever became of the request, the tabs are told of the end.           *)
LogoutAnswered(t) ==
    /\ tab[t].logout \in {"cleared", "failed"}
    /\ cookies' = IF tab[t].logout = "cleared"
                  THEN [access |-> Nobody, refresh |-> NoToken] ELSE cookies
    /\ tab' = [tab EXCEPT ![t] = [SignedOutPage(@, FALSE) EXCEPT !.logout = "idle"]]
    /\ Post(t, "session-cleared")
    /\ Dequeue(<<t, "logout">>)
    /\ UNCHANGED <<live, loads, begun, lost>>

-----------------------------------------------------------------------------
(* Messages of the other tabs.                                             *)

Receive(t) ==
    /\ inbox[t] # <<>>
    /\ inbox' = [inbox EXCEPT ![t] = Tail(@)]
    /\ \/ /\ Head(inbox[t]) = "auth-required"
          /\ tab' = [tab EXCEPT ![t] = SignedOutPage(@, TRUE)]
       \/ /\ Head(inbox[t]) = "session-cleared"
          /\ tab' = [tab EXCEPT ![t] = SignedOutPage(NewSessionGeneration(@, TRUE), FALSE)]
       \/ /\ Head(inbox[t]) = "session-established"
          /\ \E reply \in Reply(cookies) :
               tab' = [tab EXCEPT ![t] =
                         [NewContextGeneration(NewSessionGeneration(@, FALSE))
                             EXCEPT !.established = Asked(reply)]]
    /\ UNCHANGED <<cookies, live, queue, loads, begun, lost>>

-----------------------------------------------------------------------------
(* Time and the server.                                                    *)

AccessExpires ==
    /\ cookies.access # Nobody
    /\ cookies' = [cookies EXCEPT !.access = Nobody]
    /\ UNCHANGED <<live, tab, queue, inbox, loads, begun, lost>>

SessionEnds(token) ==
    /\ token \in live
    /\ live' = live \ {token}
    /\ UNCHANGED <<cookies, tab, queue, inbox, loads, begun, lost>>

\* What the server and the channel do for a tab.
Answered(t) ==
    \/ SendRefresh(t) \/ RefreshSucceeds(t) \/ RefreshFails(t)
    \/ RestoreAnswered(t) \/ EstablishedAnswered(t) \/ CallbackAnswered(t)
    \/ SendLogout(t) \/ LogoutAnswered(t) \/ Receive(t)

Next ==
    \/ \E t \in Tabs : \/ Answered(t) \/ Reload(t) \/ Logout(t)
                      \/ Edit(t) \/ EditRefused(t) \/ EditFails(t) \/ EditSaved(t)
    \/ \E t \in Tabs, n \in Logins : SocialLogin(t, n)
    \/ AccessExpires
    \/ \E token \in Tokens : SessionEnds(token)

(* The requests of a tab are answered or fail, and its messages delivered. *)
Fairness == \A t \in Tabs : WF_browserVars(Answered(t))

Spec == Init /\ [][Next]_browserVars /\ Fairness

-----------------------------------------------------------------------------
(* Every part of the state has its type.                                   *)
TypeOK ==
    /\ cookies \in [access : Logins \cup {Nobody}, refresh : Tokens \cup {NoToken}]
    /\ live \subseteq Tokens
    /\ \A t \in Tabs :
         /\ tab[t].user \in Logins \cup {Nobody}
         /\ tab[t].loading \in BOOLEAN /\ tab[t].cleared \in BOOLEAN
         /\ tab[t].modal \in BOOLEAN
         /\ tab[t].restore.phase \in {"idle", "asked", "refreshing", "again"}
         /\ tab[t].call.phase \in {"idle", "asked", "refreshing", "again"}
         /\ tab[t].refresh.phase \in {"idle", "queued", "asked"}
         /\ tab[t].restore.answer \in Answers
         /\ tab[t].logout \in {"idle", "queued", "cleared", "failed"}
         /\ inbox[t] \in Seq({"auth-required", "session-cleared", "session-established"})
    /\ loads \in 0..MaxLoads
    /\ begun \subseteq Logins /\ lost \subseteq begun

(* Where the browser has locks, a refresh is refused only when the session *)
(* it was sent for is gone: no two tabs present the same token, unless an  *)
(* answer with the successor was lost.                                     *)
RefusedMeansGone ==
    HasLocks =>
        \A t \in Tabs :
            LET r == tab[t].refresh
            IN  r.phase = "asked" /\ r.result = "refused" =>
                    \/ r.token = NoToken
                    \/ r.token.login \in lost
                    \/ \A token \in live : token.login # r.token.login

(* A tab that was signed out (by its own logout or another tab's) shows no *)
(* user again until a session is established: the answers of requests that *)
(* were on their way are dropped.  Only a profile edit that is answered    *)
(* after the logout shows its user, because updateUser has no such guard.  *)
StaysOut ==
    \A t \in Tabs :
        tab[t].cleared /\ tab'[t].cleared /\ tab'[t].user # tab[t].user =>
            tab'[t].user = Nobody \/ EditSaved(t)
ClearedTabStaysOut == [][StaysOut]_browserVars

(* Every page ends its loading state: whichever event makes a restoration  *)
(* stale ends it in its place.                                             *)
LoadingEnds == \A t \in Tabs : tab[t].loading ~> ~tab[t].loading
=============================================================================
