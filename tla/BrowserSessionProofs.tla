------------------------ MODULE BrowserSessionProofs ------------------------
(***************************************************************************)
(* Proofs about BrowserSession, for any number of tabs, sign-ins and        *)
(* reloads.                                                                *)
(***************************************************************************)
EXTENDS BrowserSession, SequenceTheorems, TLAPS

\* What the proofs ask of the constants.
Constants ==
    First \in Logins /\ Nobody \notin Logins /\ MaxTurns \in Nat /\ MaxLoads \in Nat

-----------------------------------------------------------------------------
(* Shapes.                                                                 *)

People == Logins \cup {Nobody}

Request ==
    [phase : {"idle", "asked", "refreshing", "again"}, answer : Answers,
     current : BOOLEAN]

Refresh ==
    [phase : {"idle", "queued", "asked"}, result : {"ok", "refused", "failed"},
     token : Tokens \cup {NoToken}, current : BOOLEAN, notify : BOOLEAN]

Page ==
    [user : People, loading : BOOLEAN, cleared : BOOLEAN, modal : BOOLEAN,
     restore : Request, established : Request, callback : Request, call : Request,
     refresh : Refresh, logout : {"idle", "queued", "cleared", "failed"}]

Jar == [access : People, refresh : Tokens \cup {NoToken}]

Shape == cookies \in Jar /\ live \subseteq Tokens /\ tab \in [Tabs -> Page]

LEMMA AnswersArePeople == \A a \in Answers : a \subseteq People
BY DEF Answers, People

\* The operators on pages give pages.
LEMMA Generations ==
  ASSUME NEW p \in Page
  PROVE  /\ NewContextGeneration(p) \in Page
         /\ \A c \in BOOLEAN : NewSessionGeneration(p, c) \in Page
<1>1. p.restore \in Request /\ p.established \in Request /\ p.refresh \in Refresh
  BY DEF Page
<1>2. /\ \A r \in Request : Stale(r) \in Request
      /\ \A r \in Refresh : Stale(r) \in Refresh
  BY DEF Stale, Request, Refresh
<1>3. \A r, e \in Request : [p EXCEPT !.restore = r, !.established = e] \in Page
  BY DEF Page
<1>4. \A r \in Refresh, c \in BOOLEAN : [p EXCEPT !.refresh = r, !.cleared = c] \in Page
  BY DEF Page
<1>. QED BY <1>1, <1>2, <1>3, <1>4 DEF NewContextGeneration, NewSessionGeneration

\* What a request or a refresh is when it begins, and a page when it is loaded.
LEMMA Beginnings ==
  /\ NoRefresh \in Refresh /\ Idle \in Request
  /\ \A a \in Answers : Asked(a) \in Request
  /\ \A a \in Answers, c \in Request : FreshTab(a, c) \in Page
BY DEF Page, Request, Refresh, NoRefresh, Idle, Asked, People, Answers, FreshTab

LEMMA PageOperators ==
  ASSUME NEW p \in Page
  PROVE  /\ \A m \in BOOLEAN : SignedOutPage(p, m) \in Page
         /\ \A n \in People : SignedInPage(p, n) \in Page
         /\ \A n \in People : Apply(p, n) \in Page
<1>1. \A m \in BOOLEAN : SignedOutPage(p, m) \in Page
  BY Generations DEF SignedOutPage, Page, People
<1>2. ASSUME NEW n \in People PROVE SignedInPage(p, n) \in Page
  <2> DEFINE q == [NewContextGeneration(p) EXCEPT !.user = n, !.loading = FALSE,
                                                  !.modal = FALSE]
  <2>1. q \in Page
    BY Generations DEF Page
  <2> HIDE DEF q
  <2>2. NewSessionGeneration(q, FALSE) \in Page
    BY <2>1, Generations
  <2>. QED BY <2>2 DEF q, SignedInPage
<1>3. \A n \in People : Apply(p, n) \in Page
  BY Beginnings DEF Apply, Page, Request
<1>. QED BY <1>1, <1>2, <1>3

LEMMA WaitingOperators ==
  ASSUME NEW p \in Page
  PROVE  /\ GiveUp(p) \in Page
         /\ \A reply \in Answers : AfterRefresh(p, reply) \in Page
<1> USE Beginnings
<1>1. GiveUp(p) \in Page
  <2>1. \A f \in Refresh, c, r \in Request, u \in People, l \in BOOLEAN :
           [p EXCEPT !.refresh = f, !.call = c, !.restore = r, !.user = u, !.loading = l] \in Page
    BY DEF Page
  <2>2. /\ p.call \in Request /\ p.restore \in Request
        /\ p.user \in People /\ Nobody \in People /\ p.loading \in BOOLEAN
    BY DEF Page, People
  <2>. QED BY <2>1, <2>2 DEF GiveUp
<1>2. ASSUME NEW reply \in Answers PROVE AfterRefresh(p, reply) \in Page
  <2>1. \A f \in Refresh, c, r \in Request :
           [[p EXCEPT !.restore = r, !.call = c] EXCEPT !.refresh = f] \in Page
    BY DEF Page
  <2>2. \A r \in Request : [r EXCEPT !.phase = "again", !.answer = reply] \in Request
    BY DEF Request
  <2>. QED BY <2>1, <2>2 DEF AfterRefresh, Page
<1>. QED BY <1>1, <1>2

LEMMA Replies == ASSUME NEW jar \in Jar PROVE Reply(jar) \subseteq Answers
BY DEF Jar, Reply, People, Answers

\* A change of one page by a page keeps the shape.
LEMMA OnePage ==
  ASSUME tab \in [Tabs -> Page], NEW t \in Tabs, NEW p \in Page, tab' = [tab EXCEPT ![t] = p]
  PROVE  tab' \in [Tabs -> Page]
OBVIOUS

\* A caller that joins a refresh or starts one.
LEMMA Joined ==
  ASSUME tab \in [Tabs -> Page], NEW t \in Tabs, NEW p \in Page, NEW notify \in BOOLEAN,
         JoinRefresh(t, p, notify)
  PROVE  tab' \in [Tabs -> Page]
<1>1. [NoRefresh EXCEPT !.phase = "queued", !.current = TRUE, !.notify = notify] \in Refresh
  BY DEF NoRefresh, Refresh
<1>2. \A f \in Refresh : [p EXCEPT !.refresh = f] \in Page
  BY DEF Page
<1>3. [p EXCEPT !.refresh.notify = @ \/ notify] \in Page
  BY DEF Page, Refresh
<1>. QED BY <1>1, <1>2, <1>3, OnePage DEF JoinRefresh

\* A refresh that is sent is a refresh.
LEMMA Sent ==
  ASSUME NEW p \in Page, NEW result \in {"ok", "refused", "failed"},
         NEW token \in Tokens \cup {NoToken}
  PROVE  [p EXCEPT !.refresh = [@ EXCEPT !.phase = "asked", !.result = result,
                                         !.token = token]] \in Page
<1>1. [p.refresh EXCEPT !.phase = "asked", !.result = result, !.token = token] \in Refresh
  BY DEF Page, Refresh
<1>2. \A g \in Refresh : [p EXCEPT !.refresh = g] \in Page
  BY DEF Page
<1>. QED BY <1>1, <1>2

LEMMA InitShape == Constants /\ Init => Shape
<1> SUFFICES ASSUME Constants, Init PROVE Shape
  OBVIOUS
<1>1. FreshTab({}, Idle) \in Page
  BY Beginnings DEF Answers
<1>2. \A q \in Page, r \in Request :
        [q EXCEPT !.user = First, !.loading = FALSE, !.restore = r] \in Page
  BY DEF Page, People, Constants
<1>3. [FreshTab({}, Idle) EXCEPT !.user = First, !.loading = FALSE, !.restore = Idle] \in Page
  BY <1>1, <1>2, Beginnings
<1>. QED BY <1>3 DEF Init, Shape, Jar, People, Tokens, Constants

\* Refreshes.
LEMMA RefreshShape ==
  ASSUME Constants, Shape, NEW t \in Tabs,
         SendRefresh(t) \/ RefreshSucceeds(t) \/ RefreshFails(t)
  PROVE  Shape'
<1>1. CASE SendRefresh(t)
  <2>1. cookies' = cookies
    BY <1>1 DEF SendRefresh
  <2>2. cookies.refresh \in live /\ cookies.refresh.turn < MaxTurns
          => [cookies.refresh EXCEPT !.turn = @ + 1] \in Tokens
    BY DEF Shape, Tokens, Constants
  <2>3. live' \subseteq Tokens
    BY <1>1, <2>2 DEF SendRefresh, Shape
  <2>4. PICK result \in {"ok", "refused", "failed"}, token \in Tokens \cup {NoToken} :
          tab' = [tab EXCEPT ![t].refresh = [@ EXCEPT !.phase = "asked", !.result = result,
                                                      !.token = token]]
    BY <1>1, <2>2 DEF SendRefresh, Shape, Jar
  <2>5. tab' = [tab EXCEPT ![t] = [tab[t] EXCEPT !.refresh = [@ EXCEPT !.phase = "asked",
                                        !.result = result, !.token = token]]]
    BY <2>4 DEF Shape
  <2>6. tab' \in [Tabs -> Page]
    BY <2>5, Sent, OnePage DEF Shape
  <2>. QED BY <2>1, <2>3, <2>6 DEF Shape
<1>2. CASE RefreshSucceeds(t)
  <2> DEFINE jar == [access |-> tab[t].refresh.token.login, refresh |-> tab[t].refresh.token]
  <2>1. jar \in Jar
    BY DEF Shape, Page, Refresh, Jar, People, Tokens, NoToken
  <2>2. cookies' = jar /\ live' = live
    BY <1>2 DEF RefreshSucceeds
  <2>3. PICK reply \in Reply(jar) : tab' = [tab EXCEPT ![t] = AfterRefresh(tab[t], reply)]
    BY <1>2 DEF RefreshSucceeds
  <2>4. AfterRefresh(tab[t], reply) \in Page
    BY <2>1, Replies, WaitingOperators DEF Shape
  <2>5. tab' \in [Tabs -> Page]
    BY <2>3, <2>4, OnePage DEF Shape
  <2>. QED BY <2>1, <2>2, <2>5 DEF Shape
<1>3. CASE RefreshFails(t)
  <2>1. cookies' = cookies /\ live' = live
    BY <1>3 DEF RefreshFails
  <2>2. GiveUp(tab[t]) \in Page /\ GiveUp(SignedOutPage(tab[t], TRUE)) \in Page
    BY PageOperators, WaitingOperators DEF Shape
  <2>3. \/ tab' = [tab EXCEPT ![t] = GiveUp(tab[t])]
        \/ tab' = [tab EXCEPT ![t] = GiveUp(SignedOutPage(tab[t], TRUE))]
    BY <1>3 DEF RefreshFails
  <2>4. tab' \in [Tabs -> Page]
    BY <2>2, <2>3, OnePage DEF Shape
  <2>. QED BY <2>1, <2>4 DEF Shape
<1>. QED BY <1>1, <1>2, <1>3

\* Pages that are left and loaded, and their restoration.
LEMMA PageShape ==
  ASSUME Constants, Shape, NEW t \in Tabs,
         \/ Reload(t) \/ CallbackAnswered(t) \/ RestoreAnswered(t) \/ EstablishedAnswered(t)
         \/ \E n \in Logins : SocialLogin(t, n)
  PROVE  Shape'
<1>1. CASE Reload(t)
  <2>1. cookies' \in Jar /\ live' = live
    BY <1>1 DEF Reload, Unload, Shape, Page, Refresh, Jar, People, Tokens, NoToken
  <2>2. PICK reply \in Reply(cookies') : tab' = [tab EXCEPT ![t] = FreshTab(reply, Idle)]
    BY <1>1 DEF Reload
  <2>3. FreshTab(reply, Idle) \in Page
    BY <2>1, Replies, Beginnings
  <2>4. tab' \in [Tabs -> Page]
    BY <2>2, <2>3, OnePage DEF Shape
  <2>. QED BY <2>1, <2>4 DEF Shape
<1>2. CASE CallbackAnswered(t)
  <2> DEFINE p == [tab[t] EXCEPT !.callback = Idle]
  <2>1. p \in Page /\ cookies' = cookies /\ live' = live
    BY <1>2, Beginnings DEF CallbackAnswered, Shape, Page
  <2>2. tab[t].callback.answer \subseteq People
    BY AnswersArePeople DEF Shape, Page, Request
  <2>3. \/ tab' = [tab EXCEPT ![t] = p]
        \/ \E user \in tab[t].callback.answer : tab' = [tab EXCEPT ![t] = SignedInPage(p, user)]
    BY <1>2 DEF CallbackAnswered
  <2> HIDE DEF p
  <2>4. tab' \in [Tabs -> Page]
    BY <2>1, <2>2, <2>3, PageOperators, OnePage DEF Shape
  <2>. QED BY <2>1, <2>4 DEF Shape
<1>3. CASE RestoreAnswered(t)
  <2>1. cookies' = cookies /\ live' = live /\ tab[t] \in Page
    BY <1>3 DEF RestoreAnswered, Shape
  <2>2. CASE \E user \in People : tab' = [tab EXCEPT ![t] = Apply(tab[t], user)]
    BY <2>1, <2>2, PageOperators, OnePage DEF Shape
  <2>3. CASE JoinRefresh(t, [tab[t] EXCEPT !.restore.phase = "refreshing"], FALSE)
    <3>1. [tab[t] EXCEPT !.restore.phase = "refreshing"] \in Page
      BY <2>1 DEF Page, Request
    <3>2. tab' \in [Tabs -> Page]
      BY <2>3, <3>1, Joined DEF Shape
    <3>. QED BY <2>1, <3>2 DEF Shape
  <2>4. tab[t].restore.answer \subseteq People
    BY <2>1, AnswersArePeople DEF Page, Request
  <2>. QED BY <1>3, <2>2, <2>3, <2>4 DEF RestoreAnswered, People
<1>4. CASE EstablishedAnswered(t)
  <2> DEFINE p == [tab[t] EXCEPT !.established = Idle]
             n == CHOOSE n \in tab[t].established.answer : TRUE
  <2>1. p \in Page /\ cookies' = cookies /\ live' = live
    BY <1>4, Beginnings DEF EstablishedAnswered, Shape, Page
  <2>2. tab[t].established.answer # {} => n \in People
    BY AnswersArePeople DEF Shape, Page, Request
  <2>3. \/ tab' = [tab EXCEPT ![t] = p]
        \/ tab' = [tab EXCEPT ![t] = [p EXCEPT !.loading = FALSE]]
        \/ /\ tab[t].established.answer # {}
           /\ tab' = [tab EXCEPT ![t] = [p EXCEPT !.user = n, !.loading = FALSE, !.modal = FALSE]]
    BY <1>4 DEF EstablishedAnswered
  <2>4. /\ [p EXCEPT !.loading = FALSE] \in Page
        /\ n \in People => [p EXCEPT !.user = n, !.loading = FALSE, !.modal = FALSE] \in Page
    BY <2>1 DEF Page
  <2> HIDE DEF p, n
  <2>5. tab' \in [Tabs -> Page]
    BY <2>1, <2>2, <2>3, <2>4, OnePage DEF Shape
  <2>. QED BY <2>1, <2>5 DEF Shape
<1>5. ASSUME NEW n \in Logins, SocialLogin(t, n) PROVE Shape'
  <2> DEFINE token == [login |-> n, turn |-> 0]
             jar   == [access |-> n, refresh |-> token]
  <2>1. jar \in Jar /\ cookies' = jar /\ live' = live \cup {token} /\ token \in Tokens
    BY <1>5 DEF SocialLogin, Jar, People, Tokens, Constants
  <2>2. PICK restore \in Reply(jar), callback \in Reply(jar) :
          tab' = [tab EXCEPT ![t] = FreshTab(restore, Asked(callback))]
    BY <1>5 DEF SocialLogin
  <2>3. FreshTab(restore, Asked(callback)) \in Page
    BY <2>1, Replies, Beginnings
  <2>4. tab' \in [Tabs -> Page]
    BY <2>2, <2>3, OnePage DEF Shape
  <2>. QED BY <2>1, <2>4 DEF Shape
<1>. QED BY <1>1, <1>2, <1>3, <1>4, <1>5

\* Edits, logout, messages and time.
LEMMA EventShape ==
  ASSUME Constants, Shape, NEW t \in Tabs,
         \/ Edit(t) \/ EditRefused(t) \/ EditFails(t) \/ EditSaved(t)
         \/ Logout(t) \/ SendLogout(t) \/ LogoutAnswered(t) \/ Receive(t)
  PROVE  Shape'
<1>1. tab[t] \in Page
  BY DEF Shape
<1>2. \A r \in Request : [tab[t] EXCEPT !.call = r] \in Page
  BY <1>1 DEF Page
<1>3. CASE Edit(t)
  <2>1. PICK reply \in Reply(cookies) : tab' = [tab EXCEPT ![t] = [tab[t] EXCEPT !.call = Asked(reply)]]
    BY <1>3, <1>1 DEF Edit, Page, Shape
  <2>2. Asked(reply) \in Request
    BY Replies, Beginnings DEF Shape
  <2>. QED BY <1>3, <1>2, <2>1, <2>2, OnePage DEF Edit, Shape
<1>4. CASE EditRefused(t)
  <2>1. [tab[t] EXCEPT !.call.phase = "refreshing"] \in Page
    BY <1>1 DEF Page, Request
  <2>2. tab' \in [Tabs -> Page]
    BY <1>4, <2>1, Joined DEF EditRefused, Shape
  <2>. QED BY <1>4, <2>2 DEF EditRefused, Shape
<1>5. CASE EditFails(t)
  <2>1. tab' = [tab EXCEPT ![t] = [tab[t] EXCEPT !.call = Idle]]
    BY <1>5, <1>1 DEF EditFails, Page, Shape
  <2>. QED BY <1>5, <1>2, <2>1, Beginnings, OnePage DEF EditFails, Shape
<1>6. CASE EditSaved(t)
  <2>1. PICK n \in tab[t].call.answer :
          tab' = [tab EXCEPT ![t] = [tab[t] EXCEPT !.call = Idle, !.user = n]]
    BY <1>6, <1>1 DEF EditSaved, Page, Shape
  <2>2. n \in People
    BY <1>1, <2>1, AnswersArePeople DEF Page, Request
  <2>3. [tab[t] EXCEPT !.call = Idle, !.user = n] \in Page
    BY <1>1, <2>2, Beginnings DEF Page
  <2>. QED BY <1>6, <2>1, <2>3, OnePage DEF EditSaved, Shape
<1>7. CASE Logout(t)
  <2> DEFINE p == NewSessionGeneration(NewContextGeneration(tab[t]), TRUE)
  <2>1. p \in Page
    BY <1>1, Generations
  <2>2. tab' = [tab EXCEPT ![t] = [p EXCEPT !.user = Nobody, !.modal = FALSE, !.logout = "queued"]]
    BY <1>7 DEF Logout
  <2> HIDE DEF p
  <2>3. [p EXCEPT !.user = Nobody, !.modal = FALSE, !.logout = "queued"] \in Page
    BY <2>1 DEF Page, People
  <2>. QED BY <1>7, <2>2, <2>3, OnePage DEF Logout, Shape
<1>8. CASE SendLogout(t)
  <2>1. \E o \in {"cleared", "failed"} : tab' = [tab EXCEPT ![t] = [tab[t] EXCEPT !.logout = o]]
    BY <1>8, <1>1 DEF SendLogout, Page, Shape
  <2>2. \A o \in {"cleared", "failed"} : [tab[t] EXCEPT !.logout = o] \in Page
    BY <1>1 DEF Page
  <2>3. tab' \in [Tabs -> Page]
    BY <2>1, <2>2, OnePage DEF Shape
  <2>. QED BY <1>8, <2>3 DEF SendLogout, Shape
<1>9. CASE LogoutAnswered(t)
  <2>1. [SignedOutPage(tab[t], FALSE) EXCEPT !.logout = "idle"] \in Page
    <3>1. \A p \in Page : [p EXCEPT !.logout = "idle"] \in Page
      BY DEF Page
    <3>. QED BY <1>1, <3>1, PageOperators
  <2>2. tab' \in [Tabs -> Page]
    BY <1>9, <2>1, OnePage DEF LogoutAnswered, Shape
  <2>. QED BY <1>9, <2>2 DEF LogoutAnswered, Shape, Jar, People
<1>10. CASE Receive(t)
  <2>1. SignedOutPage(tab[t], TRUE) \in Page
    BY <1>1, PageOperators
  <2>2. SignedOutPage(NewSessionGeneration(tab[t], TRUE), FALSE) \in Page
    BY <1>1, Generations, PageOperators
  <2>3. \A reply \in Reply(cookies) :
          [NewContextGeneration(NewSessionGeneration(tab[t], FALSE))
             EXCEPT !.established = Asked(reply)] \in Page
    <3>1. \A p \in Page, r \in Request : [p EXCEPT !.established = r] \in Page
      BY DEF Page
    <3>2. NewContextGeneration(NewSessionGeneration(tab[t], FALSE)) \in Page
      BY <1>1, Generations
    <3>. QED BY <3>1, <3>2, Replies, Beginnings DEF Shape
  <2>4. tab' \in [Tabs -> Page]
    BY <1>10, <2>1, <2>2, <2>3, OnePage DEF Receive, Shape
  <2>. QED BY <1>10, <2>4 DEF Receive, Shape
<1>. QED BY <1>3, <1>4, <1>5, <1>6, <1>7, <1>8, <1>9, <1>10

\* Pages, cookies and tokens have their shape.
LEMMA ShapeStep == Constants /\ Shape /\ [Next]_browserVars => Shape'
<1> SUFFICES ASSUME Constants, Shape, [Next]_browserVars PROVE Shape'
  OBVIOUS
<1>1. ASSUME NEW t \in Tabs, Answered(t) \/ Reload(t) \/ Logout(t) \/ Edit(t) \/ EditRefused(t)
                             \/ EditFails(t) \/ EditSaved(t)
      PROVE  Shape'
  BY <1>1, RefreshShape, PageShape, EventShape DEF Answered
<1>2. ASSUME NEW t \in Tabs, NEW n \in Logins, SocialLogin(t, n) PROVE Shape'
  BY <1>2, PageShape
<1>3. CASE AccessExpires
  BY <1>3 DEF AccessExpires, Shape, Jar, People
<1>4. ASSUME NEW token \in Tokens, SessionEnds(token) PROVE Shape'
  BY <1>4 DEF SessionEnds, Shape
<1>5. CASE UNCHANGED browserVars
  BY <1>5 DEF browserVars, Shape
<1>. QED BY <1>1, <1>2, <1>3, <1>4, <1>5 DEF Next

-----------------------------------------------------------------------------
(* A tab that was signed out.                                              *)

\* Nothing that was asked for before the end can be applied after it.
OutPage(p) == p.cleared => ~p.restore.current /\ ~p.established.current
OutInv == \A t \in Tabs : OutPage(tab[t])

\* A page changes so that it stays out.
Quiet(p, q) ==
    /\ OutPage(q)
    /\ p.cleared /\ q.cleared => q.user \in {p.user, Nobody}

LEMMA QuietPages ==
  ASSUME NEW p \in Page, OutPage(p)
  PROVE  /\ \A m \in BOOLEAN : Quiet(p, SignedOutPage(p, m))
         /\ \A m \in BOOLEAN : Quiet(p, SignedOutPage(NewSessionGeneration(p, TRUE), m))
         /\ \A n \in People : Quiet(p, SignedInPage(p, n))
         /\ \A n \in People : Quiet(p, Apply(p, n))
         /\ Quiet(p, GiveUp(p))
         /\ \A m \in BOOLEAN : Quiet(p, GiveUp(SignedOutPage(p, m)))
         /\ \A reply \in Answers : Quiet(p, AfterRefresh(p, reply))
         /\ \A a \in Answers, c \in Request : Quiet(p, FreshTab(a, c))
<1>0. \A m \in BOOLEAN : SignedOutPage(p, m) \in Page
  BY PageOperators
<1> USE DEF Quiet, OutPage, Page, Request, Stale, Idle, NewContextGeneration,
            NewSessionGeneration
<1>1. \A m \in BOOLEAN : Quiet(p, SignedOutPage(p, m))
  BY DEF SignedOutPage
<1>2. \A m \in BOOLEAN : Quiet(p, SignedOutPage(NewSessionGeneration(p, TRUE), m))
  BY DEF SignedOutPage
<1>3. \A n \in People : Quiet(p, SignedInPage(p, n))
  BY DEF SignedInPage
<1>4. \A n \in People : Quiet(p, Apply(p, n))
  BY DEF Apply
<1>5. \A q \in Page : OutPage(q) => Quiet(q, GiveUp(q)) /\ GiveUp(q).cleared = q.cleared
  BY DEF GiveUp
<1>6. ASSUME NEW m \in BOOLEAN PROVE Quiet(p, GiveUp(SignedOutPage(p, m)))
  <2> DEFINE q == SignedOutPage(p, m)
  <2>1. q \in Page /\ q.user = Nobody /\ q.cleared = p.cleared
    <3>1. q \in Page
      BY ONLY <1>0
    <3>2. q.user = Nobody /\ q.cleared = p.cleared
      BY DEF SignedOutPage
    <3>. QED BY <3>1, <3>2
  <2>2. OutPage(q)
    BY <1>1 DEF SignedOutPage
  <2> HIDE DEF q
  <2>3. Quiet(q, GiveUp(q)) /\ GiveUp(q).cleared = q.cleared
    BY <2>1, <2>2, <1>5
  <2>. QED BY <2>1, <2>3 DEF q
<1>7. \A reply \in Answers : Quiet(p, AfterRefresh(p, reply))
  BY DEF AfterRefresh
<1>8. \A a \in Answers, c \in Request : Quiet(p, FreshTab(a, c))
  BY DEF FreshTab
<1>. QED BY <1>1, <1>2, <1>3, <1>4, <1>5, <1>6, <1>7, <1>8

\* A step that changes one page so keeps every page out.
LEMMA QuietStep ==
  ASSUME tab \in [Tabs -> Page], OutInv, NEW t \in Tabs, NEW q \in Page, Quiet(tab[t], q),
         tab' = [tab EXCEPT ![t] = q]
  PROVE  OutInv' /\ StaysOut
BY DEF OutInv, StaysOut, Quiet

\* A page in which nothing changes that is shown or applied.
LEMMA SamePage ==
  ASSUME NEW p, NEW q, OutPage(p), q.user = p.user, q.cleared = p.cleared,
         q.restore.current = p.restore.current,
         q.established.current = p.established.current
  PROVE  Quiet(p, q)
BY DEF Quiet, OutPage

LEMMA RefreshQuiet ==
  ASSUME Shape, OutInv, NEW t \in Tabs,
         SendRefresh(t) \/ RefreshSucceeds(t) \/ RefreshFails(t)
  PROVE  OutInv' /\ StaysOut
<1>0. tab \in [Tabs -> Page] /\ tab[t] \in Page /\ OutPage(tab[t])
  BY DEF Shape, OutInv
<1>1. CASE SendRefresh(t)
  <2>1. PICK r : tab' = [tab EXCEPT ![t] = [tab[t] EXCEPT !.refresh = r]]
    BY <1>0, <1>1 DEF SendRefresh
  <2>. QED BY <1>0, <2>1 DEF Page, OutInv, OutPage, StaysOut
<1>2. CASE RefreshSucceeds(t)
  <2> DEFINE jar == [access |-> tab[t].refresh.token.login, refresh |-> tab[t].refresh.token]
  <2>1. jar \in Jar
    BY <1>0 DEF Page, Refresh, Jar, People, Tokens, NoToken
  <2>2. PICK reply \in Reply(jar) : tab' = [tab EXCEPT ![t] = AfterRefresh(tab[t], reply)]
    BY <1>2 DEF RefreshSucceeds
  <2>3. reply \in Answers
    BY <2>1, Replies
  <2>. QED BY <1>0, <2>2, <2>3, QuietPages, WaitingOperators, QuietStep
<1>3. CASE RefreshFails(t)
  <2>1. \/ tab' = [tab EXCEPT ![t] = GiveUp(tab[t])]
        \/ tab' = [tab EXCEPT ![t] = GiveUp(SignedOutPage(tab[t], TRUE))]
    BY <1>3 DEF RefreshFails
  <2>2. GiveUp(tab[t]) \in Page /\ GiveUp(SignedOutPage(tab[t], TRUE)) \in Page
    BY <1>0, PageOperators, WaitingOperators
  <2>. QED BY <1>0, <2>1, <2>2, QuietPages, QuietStep
<1>. QED BY <1>1, <1>2, <1>3

LEMMA PageQuiet ==
  ASSUME Constants, Shape, Shape', OutInv, NEW t \in Tabs,
         \/ Reload(t) \/ CallbackAnswered(t) \/ RestoreAnswered(t) \/ EstablishedAnswered(t)
         \/ \E n \in Logins : SocialLogin(t, n)
  PROVE  OutInv' /\ StaysOut
<1>0. tab \in [Tabs -> Page] /\ tab[t] \in Page /\ OutPage(tab[t])
  BY DEF Shape, OutInv
<1>1. CASE Reload(t)
  <2>1. PICK reply \in Reply(cookies') : tab' = [tab EXCEPT ![t] = FreshTab(reply, Idle)]
    BY <1>1 DEF Reload
  <2>2. reply \in Answers
    BY Replies DEF Shape
  <2>. QED BY <1>0, <2>1, <2>2, Beginnings, QuietPages, QuietStep
<1>2. CASE CallbackAnswered(t)
  <2> DEFINE p == [tab[t] EXCEPT !.callback = Idle]
  <2>1. p \in Page /\ OutPage(p) /\ p.user = tab[t].user /\ p.cleared = tab[t].cleared
        /\ p.restore = tab[t].restore /\ p.established = tab[t].established
    BY <1>0, Beginnings DEF Page, OutPage
  <2>2. tab[t].callback.answer \subseteq People
    BY <1>0, AnswersArePeople DEF Page, Request
  <2>3. \/ tab' = [tab EXCEPT ![t] = p]
        \/ \E user \in tab[t].callback.answer : tab' = [tab EXCEPT ![t] = SignedInPage(p, user)]
    BY <1>2 DEF CallbackAnswered
  <2> HIDE DEF p
  <2>4. CASE tab' = [tab EXCEPT ![t] = p]
    BY <1>0, <2>1, <2>4, SamePage, QuietStep
  <2>5. ASSUME NEW user \in People, tab' = [tab EXCEPT ![t] = SignedInPage(p, user)]
        PROVE  OutInv' /\ StaysOut
    <3>1. SignedInPage(p, user) \in Page /\ Quiet(p, SignedInPage(p, user))
      BY <2>1, PageOperators, QuietPages
    <3>2. Quiet(tab[t], SignedInPage(p, user))
      BY <2>1, <3>1 DEF Quiet
    <3>. QED BY <1>0, <2>5, <3>1, <3>2, QuietStep
  <2>. QED BY <2>2, <2>3, <2>4, <2>5
<1>3. CASE RestoreAnswered(t)
  <2>1. CASE \E user \in People : tab' = [tab EXCEPT ![t] = Apply(tab[t], user)]
    BY <1>0, <2>1, PageOperators, QuietPages, QuietStep
  <2>2. CASE JoinRefresh(t, [tab[t] EXCEPT !.restore.phase = "refreshing"], FALSE)
    <3>1. \E r : tab' = [tab EXCEPT ![t] = [[tab[t] EXCEPT !.restore.phase = "refreshing"]
                                              EXCEPT !.refresh = r]]
      BY <1>0, <2>2 DEF JoinRefresh, Page
    <3>. QED BY <1>0, <3>1 DEF Page, Request, OutInv, OutPage, StaysOut
  <2>3. tab[t].restore.answer \subseteq People
    BY <1>0, AnswersArePeople DEF Page, Request
  <2>. QED BY <1>3, <2>1, <2>2, <2>3 DEF RestoreAnswered, People
<1>4. CASE EstablishedAnswered(t)
  BY <1>0, <1>4 DEF EstablishedAnswered, Page, Request, Idle, OutInv, OutPage, StaysOut
<1>5. ASSUME NEW n \in Logins, SocialLogin(t, n) PROVE OutInv' /\ StaysOut
  <2> DEFINE jar == [access |-> n, refresh |-> [login |-> n, turn |-> 0]]
  <2>1. jar \in Jar
    BY DEF Jar, People, Tokens, Constants
  <2>2. PICK restore \in Reply(jar), callback \in Reply(jar) :
          tab' = [tab EXCEPT ![t] = FreshTab(restore, Asked(callback))]
    BY <1>5 DEF SocialLogin
  <2>3. restore \in Answers /\ Asked(callback) \in Request
    BY <2>1, Replies, Beginnings
  <2>. QED BY <1>0, <2>2, <2>3, Beginnings, QuietPages, QuietStep
<1>. QED BY <1>1, <1>2, <1>3, <1>4, <1>5

LEMMA EventQuiet ==
  ASSUME Shape, OutInv, NEW t \in Tabs,
         \/ Edit(t) \/ EditRefused(t) \/ EditFails(t) \/ EditSaved(t)
         \/ Logout(t) \/ SendLogout(t) \/ LogoutAnswered(t) \/ Receive(t)
  PROVE  OutInv' /\ StaysOut
<1>0. tab \in [Tabs -> Page] /\ tab[t] \in Page /\ OutPage(tab[t])
  BY DEF Shape, OutInv
<1>1. ASSUME NEW f \in {"call", "logout"}, NEW v, tab' = [tab EXCEPT ![t] = [tab[t] EXCEPT ![f] = v]]
      PROVE  OutInv' /\ StaysOut
  BY <1>0, <1>1 DEF Page, OutInv, OutPage, StaysOut
<1>2. CASE Edit(t)
  <2>1. \E v : tab' = [tab EXCEPT ![t] = [tab[t] EXCEPT !.call = v]]
    BY <1>0, <1>2 DEF Edit
  <2>. QED BY <1>1, <2>1
<1>3. CASE EditRefused(t)
  <2>1. \E r : tab' = [tab EXCEPT ![t] = [[tab[t] EXCEPT !.call.phase = "refreshing"]
                                            EXCEPT !.refresh = r]]
    BY <1>0, <1>3 DEF EditRefused, JoinRefresh, Page
  <2>. QED BY <1>0, <2>1 DEF Page, OutInv, OutPage, StaysOut
<1>4. CASE EditFails(t)
  <2>1. tab' = [tab EXCEPT ![t] = [tab[t] EXCEPT !.call = Idle]]
    BY <1>0, <1>4 DEF EditFails, Page
  <2>. QED BY <1>1, <2>1
<1>5. CASE EditSaved(t)
  <2>1. \E n : tab' = [tab EXCEPT ![t] = [tab[t] EXCEPT !.call = Idle, !.user = n]]
    BY <1>0, <1>5 DEF EditSaved, Page
  <2>. QED BY <1>0, <1>5, <2>1 DEF Page, OutInv, OutPage, StaysOut
<1>6. CASE Logout(t)
  BY <1>0, <1>6 DEF Logout, NewSessionGeneration, NewContextGeneration, Stale, Page, Request,
     OutInv, OutPage, StaysOut
<1>7. CASE SendLogout(t)
  <2>1. \E v : tab' = [tab EXCEPT ![t] = [tab[t] EXCEPT !.logout = v]]
    BY <1>0, <1>7 DEF SendLogout, Page
  <2>. QED BY <1>1, <2>1
<1>8. CASE LogoutAnswered(t)
  <2> DEFINE p == SignedOutPage(tab[t], FALSE)
  <2>1. p \in Page /\ Quiet(tab[t], p)
    BY <1>0, PageOperators, QuietPages
  <2>2. tab' = [tab EXCEPT ![t] = [p EXCEPT !.logout = "idle"]]
    BY <1>8 DEF LogoutAnswered
  <2> HIDE DEF p
  <2>3. [p EXCEPT !.logout = "idle"] \in Page /\ Quiet(tab[t], [p EXCEPT !.logout = "idle"])
    BY <2>1 DEF Page, Quiet, OutPage
  <2>. QED BY <1>0, <2>2, <2>3, QuietStep
<1>9. CASE Receive(t)
  <2>1. CASE tab' = [tab EXCEPT ![t] = SignedOutPage(tab[t], TRUE)]
    BY <1>0, <2>1, PageOperators, QuietPages, QuietStep
  <2>2. CASE tab' = [tab EXCEPT ![t] = SignedOutPage(NewSessionGeneration(tab[t], TRUE), FALSE)]
    BY <1>0, <2>2, Generations, PageOperators, QuietPages, QuietStep
  <2>3. CASE \E reply \in Reply(cookies) :
               tab' = [tab EXCEPT ![t] =
                         [NewContextGeneration(NewSessionGeneration(tab[t], FALSE))
                             EXCEPT !.established = Asked(reply)]]
    BY <1>0, <2>3 DEF NewSessionGeneration, NewContextGeneration, Stale, Page, Request,
       OutInv, OutPage, StaysOut
  <2>. QED BY <1>9, <2>1, <2>2, <2>3 DEF Receive
<1>. QED BY <1>2, <1>3, <1>4, <1>5, <1>6, <1>7, <1>8, <1>9

LEMMA OutStep == Constants /\ Shape /\ Shape' /\ OutInv /\ [Next]_browserVars => OutInv' /\ StaysOut
<1> SUFFICES ASSUME Constants, Shape, Shape', OutInv, [Next]_browserVars
             PROVE  OutInv' /\ StaysOut
  OBVIOUS
<1>1. ASSUME NEW t \in Tabs, Answered(t) \/ Reload(t) \/ Logout(t) \/ Edit(t) \/ EditRefused(t)
                             \/ EditFails(t) \/ EditSaved(t)
      PROVE  OutInv' /\ StaysOut
  BY <1>1, RefreshQuiet, PageQuiet, EventQuiet DEF Answered
<1>2. ASSUME NEW t \in Tabs, NEW n \in Logins, SocialLogin(t, n) PROVE OutInv' /\ StaysOut
  BY <1>2, PageQuiet
<1>3. CASE UNCHANGED tab
  BY <1>3 DEF OutInv, StaysOut
<1>. QED BY <1>1, <1>2, <1>3 DEF Next, AccessExpires, SessionEnds, browserVars

LEMMA InitOut == Init => OutInv
<1>1. [FreshTab({}, Idle) EXCEPT !.user = First, !.loading = FALSE, !.restore = Idle].cleared = FALSE
  BY DEF FreshTab
<1>. QED BY <1>1 DEF Init, OutInv, OutPage

-----------------------------------------------------------------------------
(* Refreshes under the lock.                                               *)

Operations == Tabs \X {"refresh", "logout"}
Asking(t)  == tab[t].refresh.phase = "asked"
Rotated(t) == Asking(t) /\ tab[t].refresh.result = "ok"

\* One queue, and the refresh that was sent is the one that runs.
OrderInv ==
    /\ queue \subseteq Operations \X Operations
    /\ \A d, e \in Operations : <<d, d>> \in queue /\ <<e, e>> \in queue
                                  => <<d, e>> \in queue \/ <<e, d>> \in queue
    /\ \A t \in Tabs : Asking(t) => Turn(<<t, "refresh">>)

\* Of a session whose refresh cookie the browser has, the server accepts that
\* token, or the successor that is on its way.
TokensInv ==
    /\ begun \subseteq Logins
    /\ \A token \in live : token.login \in begun
    /\ cookies.refresh.login \in begun \cup {Nobody}
    /\ \A t \in Tabs : Asking(t) => tab[t].refresh.token.login \in begun \cup {Nobody}
    /\ \A token \in live : token.login = cookies.refresh.login =>
         \/ token.login \in lost
         \/ token = cookies.refresh
         \/ \E t \in Tabs : Rotated(t) /\ token = tab[t].refresh.token
    /\ \A t \in Tabs : Rotated(t) =>
         \A token \in live : token.login = tab[t].refresh.token.login =>
            token = tab[t].refresh.token \/ token.login \in lost
    /\ \A t \in Tabs : Asking(t) /\ tab[t].refresh.result = "refused" =>
         \/ tab[t].refresh.token.login \in lost
         \/ \A token \in live : token.login # tab[t].refresh.token.login

\* With one queue, one operation runs at a time.
LEMMA OneTurn ==
  ASSUME OrderInv, NEW d \in Operations, NEW e \in Operations, Turn(d), Turn(e)
  PROVE  d = e
BY DEF OrderInv, Turn

\* A page that changes, with what it does to the queue.
LEMMA QueueStep ==
  ASSUME HasLocks, OrderInv, tab \in [Tabs -> Page], NEW t \in Tabs, NEW q,
         tab' = [tab EXCEPT ![t] = q],
         q.refresh.phase = "asked" => Asking(t),
         \/ queue' = queue
         \/ Enqueue(<<t, "logout">>) \/ Dequeue(<<t, "logout">>)
         \/ q.refresh.phase # "asked" /\ (Enqueue(<<t, "refresh">>) \/ Dequeue(<<t, "refresh">>))
         \/ q.refresh.phase # "asked" /\ Forget(t)
  PROVE  OrderInv'
<1>1. \A u \in Tabs : Asking(u)' => Asking(u) /\ (u = t => q.refresh.phase = "asked")
  BY DEF Asking
<1>2. CASE queue' = queue
  BY <1>1, <1>2 DEF OrderInv, Turn
<1>3. ASSUME NEW o \in {"refresh", "logout"}, Enqueue(<<t, o>>),
             o = "refresh" => q.refresh.phase # "asked"
      PROVE  OrderInv'
  <2>1. queue' = queue \cup (({p[1] : p \in queue} \cup {<<t, o>>}) \X {<<t, o>>})
    BY <1>3 DEF Enqueue, Before, SameQueue
  <2>2. queue' \subseteq Operations \X Operations
    BY <2>1 DEF OrderInv, Operations
  <2>3. \A d, e \in Operations : <<d, d>> \in queue' /\ <<e, e>> \in queue'
                                   => <<d, e>> \in queue' \/ <<e, d>> \in queue'
    <3>1. \A d \in Operations : <<d, d>> \in queue' => <<d, d>> \in queue \/ d = <<t, o>>
      BY <2>1
    <3>2. \A d \in Operations : <<d, d>> \in queue \/ d = <<t, o>> => <<d, <<t, o>>>> \in queue'
      <4>1. \A d : <<d, d>> \in queue => d \in {p[1] : p \in queue}
        OBVIOUS
      <4>. QED BY <2>1, <4>1
    <3>3. queue \subseteq queue'
      BY <2>1
    <3>. QED BY <3>1, <3>2, <3>3 DEF OrderInv
  <2>4. \A u \in Tabs : Asking(u)' => Turn(<<u, "refresh">>)'
    BY <1>1, <1>3, <2>1 DEF OrderInv, Turn
  <2>. QED BY <2>2, <2>3, <2>4 DEF OrderInv
<1>4. ASSUME NEW o \in {"refresh", "logout"}, Dequeue(<<t, o>>),
             o = "refresh" => q.refresh.phase # "asked"
      PROVE  OrderInv'
  BY <1>1, <1>4 DEF OrderInv, Turn, Dequeue, Operations
<1>5. CASE Forget(t) /\ q.refresh.phase # "asked"
  BY <1>1, <1>5 DEF OrderInv, Turn, Forget, Operations
<1>. QED BY <1>2, <1>3, <1>4, <1>5

\* A step that sends and receives no refresh that rotates.
LEMMA TokensStep ==
  ASSUME Constants, Shape, TokensInv, NEW t \in Tabs, NEW q, tab' = [tab EXCEPT ![t] = q],
         \/ /\ q.refresh.phase = tab[t].refresh.phase
            /\ q.refresh.result = tab[t].refresh.result
            /\ q.refresh.token = tab[t].refresh.token
         \/ ~Rotated(t) /\ q.refresh.phase # "asked",
         cookies'.refresh = cookies.refresh \/ cookies'.refresh = NoToken,
         live' \subseteq live, begun' = begun, lost' = lost
  PROVE  TokensInv'
<1>1. \A u \in Tabs : Asking(u)' => /\ Asking(u)
                                    /\ tab'[u].refresh.result = tab[u].refresh.result
                                    /\ tab'[u].refresh.token = tab[u].refresh.token
  BY DEF Asking, Shape
<1>2. \A u \in Tabs : Rotated(u) => Rotated(u)' /\ tab'[u].refresh.token = tab[u].refresh.token
  BY DEF Rotated, Asking, Shape
<1>3. \A token \in live : token.login # Nobody
  BY DEF TokensInv, Constants
<1>. QED BY <1>1, <1>2, <1>3 DEF TokensInv, Rotated, NoToken

LockInv == OrderInv /\ TokensInv

\* What the operators on pages do to the refresh that is under way.
Keeps(p, q) ==
    /\ q.refresh.phase = p.refresh.phase
    /\ q.refresh.result = p.refresh.result
    /\ q.refresh.token = p.refresh.token

LEMMA KeptRefresh ==
  ASSUME NEW p \in Page
  PROVE  /\ Keeps(p, NewContextGeneration(p))
         /\ \A c : Keeps(p, NewSessionGeneration(p, c))
         /\ \A m : Keeps(p, SignedOutPage(p, m))
         /\ \A n : Keeps(p, SignedInPage(p, n))
         /\ \A n : Keeps(p, Apply(p, n))
         /\ GiveUp(p).refresh = NoRefresh
         /\ \A reply : AfterRefresh(p, reply).refresh = NoRefresh
         /\ \A a, c : FreshTab(a, c).refresh = NoRefresh
<1> USE DEF Keeps, Page, Refresh, Stale, NewContextGeneration
<1>1. Keeps(p, NewContextGeneration(p)) /\ \A m : Keeps(p, SignedOutPage(p, m))
  BY DEF SignedOutPage
<1>2. \A c : Keeps(p, NewSessionGeneration(p, c))
  BY DEF NewSessionGeneration
<1>3. \A n : Keeps(p, SignedInPage(p, n))
  BY DEF SignedInPage, NewSessionGeneration
<1>4. \A n : Keeps(p, Apply(p, n))
  BY DEF Apply
<1>5. GiveUp(p).refresh = NoRefresh
  BY DEF GiveUp
<1>6. \A reply : AfterRefresh(p, reply).refresh = NoRefresh
  BY DEF AfterRefresh
<1>7. \A a, c : FreshTab(a, c).refresh = NoRefresh
  BY DEF FreshTab
<1>. QED BY <1>1, <1>2, <1>3, <1>4, <1>5, <1>6, <1>7

LEMMA KeepsOn == \A p, q, r : Keeps(p, q) /\ Keeps(q, r) => Keeps(p, r)
BY DEF Keeps

\* A page whose refresh is kept, or joined.
LEMMA KeptStep ==
  ASSUME Constants, HasLocks, Shape, LockInv, NEW t \in Tabs, NEW q, Keeps(tab[t], q),
         tab' = [tab EXCEPT ![t] = q],
         queue' = queue \/ Enqueue(<<t, "logout">>) \/ Dequeue(<<t, "logout">>),
         cookies'.refresh = cookies.refresh \/ cookies'.refresh = NoToken,
         live' \subseteq live, begun' = begun, lost' = lost
  PROVE  LockInv'
<1>1. OrderInv'
  BY QueueStep DEF LockInv, Keeps, Shape, Asking
<1>2. TokensInv'
  BY TokensStep DEF LockInv, Keeps
<1>. QED BY <1>1, <1>2 DEF LockInv

LEMMA JoinStep ==
  ASSUME Constants, HasLocks, Shape, LockInv, NEW t \in Tabs, NEW p, NEW notify,
         p.refresh = tab[t].refresh, p \in Page, JoinRefresh(t, p, notify),
         cookies' = cookies, live' = live, begun' = begun, lost' = lost
  PROVE  LockInv'
<1>1. CASE p.refresh.phase = "idle"
  <2> DEFINE q == [p EXCEPT !.refresh = [NoRefresh EXCEPT !.phase = "queued", !.current = TRUE,
                                                          !.notify = notify]]
  <2>1. tab' = [tab EXCEPT ![t] = q] /\ Enqueue(<<t, "refresh">>)
    BY <1>1 DEF JoinRefresh
  <2>2. q.refresh.phase = "queued"
    BY DEF Page, NoRefresh
  <2>3. ~Asking(t) /\ ~Rotated(t)
    BY <1>1 DEF Asking, Rotated
  <2> HIDE DEF q
  <2>4. OrderInv'
    BY <2>1, <2>2, QueueStep DEF LockInv, Shape
  <2>5. TokensInv'
    BY <2>1, <2>2, <2>3, TokensStep DEF LockInv
  <2>. QED BY <2>4, <2>5 DEF LockInv
<1>2. CASE p.refresh.phase # "idle"
  <2> DEFINE q == [p EXCEPT !.refresh.notify = @ \/ notify]
  <2>1. tab' = [tab EXCEPT ![t] = q] /\ queue' = queue
    BY <1>2 DEF JoinRefresh
  <2>2. Keeps(tab[t], q)
    BY DEF Keeps, Page, Refresh
  <2>. QED BY <2>1, <2>2, KeptStep
<1>. QED BY <1>1, <1>2

\* The steps of a refresh.
LEMMA SendRefreshLock ==
  ASSUME Constants, HasLocks, Shape, LockInv, NEW t \in Tabs, SendRefresh(t)
  PROVE  LockInv'
<1> DEFINE token == cookies.refresh
           next  == [token EXCEPT !.turn = @ + 1]
           sent(result, new) == [tab[t] EXCEPT !.refresh =
                        [@ EXCEPT !.phase = "asked", !.result = result, !.token = new]]
<1>1. tab \in [Tabs -> Page] /\ tab[t] \in Page /\ token \in Tokens \cup {NoToken}
  BY DEF Shape, Jar
<1>2. \A result, new : sent(result, new).refresh.phase = "asked"
                       /\ sent(result, new).refresh.result = result
                       /\ sent(result, new).refresh.token = new
  BY <1>1 DEF Page, Refresh
<1>3. /\ queue' = queue /\ cookies' = cookies /\ begun' = begun
      /\ Turn(<<t, "refresh">>) /\ ~Asking(t)
  BY DEF SendRefresh, Asking
<1>4. \A u \in Tabs : ~Asking(u)
  <2>1. \A u \in Tabs : Asking(u) => <<u, "refresh">> = <<t, "refresh">>
    BY <1>3, OneTurn DEF LockInv, OrderInv, Operations
  <2>. QED BY <1>3, <2>1
<1>5. \E result \in {"ok", "refused", "failed"}, new \in {next, token} :
        /\ tab' = [tab EXCEPT ![t] = sent(result, new)]
        /\ \/ /\ token \in live /\ new = next
              /\ live' = (live \ {token}) \cup {next}
              /\ \/ result = "ok" /\ lost' = lost
                 \/ result = "failed" /\ lost' = lost \cup {token.login}
           \/ /\ result = "refused" /\ new = token
              /\ live' = live \ {token} /\ lost' = lost
           \/ result = "failed" /\ new = token /\ live' = live /\ lost' = lost
  BY <1>1 DEF SendRefresh
<1>6. PICK result \in {"ok", "refused", "failed"}, new \in {next, token} :
        /\ tab' = [tab EXCEPT ![t] = sent(result, new)]
        /\ \/ /\ token \in live /\ new = next
              /\ live' = (live \ {token}) \cup {next}
              /\ \/ result = "ok" /\ lost' = lost
                 \/ result = "failed" /\ lost' = lost \cup {token.login}
           \/ /\ result = "refused" /\ new = token
              /\ live' = live \ {token} /\ lost' = lost
           \/ result = "failed" /\ new = token /\ live' = live /\ lost' = lost
  BY <1>5
<1> HIDE DEF sent
<1>7. OrderInv'
  BY <1>1, <1>3, <1>4, <1>6 DEF LockInv, OrderInv, Turn, Asking
<1>8. next.login = token.login
  BY <1>1 DEF Tokens, NoToken
<1>9. \A u \in Tabs : Asking(u)' => u = t
  BY <1>1, <1>4, <1>6 DEF Asking
<1>10. /\ Asking(t)' /\ tab'[t].refresh.token = new /\ tab'[t].refresh.result = result
       /\ Rotated(t)' <=> result = "ok"
  BY <1>1, <1>2, <1>6 DEF Asking, Rotated
<1> HIDE DEF token, next
<1>11. \A k \in live : k.login = token.login => k.login \in lost \/ k = token
  BY <1>4 DEF LockInv, TokensInv, Rotated, token
<1>12. TokensInv'
  <2>1. begun' \subseteq Logins /\ \A k \in live' : k.login \in begun'
    BY <1>3, <1>6, <1>8 DEF LockInv, TokensInv
  <2>2. cookies'.refresh = token /\ token.login \in begun' \cup {Nobody}
    BY <1>3 DEF LockInv, TokensInv, token
  <2>3. new.login = token.login
    BY <1>6, <1>8
  <2>4. \A k \in live' : k.login = token.login =>
          \/ k.login \in lost'
          \/ k = token /\ result # "refused"
          \/ k = new /\ result = "ok"
    BY <1>6, <1>8, <1>11
  <2>5. result = "ok" => \A k \in live' : k.login = token.login => k = new \/ k.login \in lost'
    BY <1>6, <1>11
  <2>. QED BY <1>9, <1>10, <2>1, <2>2, <2>3, <2>4, <2>5 DEF TokensInv, Rotated
<1>. QED BY <1>7, <1>12 DEF LockInv

\* The successor that arrives is the token of the cookie from now on.
LEMMA SuccessorArrives ==
  ASSUME Shape, Shape', TokensInv, NEW t \in Tabs, Rotated(t), NEW q,
         q.refresh = NoRefresh, tab' = [tab EXCEPT ![t] = q],
         cookies'.refresh = tab[t].refresh.token,
         live' = live, begun' = begun, lost' = lost
  PROVE  TokensInv'
<1>1. \A u \in Tabs : Asking(u)' => /\ Asking(u)
                                    /\ tab'[u].refresh = tab[u].refresh
  BY DEF Asking, Shape, NoRefresh
<1>2. Asking(t)
  BY DEF Rotated
<1>. QED BY <1>1, <1>2 DEF TokensInv, Rotated

LEMMA RefreshLock ==
  ASSUME Constants, HasLocks, Shape, Shape', LockInv, NEW t \in Tabs,
         RefreshSucceeds(t) \/ RefreshFails(t)
  PROVE  LockInv'
<1>0. tab \in [Tabs -> Page] /\ tab[t] \in Page
  BY DEF Shape
<1>1. CASE RefreshSucceeds(t)
  <2>1. PICK q : q.refresh = NoRefresh /\ tab' = [tab EXCEPT ![t] = q]
    BY <1>0, <1>1, KeptRefresh DEF RefreshSucceeds
  <2>2. Rotated(t)
    BY <1>1 DEF RefreshSucceeds, Rotated, Asking
  <2>3. q.refresh.phase # "asked"
    BY <2>1 DEF NoRefresh
  <2>4. OrderInv'
    BY <1>0, <1>1, <2>1, <2>3, QueueStep DEF RefreshSucceeds, LockInv
  <2>5. TokensInv'
    BY <1>1, <2>1, <2>2, SuccessorArrives DEF RefreshSucceeds, LockInv
  <2>. QED BY <2>4, <2>5 DEF LockInv
<1>2. CASE RefreshFails(t)
  <2>1. SignedOutPage(tab[t], TRUE) \in Page
    BY <1>0, PageOperators
  <2>2. PICK q : q.refresh = NoRefresh /\ tab' = [tab EXCEPT ![t] = q]
    BY <1>0, <1>2, <2>1, KeptRefresh DEF RefreshFails
  <2>3. ~Rotated(t)
    BY <1>2 DEF RefreshFails, Rotated
  <2>4. q.refresh.phase # "asked"
    BY <2>2 DEF NoRefresh
  <2>5. OrderInv'
    BY <1>0, <1>2, <2>2, <2>4, QueueStep DEF RefreshFails, LockInv
  <2>6. TokensInv'
    BY <1>2, <2>2, <2>3, <2>4, TokensStep DEF RefreshFails, LockInv
  <2>. QED BY <2>5, <2>6 DEF LockInv
<1>. QED BY <1>1, <1>2

\* A page is left: its refresh is lost unless its answer still sets the cookie.
LEMMA LeaveLock ==
  ASSUME Constants, HasLocks, Shape, Shape', LockInv, NEW t \in Tabs,
         Reload(t) \/ \E n \in Logins : SocialLogin(t, n)
  PROVE  LockInv'
<1>0. tab \in [Tabs -> Page] /\ tab[t] \in Page
  BY DEF Shape
<1>1. CASE Reload(t)
  <2>1. PICK q : q.refresh = NoRefresh /\ tab' = [tab EXCEPT ![t] = q]
    BY <1>0, <1>1, KeptRefresh DEF Reload
  <2>2. q.refresh.phase # "asked"
    BY <2>1 DEF NoRefresh
  <2>3. Forget(t) /\ live' = live /\ begun' = begun
    BY <1>1 DEF Reload, Unload
  <2>4. OrderInv'
    BY <1>0, <2>1, <2>2, <2>3, QueueStep DEF LockInv
  <2>5. CASE Rotated(t) /\ cookies'.refresh = tab[t].refresh.token /\ lost' = lost
    BY <2>1, <2>3, <2>4, <2>5, SuccessorArrives DEF LockInv
  <2>6. CASE ~Rotated(t) /\ cookies' = cookies /\ lost' = lost
    BY <2>1, <2>2, <2>3, <2>4, <2>6, TokensStep DEF LockInv
  <2>7. CASE Rotated(t) /\ cookies' = cookies /\ lost' = lost \cup {tab[t].refresh.token.login}
    <3>1. \A u \in Tabs : Asking(u)' => Asking(u) /\ tab'[u].refresh = tab[u].refresh
      BY <1>0, <2>1, <2>2 DEF Asking
    <3>2. \A u \in Tabs : Rotated(u) => u = t \/ (Rotated(u)' /\ tab'[u].refresh = tab[u].refresh)
      BY <1>0, <2>1 DEF Rotated, Asking
    <3>3. TokensInv'
      BY <2>3, <2>7, <3>1, <3>2 DEF LockInv, TokensInv, Rotated
    <3>. QED BY <2>4, <3>3 DEF LockInv
  <2>. QED BY <1>1, <2>5, <2>6, <2>7 DEF Reload, Unload, Rotated, Asking
<1>2. ASSUME NEW n \in Logins, SocialLogin(t, n) PROVE LockInv'
  <2> DEFINE token == [login |-> n, turn |-> 0]
  <2>1. PICK q : q.refresh = NoRefresh /\ tab' = [tab EXCEPT ![t] = q]
    BY <1>0, <1>2, KeptRefresh DEF SocialLogin
  <2>2. q.refresh.phase # "asked"
    BY <2>1 DEF NoRefresh
  <2>3. /\ Forget(t) /\ live' = live \cup {token} /\ cookies'.refresh = token
        /\ n \notin begun /\ begun' = begun \cup {n} /\ lost \subseteq lost'
    BY <1>2 DEF SocialLogin, Unload
  <2>4. OrderInv'
    BY <1>0, <2>1, <2>2, <2>3, QueueStep DEF LockInv
  <2>5. \A u \in Tabs : Asking(u)' => Asking(u) /\ tab'[u].refresh = tab[u].refresh
    BY <1>0, <2>1, <2>2 DEF Asking
  <2>6. \A u \in Tabs : Asking(u)' => tab'[u].refresh.token.login # n
    BY <2>3, <2>5 DEF LockInv, TokensInv, Constants
  <2>7. \A k \in live : k.login # n
    BY <2>3 DEF LockInv, TokensInv
  <2>8. token.login = n
    OBVIOUS
  <2> HIDE DEF token
  <2>9. TokensInv'
    BY <2>3, <2>5, <2>6, <2>7, <2>8 DEF LockInv, TokensInv, Rotated
  <2>. QED BY <2>4, <2>9 DEF LockInv
<1>. QED BY <1>1, <1>2

\* What becomes of the refresh of a tab when something else happens there: it is kept, or
\* a caller joins it.
Follows(t) ==
    \/ \E q : /\ Keeps(tab[t], q) /\ tab' = [tab EXCEPT ![t] = q]
              /\ queue' = queue \/ Enqueue(<<t, "logout">>) \/ Dequeue(<<t, "logout">>)
    \/ /\ \E p \in Page, notify \in BOOLEAN : p.refresh = tab[t].refresh /\ JoinRefresh(t, p, notify)
       /\ cookies' = cookies /\ live' = live

\* Answers to the restoration, to a sign-in and to messages; edits and logout.
LEMMA EventFollows ==
  ASSUME Shape, NEW t \in Tabs,
         \/ CallbackAnswered(t) \/ RestoreAnswered(t) \/ EstablishedAnswered(t)
         \/ Edit(t) \/ EditRefused(t) \/ EditFails(t) \/ EditSaved(t)
         \/ Logout(t) \/ SendLogout(t) \/ LogoutAnswered(t) \/ Receive(t)
  PROVE  Follows(t)
<1>0. tab \in [Tabs -> Page] /\ tab[t] \in Page
  BY DEF Shape
<1>1. CASE CallbackAnswered(t)
  <2> DEFINE p == [tab[t] EXCEPT !.callback = Idle]
  <2>1. p \in Page /\ Keeps(tab[t], p)
    BY <1>0, Beginnings DEF Page, Keeps
  <2>2. \A user : Keeps(p, SignedInPage(p, user))
    BY <2>1, KeptRefresh
  <2>3. PICK q : Keeps(tab[t], q) /\ tab' = [tab EXCEPT ![t] = q]
    BY <1>1, <2>1, <2>2 DEF CallbackAnswered, Keeps
  <2>. QED BY <1>1, <2>3 DEF Follows, CallbackAnswered
<1>2. CASE RestoreAnswered(t)
  <2>1. CASE \E user : tab' = [tab EXCEPT ![t] = Apply(tab[t], user)] /\ queue' = queue
    BY <1>0, <1>2, <2>1, KeptRefresh DEF Follows, RestoreAnswered
  <2>2. CASE JoinRefresh(t, [tab[t] EXCEPT !.restore.phase = "refreshing"], FALSE)
    <3> DEFINE p == [tab[t] EXCEPT !.restore.phase = "refreshing"]
    <3>1. p \in Page /\ p.refresh = tab[t].refresh
      BY <1>0 DEF Page, Request
    <3>. QED BY <1>2, <2>2, <3>1 DEF Follows, RestoreAnswered
  <2>. QED BY <1>2, <2>1, <2>2 DEF RestoreAnswered
<1>3. CASE EstablishedAnswered(t)
  <2>1. PICK q : Keeps(tab[t], q) /\ tab' = [tab EXCEPT ![t] = q]
    BY <1>0, <1>3 DEF EstablishedAnswered, Page, Keeps
  <2>. QED BY <1>3, <2>1 DEF Follows, EstablishedAnswered
<1>4. CASE Edit(t)
  <2>1. PICK q : Keeps(tab[t], q) /\ tab' = [tab EXCEPT ![t] = q]
    BY <1>0, <1>4 DEF Edit, Page, Keeps
  <2>. QED BY <1>4, <2>1 DEF Follows, Edit
<1>5. CASE EditRefused(t)
  <2> DEFINE p == [tab[t] EXCEPT !.call.phase = "refreshing"]
  <2>1. p \in Page /\ p.refresh = tab[t].refresh
    BY <1>0 DEF Page, Request
  <2>. QED BY <1>5, <2>1 DEF Follows, EditRefused
<1>6. CASE EditFails(t)
  <2>1. PICK q : Keeps(tab[t], q) /\ tab' = [tab EXCEPT ![t] = q]
    BY <1>0, <1>6 DEF EditFails, Page, Keeps
  <2>. QED BY <1>6, <2>1 DEF Follows, EditFails
<1>7. CASE EditSaved(t)
  <2>1. PICK q : Keeps(tab[t], q) /\ tab' = [tab EXCEPT ![t] = q]
    BY <1>0, <1>7 DEF EditSaved, Page, Keeps
  <2>. QED BY <1>7, <2>1 DEF Follows, EditSaved
<1>8. CASE Logout(t)
  <2> DEFINE p == NewSessionGeneration(NewContextGeneration(tab[t]), TRUE)
             q == [p EXCEPT !.user = Nobody, !.modal = FALSE, !.logout = "queued"]
  <2>1. p \in Page /\ Keeps(tab[t], p)
    <3>1. /\ NewContextGeneration(tab[t]) \in Page
          /\ Keeps(tab[t], NewContextGeneration(tab[t]))
      BY <1>0, Generations, KeptRefresh
    <3>2. p \in Page /\ Keeps(NewContextGeneration(tab[t]), p)
      BY <3>1, Generations, KeptRefresh
    <3>. QED BY <3>1, <3>2, KeepsOn
  <2>2. tab' = [tab EXCEPT ![t] = q]
    BY <1>8 DEF Logout
  <2> HIDE DEF p
  <2>3. Keeps(tab[t], q)
    BY <2>1 DEF Keeps, Page
  <2>. QED BY <1>8, <2>2, <2>3 DEF Follows, Logout
<1>9. CASE SendLogout(t)
  <2>1. PICK q : Keeps(tab[t], q) /\ tab' = [tab EXCEPT ![t] = q]
    BY <1>0, <1>9 DEF SendLogout, Page, Keeps
  <2>. QED BY <1>9, <2>1 DEF Follows, SendLogout
<1>10. CASE LogoutAnswered(t)
  <2> DEFINE p == SignedOutPage(tab[t], FALSE)
  <2>1. p \in Page /\ Keeps(tab[t], p)
    BY <1>0, PageOperators, KeptRefresh
  <2>2. tab' = [tab EXCEPT ![t] = [p EXCEPT !.logout = "idle"]]
    BY <1>10 DEF LogoutAnswered
  <2> HIDE DEF p
  <2>3. Keeps(tab[t], [p EXCEPT !.logout = "idle"])
    BY <2>1 DEF Keeps, Page
  <2>. QED BY <1>10, <2>2, <2>3 DEF Follows, LogoutAnswered
<1>11. CASE Receive(t)
  <2>1. PICK q : Keeps(tab[t], q) /\ tab' = [tab EXCEPT ![t] = q]
    <3>1. Keeps(tab[t], SignedOutPage(tab[t], TRUE))
      BY <1>0, KeptRefresh
    <3>2. \A c \in BOOLEAN : /\ NewSessionGeneration(tab[t], c) \in Page
                             /\ Keeps(tab[t], NewSessionGeneration(tab[t], c))
      BY <1>0, Generations, KeptRefresh
    <3>3. Keeps(tab[t], SignedOutPage(NewSessionGeneration(tab[t], TRUE), FALSE))
      <4>1. Keeps(NewSessionGeneration(tab[t], TRUE),
                  SignedOutPage(NewSessionGeneration(tab[t], TRUE), FALSE))
        BY <3>2, KeptRefresh
      <4>. QED BY <3>2, <4>1, KeepsOn
    <3>4. /\ NewContextGeneration(NewSessionGeneration(tab[t], FALSE)) \in Page
          /\ Keeps(tab[t], NewContextGeneration(NewSessionGeneration(tab[t], FALSE)))
      BY <3>2, Generations, KeptRefresh DEF Keeps
    <3>5. \A p \in Page : \A e : Keeps(tab[t], p) => Keeps(tab[t], [p EXCEPT !.established = e])
      BY DEF Keeps, Page
    <3>. QED BY <1>11, <3>1, <3>3, <3>4, <3>5 DEF Receive
  <2>. QED BY <1>11, <2>1 DEF Follows, Receive
<1>. QED BY <1>1, <1>2, <1>3, <1>4, <1>5, <1>6, <1>7, <1>8, <1>9, <1>10, <1>11

LEMMA EventLock ==
  ASSUME Constants, HasLocks, Shape, LockInv, NEW t \in Tabs,
         \/ CallbackAnswered(t) \/ RestoreAnswered(t) \/ EstablishedAnswered(t)
         \/ Edit(t) \/ EditRefused(t) \/ EditFails(t) \/ EditSaved(t)
         \/ Logout(t) \/ SendLogout(t) \/ LogoutAnswered(t) \/ Receive(t)
  PROVE  LockInv'
<1>1. Follows(t)
  BY EventFollows
<1>2. begun' = begun /\ lost' = lost /\ live' \subseteq live
  BY DEF CallbackAnswered, RestoreAnswered, EstablishedAnswered, Edit, EditRefused, EditFails,
     EditSaved, Logout, SendLogout, LogoutAnswered, Receive
<1>3. cookies' = cookies \/ cookies' = [access |-> Nobody, refresh |-> NoToken]
  BY DEF CallbackAnswered, RestoreAnswered, EstablishedAnswered, Edit, EditRefused, EditFails,
     EditSaved, Logout, SendLogout, LogoutAnswered, Receive
<1>4. cookies'.refresh = cookies.refresh \/ cookies'.refresh = NoToken
  BY <1>3
<1>. QED BY <1>1, <1>2, <1>4, KeptStep, JoinStep DEF Follows

LEMMA LockStep ==
  Constants /\ HasLocks /\ Shape /\ Shape' /\ LockInv /\ [Next]_browserVars => LockInv'
<1> SUFFICES ASSUME Constants, HasLocks, Shape, Shape', LockInv, [Next]_browserVars
             PROVE  LockInv'
  OBVIOUS
<1>1. ASSUME NEW t \in Tabs, Answered(t) \/ Reload(t) \/ Logout(t) \/ Edit(t) \/ EditRefused(t)
                             \/ EditFails(t) \/ EditSaved(t)
      PROVE  LockInv'
  BY <1>1, SendRefreshLock, RefreshLock, LeaveLock, EventLock DEF Answered
<1>2. ASSUME NEW t \in Tabs, NEW n \in Logins, SocialLogin(t, n) PROVE LockInv'
  BY <1>2, LeaveLock
<1>3. ASSUME cookies'.refresh = cookies.refresh, live' \subseteq live,
             UNCHANGED <<tab, queue, begun, lost>>
      PROVE  LockInv'
  BY <1>3 DEF LockInv, OrderInv, TokensInv, Turn, Asking, Rotated
<1>4. CASE AccessExpires
  BY <1>3, <1>4 DEF AccessExpires, Shape, Jar
<1>5. ASSUME NEW token \in Tokens, SessionEnds(token) PROVE LockInv'
  BY <1>3, <1>5 DEF SessionEnds
<1>6. CASE UNCHANGED browserVars
  BY <1>3, <1>6 DEF browserVars
<1>. QED BY <1>1, <1>2, <1>4, <1>5, <1>6 DEF Next

LEMMA InitLock == Constants /\ Init => LockInv
<1>1. [FreshTab({}, Idle) EXCEPT !.user = First, !.loading = FALSE, !.restore = Idle].refresh.phase
         = "idle"
  BY DEF FreshTab, NoRefresh
<1> SUFFICES ASSUME Constants, Init PROVE LockInv
  OBVIOUS
<1>2. \A t \in Tabs : ~Asking(t)
  BY <1>1 DEF Init, Asking
<1>3. queue = {} /\ begun = {First}
      /\ cookies.refresh.login = First /\ live = {cookies.refresh}
  BY DEF Init
<1>. QED BY <1>2, <1>3 DEF LockInv, OrderInv, TokensInv, Rotated, Constants

-----------------------------------------------------------------------------
(* The channel, the counters, and which sessions there are.                *)

Messages == {"auth-required", "session-cleared", "session-established"}

\* Only a session that was begun has tokens, and may be lost.
KnownInv ==
    /\ inbox \in [Tabs -> Seq(Messages)] /\ loads \in 0 .. MaxLoads
    /\ begun \subseteq Logins /\ lost \subseteq begun
    /\ \A token \in live : token.login \in begun
    /\ \A t \in Tabs : Rotated(t) => tab[t].refresh.token.login \in begun

LEMMA InboxStep ==
  ASSUME inbox \in [Tabs -> Seq(Messages)], NEW t \in Tabs,
         \/ inbox' = inbox \/ \E m \in Messages : Post(t, m)
         \/ inbox' = [inbox EXCEPT ![t] = <<>>]
         \/ inbox[t] # <<>> /\ inbox' = [inbox EXCEPT ![t] = Tail(@)]
  PROVE  inbox' \in [Tabs -> Seq(Messages)]
<1>1. \A u \in Tabs : inbox[u] \in Seq(Messages)
  OBVIOUS
<1>2. ASSUME NEW m \in Messages, Post(t, m) PROVE inbox' \in [Tabs -> Seq(Messages)]
  <2>1. \A u \in Tabs : Append(inbox[u], m) \in Seq(Messages)
    BY <1>1, AppendProperties
  <2>. QED BY <1>1, <1>2, <2>1 DEF Post
<1>3. <<>> \in Seq(Messages)
  OBVIOUS
<1>4. inbox[t] # <<>> => Tail(inbox[t]) \in Seq(Messages)
  BY <1>1, HeadTailProperties
<1>. QED BY <1>2, <1>3, <1>4

\* A page whose refresh is kept, joined or over.
LEMMA KnownKept ==
  ASSUME KnownInv, tab \in [Tabs -> Page], NEW t \in Tabs,
         \/ Follows(t)
         \/ \E q : q.refresh = NoRefresh /\ tab' = [tab EXCEPT ![t] = q],
         inbox' \in [Tabs -> Seq(Messages)], loads' \in 0 .. MaxLoads,
         begun \subseteq begun', begun' \subseteq Logins, lost' \subseteq begun',
         \A token \in live' : token.login \in begun'
  PROVE  KnownInv'
<1>1. NoRefresh.phase # "asked"
  BY DEF NoRefresh
<1>2. \A u \in Tabs : Rotated(u)' =>
         Rotated(u) /\ tab'[u].refresh.token = tab[u].refresh.token
  <2>1. CASE \E q : q.refresh = NoRefresh /\ tab' = [tab EXCEPT ![t] = q]
    BY <1>1, <2>1 DEF Rotated, Asking
  <2>2. CASE \E q : Keeps(tab[t], q) /\ tab' = [tab EXCEPT ![t] = q]
    BY <2>2 DEF Rotated, Asking, Keeps
  <2>3. ASSUME NEW p \in Page, NEW notify \in BOOLEAN, p.refresh = tab[t].refresh,
               JoinRefresh(t, p, notify)
        PROVE  \A u \in Tabs : Rotated(u)' =>
                 Rotated(u) /\ tab'[u].refresh.token = tab[u].refresh.token
    <3>1. CASE p.refresh.phase = "idle"
      <4>1. PICK q : q.refresh.phase = "queued" /\ tab' = [tab EXCEPT ![t] = q]
        BY <2>3, <3>1 DEF JoinRefresh, Page, NoRefresh
      <4>. QED BY <4>1 DEF Rotated, Asking
    <3>2. CASE p.refresh.phase # "idle"
      <4>1. PICK q : Keeps(tab[t], q) /\ tab' = [tab EXCEPT ![t] = q]
        BY <2>3, <3>2 DEF JoinRefresh, Page, Refresh, Keeps
      <4>. QED BY <4>1 DEF Rotated, Asking, Keeps
    <3>. QED BY <3>1, <3>2
  <2>. QED BY <2>1, <2>2, <2>3 DEF Follows
<1>. QED BY <1>2 DEF KnownInv

LEMMA KnownSend ==
  ASSUME Constants, Shape, KnownInv, NEW t \in Tabs, SendRefresh(t)
  PROVE  KnownInv'
<1> DEFINE token == cookies.refresh
           next  == [token EXCEPT !.turn = @ + 1]
           sent(result, new) == [tab[t] EXCEPT !.refresh =
                        [@ EXCEPT !.phase = "asked", !.result = result, !.token = new]]
<1>1. tab \in [Tabs -> Page] /\ tab[t] \in Page /\ token \in Tokens \cup {NoToken}
  BY DEF Shape, Jar
<1>2. \A result, new : /\ sent(result, new).refresh.result = result
                       /\ sent(result, new).refresh.token = new
  BY <1>1 DEF Page, Refresh
<1>3. \E result \in {"ok", "refused", "failed"}, new \in {next, token} :
        /\ tab' = [tab EXCEPT ![t] = sent(result, new)]
        /\ \/ /\ token \in live /\ new = next
              /\ live' = (live \ {token}) \cup {next}
              /\ \/ result = "ok" /\ lost' = lost
                 \/ result = "failed" /\ lost' = lost \cup {token.login}
           \/ result # "ok" /\ live' \subseteq live /\ lost' = lost
  BY <1>1 DEF SendRefresh
<1>4. PICK result \in {"ok", "refused", "failed"}, new \in {next, token} :
        /\ tab' = [tab EXCEPT ![t] = sent(result, new)]
        /\ \/ /\ token \in live /\ new = next
              /\ live' = (live \ {token}) \cup {next}
              /\ \/ result = "ok" /\ lost' = lost
                 \/ result = "failed" /\ lost' = lost \cup {token.login}
           \/ result # "ok" /\ live' \subseteq live /\ lost' = lost
  BY <1>3
<1>5. next.login = token.login
  BY <1>1 DEF Tokens, NoToken
<1>6. begun' = begun /\ inbox' = inbox /\ loads' = loads
  BY DEF SendRefresh
<1> HIDE DEF sent, token, next
<1>7. lost' \subseteq begun /\ \A k \in live' : k.login \in begun
  BY <1>4, <1>5 DEF KnownInv
<1>8. \A u \in Tabs : Rotated(u)' =>
        \/ u = t /\ result = "ok" /\ tab'[u].refresh.token = next /\ token \in live
        \/ Rotated(u) /\ tab'[u].refresh.token = tab[u].refresh.token
  BY <1>1, <1>2, <1>4 DEF Rotated, Asking
<1>. QED BY <1>5, <1>6, <1>7, <1>8 DEF KnownInv

LEMMA KnownPage ==
  ASSUME Constants, Shape, KnownInv, NEW t \in Tabs,
         \/ RefreshSucceeds(t) \/ RefreshFails(t) \/ Reload(t)
         \/ \E n \in Logins : SocialLogin(t, n)
  PROVE  KnownInv'
<1>0. tab \in [Tabs -> Page] /\ tab[t] \in Page /\ inbox \in [Tabs -> Seq(Messages)]
  BY DEF Shape, KnownInv
<1>1. \E q : q.refresh = NoRefresh /\ tab' = [tab EXCEPT ![t] = q]
  <2>1. SignedOutPage(tab[t], TRUE) \in Page
    BY <1>0, PageOperators
  <2>. QED BY <1>0, <2>1, KeptRefresh
       DEF RefreshSucceeds, RefreshFails, Reload, SocialLogin
<1>2. inbox' \in [Tabs -> Seq(Messages)]
  <2>1. \/ inbox' = inbox \/ \E m \in Messages : Post(t, m)
        \/ inbox' = [inbox EXCEPT ![t] = <<>>]
    BY DEF RefreshSucceeds, RefreshFails, Reload, SocialLogin, Messages
  <2>. QED BY <1>0, <2>1, InboxStep
<1>3. loads' \in 0 .. MaxLoads
  <2>1. CASE Reload(t)
    BY <2>1 DEF Reload, KnownInv, Constants
  <2>2. CASE RefreshSucceeds(t) \/ RefreshFails(t) \/ \E n \in Logins : SocialLogin(t, n)
    BY <2>2 DEF RefreshSucceeds, RefreshFails, SocialLogin, KnownInv
  <2>. QED BY <2>1, <2>2
<1>4. begun \subseteq begun' /\ begun' \subseteq Logins
  BY DEF RefreshSucceeds, RefreshFails, Reload, SocialLogin, KnownInv
<1>5. lost' = lost \/ (Rotated(t) /\ lost' = lost \cup {tab[t].refresh.token.login})
  BY DEF RefreshSucceeds, RefreshFails, Reload, SocialLogin, Unload, Rotated, Asking
<1>6. \A token \in live' : token \in live \/ token.login \in begun'
  <2>1. \/ live' = live
        \/ \E n \in begun' : live' = live \cup {[login |-> n, turn |-> 0]}
    BY DEF RefreshSucceeds, RefreshFails, Reload, SocialLogin
  <2>. QED BY <2>1
<1>. QED BY <1>0, <1>1, <1>2, <1>3, <1>4, <1>5, <1>6, KnownKept DEF KnownInv

LEMMA KnownEvent ==
  ASSUME Shape, KnownInv, NEW t \in Tabs,
         \/ CallbackAnswered(t) \/ RestoreAnswered(t) \/ EstablishedAnswered(t)
         \/ Edit(t) \/ EditRefused(t) \/ EditFails(t) \/ EditSaved(t)
         \/ Logout(t) \/ SendLogout(t) \/ LogoutAnswered(t) \/ Receive(t)
  PROVE  KnownInv'
<1>1. Follows(t)
  BY EventFollows
<1>2. /\ begun' = begun /\ lost' = lost /\ live' \subseteq live /\ loads' = loads
      /\ \/ inbox' = inbox \/ \E m \in Messages : Post(t, m)
         \/ inbox[t] # <<>> /\ inbox' = [inbox EXCEPT ![t] = Tail(@)]
  BY DEF CallbackAnswered, RestoreAnswered, EstablishedAnswered, Edit, EditRefused, EditFails,
     EditSaved, Logout, SendLogout, LogoutAnswered, Receive, Messages
<1>3. inbox' \in [Tabs -> Seq(Messages)]
  BY <1>2, InboxStep DEF KnownInv
<1>. QED BY <1>1, <1>2, <1>3, KnownKept DEF KnownInv, Shape

LEMMA KnownStep == Constants /\ Shape /\ KnownInv /\ [Next]_browserVars => KnownInv'
<1> SUFFICES ASSUME Constants, Shape, KnownInv, [Next]_browserVars PROVE KnownInv'
  OBVIOUS
<1>1. ASSUME NEW t \in Tabs, Answered(t) \/ Reload(t) \/ Logout(t) \/ Edit(t) \/ EditRefused(t)
                             \/ EditFails(t) \/ EditSaved(t)
      PROVE  KnownInv'
  BY <1>1, KnownSend, KnownPage, KnownEvent DEF Answered
<1>2. ASSUME NEW t \in Tabs, NEW n \in Logins, SocialLogin(t, n) PROVE KnownInv'
  BY <1>2, KnownPage
<1>3. ASSUME live' \subseteq live, UNCHANGED <<tab, inbox, loads, begun, lost>>
      PROVE  KnownInv'
  BY <1>3 DEF KnownInv, Rotated, Asking
<1>4. CASE AccessExpires \/ \E token \in Tokens : SessionEnds(token)
  BY <1>3, <1>4 DEF AccessExpires, SessionEnds
<1>5. CASE UNCHANGED browserVars
  BY <1>3, <1>5 DEF browserVars
<1>. QED BY <1>1, <1>2, <1>4, <1>5 DEF Next

LEMMA InitKnown == Constants /\ Init => KnownInv
<1>1. [FreshTab({}, Idle) EXCEPT !.user = First, !.loading = FALSE, !.restore = Idle].refresh.phase
         = "idle"
  BY DEF FreshTab, NoRefresh
<1> SUFFICES ASSUME Constants, Init PROVE KnownInv
  OBVIOUS
<1>2. \A t \in Tabs : ~Rotated(t)
  BY <1>1 DEF Init, Rotated, Asking
<1>. QED BY <1>2 DEF Init, KnownInv, Constants

-----------------------------------------------------------------------------
(* The invariant of the session, and what follows from it.                 *)

SessionInv == Shape /\ KnownInv /\ OutInv /\ (HasLocks => LockInv)

LEMMA SessionBegins == Constants /\ Init => SessionInv
BY InitShape, InitKnown, InitOut, InitLock DEF SessionInv

LEMMA SessionGoesOn ==
  Constants /\ SessionInv /\ [Next]_browserVars => SessionInv' /\ StaysOut
<1> SUFFICES ASSUME Constants, SessionInv, [Next]_browserVars PROVE SessionInv' /\ StaysOut
  OBVIOUS
<1>1. Shape'
  BY ShapeStep DEF SessionInv
<1>2. OutInv' /\ StaysOut
  BY <1>1, OutStep DEF SessionInv
<1>3. (HasLocks => LockInv)'
  BY <1>1, LockStep DEF SessionInv
<1>4. KnownInv'
  BY KnownStep DEF SessionInv
<1>. QED BY <1>1, <1>2, <1>3, <1>4 DEF SessionInv

LEMMA SessionTypes == SessionInv => TypeOK
<1> SUFFICES ASSUME SessionInv PROVE TypeOK
  OBVIOUS
<1>1. /\ cookies \in [access : Logins \cup {Nobody}, refresh : Tokens \cup {NoToken}]
      /\ live \subseteq Tokens /\ tab \in [Tabs -> Page]
  BY DEF SessionInv, Shape, Jar, People
<1>2. loads \in 0 .. MaxLoads /\ begun \subseteq Logins /\ lost \subseteq begun
  BY DEF SessionInv, KnownInv
<1>3. \A t \in Tabs :
        inbox[t] \in Seq({"auth-required", "session-cleared", "session-established"})
  BY DEF SessionInv, KnownInv, Messages
<1>. QED BY <1>1, <1>2, <1>3 DEF TypeOK, Page, People, Request, Refresh

LEMMA RefusedWhenGone == SessionInv => RefusedMeansGone
BY DEF SessionInv, LockInv, TokensInv, RefusedMeansGone, Asking

\* The shape of pages, cookies and tokens holds throughout, and with it what keeps a
\* tab signed out and the tokens of the tabs apart.
THEOREM SessionInvariant == ASSUME Constants PROVE Spec => []SessionInv
<1>1. Init => SessionInv
  BY SessionBegins
<1>2. SessionInv /\ [Next]_browserVars => SessionInv'
  BY SessionGoesOn
<1>. QED BY <1>1, <1>2, PTL DEF Spec

\* In any number of tabs: once a tab is signed out, by its own logout or another
\* tab's, no answer on its way shows a user again until a session is established,
\* except that of a profile edit (updateUser has no guard).
THEOREM SignedOutStaysOut == ASSUME Constants PROVE Spec => ClearedTabStaysOut
<1>1. SessionInv /\ [Next]_browserVars => StaysOut
  BY SessionGoesOn
<1>. QED BY <1>1, SessionInvariant, PTL DEF Spec, ClearedTabStaysOut

\* However many tabs refresh, reload and sign in: where the browser has locks, a
\* refresh is refused only when its session is gone or an answer with the successor
\* was lost (auth-session.ts:99-112).
THEOREM RefusedAlwaysMeansGone == ASSUME Constants PROVE Spec => []RefusedMeansGone
BY SessionInvariant, RefusedWhenGone, PTL

=============================================================================
