---------------------------- MODULE SocialSignup ----------------------------
(***************************************************************************)
(* Signing in and signing up with a social account, from several tabs of   *)
(* one browser: the redirect to the provider, its callback (whose state    *)
(* must match a cookie of the start), the nickname modal with its delayed  *)
(* availability check, and the request that completes the sign-up.         *)
(*                                                                         *)
(* The providers answer with an identity, a provider and its id for the    *)
(* person.  A sign-up token stands for the identity it names.              *)
(***************************************************************************)
EXTENDS Integers, FiniteSets

CONSTANTS
    Tabs,
    Identities,   \* the social accounts people own
    Nicknames,
    MaxFlows,     \* bound: sign-ins a tab starts
    None          \* no identity, no nickname

VARIABLES
    states,       \* the state cookies: pairs of a name and the state it is for
    signup,       \* the sign-up cookie, shared by the tabs
    valid,        \* identities whose sign-up token has not expired
    users,        \* rows of users: [identity, nickname]
    page,         \* the state of each tab
    spent         \* history: states whose cookie was used or expired

signupVars == <<states, signup, valid, users, page, spent>>

States == Tabs \X (0..MaxFlows)
Users  == [identity : Identities, nickname : Nicknames]

Blank == [phase |-> "home", flow |-> 0, token |-> None, user |-> None,
          nickname |-> None, status |-> "idle", timer |-> FALSE, checks |-> {},
          signs |-> None]

Init ==
    /\ states = {}
    /\ signup = None
    /\ valid = {}
    /\ users = {}
    /\ page = [t \in Tabs |-> Blank]
    /\ spent = {}

StateOf(t)     == <<t, page[t].flow>>
Registered(i)  == \E u \in users : u.identity = i
Taken(name)    == \E u \in users : u.nickname = name

-----------------------------------------------------------------------------
(* The redirect: each start has a state cookie under a name of its own.    *)

OneName(state) == "oauth_state"          \* a slip: one cookie for every start
StateName(state) == state

SetState(state) == {c \in states : c[1] # StateName(state)} \cup {<<StateName(state), state>>}

Begin(t) ==
    /\ page[t].phase \in {"home", "error"}
    /\ page[t].flow < MaxFlows
    /\ page' = [page EXCEPT ![t].phase = "provider", ![t].flow = @ + 1]
    /\ states' = SetState(<<t, page[t].flow + 1>>)
    /\ UNCHANGED <<signup, valid, users, spent>>

StateExpires(c) ==
    /\ c \in states
    /\ states' = states \ {c}
    /\ spent' = spent \cup {c[2]}
    /\ UNCHANGED <<signup, valid, users, page>>

(* handleSocialCallback.                                                   *)
Verified(t) == <<StateName(StateOf(t)), StateOf(t)>> \in states
Spend(t)    == /\ states' = states \ {<<StateName(StateOf(t)), StateOf(t)>>}
               /\ spent' = spent \cup {StateOf(t)}

CallbackInvalid(t) ==
    /\ page[t].phase = "provider"
    /\ ~Verified(t)
    /\ page' = [page EXCEPT ![t].phase = "refused"]
    /\ UNCHANGED <<states, signup, valid, users, spent>>

CallbackKnown(t, i) ==
    /\ page[t].phase = "provider"
    /\ Verified(t)
    /\ Registered(i)
    /\ Spend(t)
    /\ signup' = None
    /\ page' = [page EXCEPT ![t].phase = "done", ![t].user = i]
    /\ UNCHANGED <<valid, users>>

CallbackNew(t, i) ==
    /\ page[t].phase = "provider"
    /\ Verified(t)
    /\ ~Registered(i)
    /\ Spend(t)
    /\ signup' = i
    /\ valid' = valid \cup {i}
    /\ page' = [page EXCEPT ![t].phase = "nickname", ![t].token = i]
    /\ UNCHANGED users

(* The provider refuses the code, or the person cancelled and no code came.*)
CallbackFails(t) ==
    /\ page[t].phase = "provider"
    /\ \/ Verified(t) /\ Spend(t)
       \/ UNCHANGED <<states, spent>>
    /\ page' = [page EXCEPT ![t].phase = "error"]
    /\ UNCHANGED <<signup, valid, users>>

(* The page of the callback is loaded a second time, or left for home.     *)
Replay(t) ==
    /\ page[t].phase \in {"nickname", "ott", "done"}
    /\ page' = [page EXCEPT ![t] = [Blank EXCEPT !.phase = "provider", !.flow = page[t].flow,
                                                 !.token = page[t].token]]
    /\ UNCHANGED <<states, signup, valid, users, spent>>

GoHome(t) ==
    /\ page[t].phase \in {"refused", "done", "nickname", "ott"}
    /\ page' = [page EXCEPT ![t] = [Blank EXCEPT !.flow = page[t].flow,
                                                 !.token = page[t].token]]
    /\ UNCHANGED <<states, signup, valid, users, spent>>

-----------------------------------------------------------------------------
(* The nickname modal: a check is sent when typing pauses, and its answer  *)
(* is shown for whatever the field holds by then.                          *)

Type(t, name) ==
    /\ page[t].phase = "nickname"
    /\ name # page[t].nickname
    /\ page' = [page EXCEPT ![t].nickname = name, ![t].status = "checking",
                            ![t].timer = TRUE]
    /\ UNCHANGED <<states, signup, valid, users, spent>>

SendCheck(t) ==
    /\ page[t].timer
    /\ page' = [page EXCEPT ![t].timer = FALSE, ![t].checks = @ \cup {page[t].nickname}]
    /\ UNCHANGED <<states, signup, valid, users, spent>>

CheckAnswered(t, name) ==
    /\ name \in page[t].checks
    /\ \E status \in {IF Taken(name) THEN "taken" ELSE "available", "idle"} :
         page' = [page EXCEPT ![t].checks = @ \ {name}, ![t].status = status]
    /\ UNCHANGED <<states, signup, valid, users, spent>>

(* The second step, the subscriptions, and back.                           *)
NextStep(t) ==
    /\ page[t].phase = "nickname"
    /\ page[t].status = "available"
    /\ page' = [page EXCEPT ![t].phase = "ott"]
    /\ UNCHANGED <<states, signup, valid, users, spent>>

BackToNickname(t) ==
    /\ page[t].phase = "ott"
    /\ page' = [page EXCEPT ![t].phase = "nickname"]
    /\ UNCHANGED <<states, signup, valid, users, spent>>

-----------------------------------------------------------------------------
(* Completing the sign-up: the token of the cookie comes before the one    *)
(* the page kept, then the checks of the identity and the nickname, and    *)
(* the insertion under two unique constraints.                             *)

Submit(t) ==
    /\ page[t].phase = "ott"
    /\ page' = [page EXCEPT ![t].phase = "provider-check",
                            ![t].signs = IF signup # None THEN signup ELSE page[t].token]
    /\ UNCHANGED <<states, signup, valid, users, spent>>

Refuse(t) ==
    /\ signup' = None
    /\ page' = [page EXCEPT ![t].phase = "ott", ![t].signs = None]
    /\ UNCHANGED <<states, valid, users, spent>>

CheckIdentity(t) ==
    /\ page[t].phase = "provider-check"
    /\ IF page[t].signs \notin valid \/ Registered(page[t].signs)
       THEN Refuse(t)
       ELSE /\ page' = [page EXCEPT ![t].phase = "nickname-check"]
            /\ UNCHANGED <<states, signup, valid, users, spent>>

CheckNickname(t) ==
    /\ page[t].phase = "nickname-check"
    /\ IF Taken(page[t].nickname)
       THEN Refuse(t)
       ELSE /\ page' = [page EXCEPT ![t].phase = "insert"]
            /\ UNCHANGED <<states, signup, valid, users, spent>>

Unconstrained(t) == TRUE                 \* a slip: the table has no unique constraints
Insertable(t) == ~Registered(page[t].signs) /\ ~Taken(page[t].nickname)

Insert(t) ==
    /\ page[t].phase = "insert"
    /\ IF ~Insertable(t)
       THEN Refuse(t)
       ELSE /\ users' = users \cup {[identity |-> page[t].signs, nickname |-> page[t].nickname]}
            /\ signup' = None
            /\ page' = [page EXCEPT ![t] = [Blank EXCEPT !.phase = "done",
                                              !.flow = page[t].flow, !.user = page[t].signs]]
            /\ UNCHANGED <<states, valid, spent>>

SignupExpires(i) ==
    /\ i \in valid
    /\ valid' = valid \ {i}
    /\ signup' = IF signup = i THEN None ELSE signup
    /\ UNCHANGED <<states, users, page, spent>>

Next ==
    \/ \E t \in Tabs :
         \/ Begin(t) \/ CallbackInvalid(t) \/ CallbackFails(t) \/ Replay(t) \/ GoHome(t)
         \/ SendCheck(t) \/ NextStep(t) \/ BackToNickname(t)
         \/ Submit(t) \/ CheckIdentity(t) \/ CheckNickname(t) \/ Insert(t)
         \/ \E i \in Identities : CallbackKnown(t, i) \/ CallbackNew(t, i)
         \/ \E name \in Nicknames : Type(t, name) \/ CheckAnswered(t, name)
    \/ \E c \in states : StateExpires(c)
    \/ \E i \in Identities : SignupExpires(i)

Spec == Init /\ [][Next]_signupVars

-----------------------------------------------------------------------------
(* Every part of the state has its type.                                   *)
TypeOK ==
    /\ \A c \in states : c[2] \in States
    /\ signup \in Identities \cup {None}
    /\ valid \subseteq Identities
    /\ users \subseteq Users
    /\ \A t \in Tabs :
         /\ page[t].phase \in {"home", "provider", "refused", "error", "done", "nickname", "ott",
                               "provider-check", "nickname-check", "insert"}
         /\ page[t].status \in {"idle", "checking", "available", "taken"}
         /\ page[t].token \in Identities \cup {None}
         /\ page[t].checks \subseteq Nicknames
    /\ spent \subseteq States

(* Sign-ins of different tabs do not disturb each other: a callback is     *)
(* refused only when its own state was used before or has expired.         *)
FlowsIndependent ==
    \A t \in Tabs : page[t].phase = "refused" => StateOf(t) \in spent

(* However the sign-ups of two tabs interleave, between their checks and   *)
(* their insertions, a social identity has one account and a nickname one  *)
(* owner.                                                                  *)
OneAccountEach ==
    \A u, v \in users : u.identity = v.identity \/ u.nickname = v.nickname => u = v
=============================================================================
