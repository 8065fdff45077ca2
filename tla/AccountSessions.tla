--------------------------- MODULE AccountSessions ---------------------------
(***************************************************************************)
(* backend/src/auth and backend/src/users: one account (a row of users),   *)
(* its refresh tokens (rows of refresh_tokens) and the requests that work  *)
(* on both at the same time.                                               *)
(*                                                                         *)
(* PostgreSQL runs READ COMMITTED.  Only refreshTokens opens a transaction *)
(* of several statements: it locks the token's row first, so everything up *)
(* to its commit is hidden and the commit is one step.  Elsewhere every    *)
(* statement commits by itself.  repository.save(entity) is a SELECT that  *)
(* finds the columns in which the entity differs from the row, and an      *)
(* UPDATE of those columns.  A DELETE of several rows finds the rows that  *)
(* are there when it begins, locks them one by one, and commits.           *)
(***************************************************************************)
EXTENDS FiniteSets

CONSTANTS
    Requests,    \* requests in flight at once
    Cron,        \* the nightly job clean-expired-tokens
    Tokens,      \* refresh tokens that can be issued (bounds the history)
    Ops,         \* the operations that are requested
    CutOff,      \* the processes that may be cut off at any point
    Nobody       \* no token, no entity

Statuses  == {"ACTIVE", "SUSPENDED", "DELETED"}
Columns   == {"status", "login", "profile"}
Rows      == [status : Statuses,
              login : {"own", "released"},    \* nickname, email, provider id
              profile : {"old", "new"}]       \* any other column

ASSUME OpsAssumption ==
    Ops \subseteq {"login", "refresh", "logout", "profile", "deactivate",
                   "suspend", "activate"}
ASSUME NobodyAssumption == Nobody \notin Tokens /\ Nobody \notin Rows
ASSUME CronAssumption   == Cron \notin Requests

Processes == Requests \cup {Cron}

VARIABLES
    user,      \* the row of the account
    live,      \* the rows of refresh_tokens
    issued,    \* every token ever generated
    root,      \* root[t]: the token of the login that t descends from
    expired,   \* tokens whose expires_at has passed
    op, pc,    \* what each process does, and where it is
    tok,       \* the token a refresh or logout was sent
    entity,    \* the entity a request has read and changed
    dirty,     \* the columns its save will write
    snap,      \* the rows its DELETE has found
    held,      \* ... and locked
    \* history, for the properties
    standing,  \* suspensions in flight whose status has not been overwritten
    sealed     \* a suspension has completed and still stands

tokens   == <<live, issued, root, expired>>
requests == <<op, pc, tok, entity, dirty, snap, held>>
history  == <<standing, sealed>>
vars     == <<user, tokens, requests, history>>

Labels == {"idle", "lock", "check", "rotate", "delete", "login", "issue", "guard",
           "read", "load", "write", "find", "remove"}

\* A row is locked by a refresh until its commit, or by a DELETE.
Holds(p, t) == (pc[p] \in {"check", "rotate"} /\ tok[p] = t) \/ t \in held[p]
Locked(t)   == \E p \in Processes : Holds(p, t)

-----------------------------------------------------------------------------
Init ==
    /\ user = [status |-> "ACTIVE", login |-> "own", profile |-> "old"]
    /\ live = {} /\ issued = {} /\ expired = {}
    /\ root = [t \in Tokens |-> Nobody]
    /\ op = [p \in Processes |-> "none"]
    /\ pc = [p \in Processes |-> "idle"]
    /\ tok = [p \in Processes |-> Nobody]
    /\ entity = [p \in Processes |-> Nobody]
    /\ dirty = [p \in Processes |-> {}]
    /\ snap = [p \in Processes |-> {}]
    /\ held = [p \in Processes |-> {}]
    /\ standing = {} /\ sealed = FALSE

Goto(r, l) == pc' = [pc EXCEPT ![r] = l]

\* The response is sent, or the handler throws.
End(r) ==
    /\ Goto(r, "idle")
    /\ op' = [op EXCEPT ![r] = "none"]
    /\ tok' = [tok EXCEPT ![r] = Nobody]
    /\ entity' = [entity EXCEPT ![r] = Nobody]
    /\ dirty' = [dirty EXCEPT ![r] = {}]
    /\ snap' = [snap EXCEPT ![r] = {}]
    /\ held' = [held EXCEPT ![r] = {}]

Only(r, l) == Goto(r, l) /\ UNCHANGED <<op, tok, entity, dirty, snap, held>>

\* A refresh or a logout carries a token that was issued once, live or not.
Begin(r) ==
    /\ pc[r] = "idle"
    /\ \E o \in Ops, t \in issued \cup {Nobody} :
         /\ (o \in {"refresh", "logout"}) <=> (t # Nobody)
         /\ op' = [op EXCEPT ![r] = o]
         /\ tok' = [tok EXCEPT ![r] = t]
         /\ Goto(r, CASE o = "login" -> "login"
                      [] o = "refresh" -> "lock"
                      [] o = "logout" -> "delete"
                      [] o \in {"profile", "deactivate"} -> "guard"
                      [] OTHER -> "read")
    /\ UNCHANGED <<user, tokens, entity, dirty, snap, held, history>>

BeginClean ==
    /\ pc[Cron] = "idle"
    /\ op' = [op EXCEPT ![Cron] = "clean"]
    /\ Goto(Cron, "find")
    /\ UNCHANGED <<user, tokens, tok, entity, dirty, snap, held, history>>

\* What has committed stays, an open transaction is rolled back.
Drop(p) ==
    /\ pc[p] # "idle"
    /\ End(p)
    /\ standing' = standing \ {p}
    /\ UNCHANGED <<user, tokens, sealed>>

\* The connection or the process goes away, or a call throws (R2, the
\* database), between two statements.
Abort(p) == p \in CutOff /\ Drop(p)

\* The bound on tokens: a request that finds none left to generate fails.
OutOfTokens(r) == pc[r] \in {"issue", "rotate"} /\ issued = Tokens /\ Drop(r)

-----------------------------------------------------------------------------
(* Signing in, rotating and dropping tokens.                               *)

\* findByProvider and findByEmail skip deleted rows.
LoginRead(r) ==
    /\ pc[r] = "login"
    /\ IF user.status = "ACTIVE" /\ user.login = "own" THEN Only(r, "issue") ELSE End(r)
    /\ UNCHANGED <<user, tokens, history>>

Generate(n, parent, rest) ==
    /\ n \in Tokens \ issued
    /\ issued' = issued \cup {n}
    /\ root' = [root EXCEPT ![n] = IF parent = Nobody THEN n ELSE root[parent]]
    /\ live' = rest \cup {n}
    /\ UNCHANGED expired

LoginIssue(r) ==
    /\ pc[r] = "issue"
    /\ \E n \in Tokens : Generate(n, Nobody, live)
    /\ End(r)
    /\ UNCHANGED <<user, history>>

\* Fault: the token's row is read without a lock.
RefreshLockUnlocked(r) ==
    /\ pc[r] = "lock"
    /\ IF tok[r] \in live THEN Only(r, "check") ELSE End(r)
    /\ UNCHANGED <<user, tokens, history>>

\* Fault: a refresh whose token is gone keeps looking for it.
RefreshLockRetries(r) ==
    /\ pc[r] = "lock"
    /\ tok[r] \in live /\ ~Locked(tok[r])
    /\ Only(r, "check")
    /\ UNCHANGED <<user, tokens, history>>

\* SELECT ... FOR UPDATE by token: waits for the row, or finds none.
RefreshLock(r) ==
    /\ pc[r] = "lock"
    /\ \/ tok[r] \in live /\ ~Locked(tok[r]) /\ Only(r, "check")
       \/ tok[r] \notin live /\ End(r)
    /\ UNCHANGED <<user, tokens, history>>

\* The token is removed and the call throws when the token has expired or the
\* account is not active; the exception rolls the removal back.
RefreshCheck(r) ==
    /\ pc[r] = "check"
    /\ IF tok[r] \notin expired /\ user.status = "ACTIVE"
         THEN Only(r, "rotate") ELSE End(r)
    /\ UNCHANGED <<user, tokens, history>>

RefreshRotate(r) ==
    /\ pc[r] = "rotate"
    /\ \E n \in Tokens : Generate(n, tok[r], live \ {tok[r]})
    /\ End(r)
    /\ UNCHANGED <<user, history>>

\* Fault: the DELETE does not wait for a refresh that holds the row.
LogoutDeleteUnlocked(r) ==
    /\ pc[r] = "delete"
    /\ live' = live \ {tok[r]}
    /\ End(r)
    /\ UNCHANGED <<user, issued, root, expired, history>>

LogoutDelete(r) ==
    /\ pc[r] = "delete"
    /\ ~Locked(tok[r])
    /\ live' = live \ {tok[r]}
    /\ End(r)
    /\ UNCHANGED <<user, issued, root, expired, history>>

Expire(t) ==
    /\ t \in issued \ expired
    /\ expired' = expired \cup {t}
    /\ UNCHANGED <<user, live, issued, root, requests, history>>

-----------------------------------------------------------------------------
(* Changing the account.                                                   *)

\* JwtStrategy.validate, before the handler.
Guard(r) ==
    /\ pc[r] = "guard"
    /\ IF user.status = "ACTIVE" THEN Only(r, "read") ELSE End(r)
    /\ UNCHANGED <<user, tokens, history>>

\* Fault: the status is stored as it was asked for.
EditedUnvalidated(o, row) ==
    CASE o = "profile" -> [row EXCEPT !.profile = "new"]
      [] o = "deactivate" -> [row EXCEPT !.status = "DELETED", !.login = "released"]
      [] OTHER -> [row EXCEPT !.status = o]

\* What a handler makes of the row it has read.
Edited(o, row) ==
    CASE o = "profile" -> [row EXCEPT !.profile = "new"]
      [] o = "deactivate" -> [row EXCEPT !.status = "DELETED", !.login = "released"]
      [] o = "suspend" -> [row EXCEPT !.status = "SUSPENDED"]
      [] OTHER -> [row EXCEPT !.status = "ACTIVE"]

\* Fault: a suspension deletes the tokens before it saves the status.
AfterRevokesFirst(o, done) ==
    CASE o \in {"deactivate", "suspend"} /\ done = "read" -> "find"
      [] o \in {"deactivate", "suspend"} /\ done = "revoke" -> "load"
      [] done = "read" -> "load"
      [] OTHER -> "idle"

\* The order of a handler: what it does after its first read, its save and its
\* DELETE of the tokens.
After(o, done) ==
    CASE o = "deactivate" /\ done = "read" -> "find"
      [] o = "suspend" /\ done = "save" -> "find"
      [] o = "deactivate" /\ done = "revoke" -> "load"
      [] done = "read" -> "load"
      [] OTHER -> "idle"

\* Goes on after done, with the row at status.  A suspension stands from its
\* save until the status is overwritten, and seals the account when it ends.
Stands(p, done) == IF op[p] = "suspend" /\ done = "save" THEN {p} ELSE {}
Proceed(p, done, status) ==
    LET s == IF status = "SUSPENDED" THEN standing \cup Stands(p, done) ELSE {} IN
    IF After(op[p], done) = "idle"
      THEN /\ End(p)
           /\ standing' = s \ {p}
           /\ sealed' = (status = "SUSPENDED" /\ (sealed \/ p \in s))
      ELSE /\ Goto(p, After(op[p], done))
           /\ snap' = [snap EXCEPT ![p] = {}] /\ held' = [held EXCEPT ![p] = {}]
           /\ standing' = s
           /\ sealed' = (status = "SUSPENDED" /\ sealed)
           /\ UNCHANGED <<op, tok, entity, dirty>>

Read(r) ==
    /\ pc[r] = "read"
    /\ IF op[r] \in {"suspend", "activate"} /\ user.status = "DELETED"
         THEN End(r)
         ELSE /\ entity' = [entity EXCEPT ![r] = Edited(op[r], user)]
              /\ Goto(r, After(op[r], "read"))
              /\ UNCHANGED <<op, tok, dirty, snap, held>>
    /\ UNCHANGED <<user, tokens, history>>

\* save: SELECT the row and compare; nothing to write when it is the same.
Load(r) ==
    /\ pc[r] = "load"
    /\ LET differs == {c \in Columns : entity[r][c] # user[c]} IN
         IF differs = {}
           THEN Proceed(r, "save", user.status)
           ELSE /\ dirty' = [dirty EXCEPT ![r] = differs]
                /\ Goto(r, "write")
                /\ UNCHANGED <<op, tok, entity, snap, held, history>>
    /\ UNCHANGED <<user, tokens>>

\* save: UPDATE the columns that differed.
Write(r) ==
    /\ pc[r] = "write"
    /\ user' = [c \in Columns |-> IF c \in dirty[r] THEN entity[r][c] ELSE user[c]]
    /\ Proceed(r, "save", user'.status)
    /\ UNCHANGED tokens

-----------------------------------------------------------------------------
(* DELETE of all tokens of the user, or (cron) of the expired ones.        *)

\* Fault: the nightly DELETE compares the wrong way round.
FindUnexpired(p) ==
    /\ pc[p] = "find"
    /\ snap' = [snap EXCEPT ![p] = IF op[p] = "clean" THEN live \ expired ELSE live]
    /\ Goto(p, "remove")
    /\ UNCHANGED <<user, tokens, op, tok, entity, dirty, held, history>>

Find(p) ==
    /\ pc[p] = "find"
    /\ snap' = [snap EXCEPT ![p] = IF op[p] = "clean" THEN live \cap expired ELSE live]
    /\ Goto(p, "remove")
    /\ UNCHANGED <<user, tokens, op, tok, entity, dirty, held, history>>

Take(p) ==
    /\ pc[p] = "remove"
    /\ \E t \in (snap[p] \cap live) \ held[p] :
         ~Locked(t) /\ held' = [held EXCEPT ![p] = @ \cup {t}]
    /\ UNCHANGED <<user, tokens, op, pc, tok, entity, dirty, snap, history>>

Remove(p) ==
    /\ pc[p] = "remove"
    /\ snap[p] \cap live \subseteq held[p]
    /\ live' = live \ held[p]
    /\ Proceed(p, "revoke", user.status)
    /\ UNCHANGED <<user, issued, root, expired>>

\* DELETEs that wait for each other: the database lets one of them fail.
WaitsFor(p, q) ==
    pc[p] = "remove" /\ \E t \in snap[p] \cap held[q] : t \notin held[p]
Deadlock(p) ==
    /\ \E ring \in SUBSET Processes :
         p \in ring /\ \A q \in ring : \E s \in ring \ {q} : WaitsFor(q, s)
    /\ Drop(p)

-----------------------------------------------------------------------------
Step(p) ==
    \/ LoginRead(p) \/ LoginIssue(p) \/ RefreshLock(p) \/ RefreshCheck(p)
    \/ RefreshRotate(p) \/ LogoutDelete(p) \/ Guard(p) \/ Read(p) \/ Load(p)
    \/ Write(p) \/ Find(p) \/ Take(p) \/ Remove(p) \/ Deadlock(p) \/ OutOfTokens(p)

Next ==
    \/ \E r \in Requests : Begin(r)
    \/ BeginClean
    \/ \E p \in Processes : Step(p) \/ Abort(p)
    \/ \E t \in Tokens : Expire(t)

\* A row lock is handed on in the order of waiting, so a statement that waits
\* gets its turn; the job runs every night.  Nothing says that a process is cut
\* off only so often: liveness is checked with CutOff = {}.
Fairness == WF_vars(BeginClean) /\ \A p \in Processes : SF_vars(Step(p))
Spec == Init /\ [][Next]_vars /\ Fairness

-----------------------------------------------------------------------------
(* Properties.                                                             *)

\* The row holds a status, the tokens are known, and a request that is about
\* to save carries a whole row.
TypeOK ==
    /\ user \in Rows
    /\ live \subseteq issued /\ issued \subseteq Tokens /\ expired \subseteq issued
    /\ root \in [Tokens -> Tokens \cup {Nobody}]
    /\ op \in [Processes -> Ops \cup {"none", "clean"}]
    /\ pc \in [Processes -> Labels]
    /\ tok \in [Processes -> Tokens \cup {Nobody}]
    /\ entity \in [Processes -> Rows \cup {Nobody}]
    /\ dirty \in [Processes -> SUBSET Columns]
    /\ snap \in [Processes -> SUBSET Tokens] /\ held \in [Processes -> SUBSET Tokens]
    /\ standing \subseteq Requests /\ sealed \in BOOLEAN

\* Rotation never forks a session: whatever duplicates of a token are sent at
\* once, one login has at most one token that works (auth.service.ts:114-117).
OneLiveTokenPerLogin ==
    \A t, u \in live : root[t] = root[u] => t = u

Alive(f) == \E t \in live : root[t] = f

\* A session that has ended, by logout, suspension, withdrawal or cleaning,
\* never comes back: no refresh in flight issues a token for it.
DeadSessionsStayDead ==
    [][\A f \in issued : ~Alive(f) => ~Alive(f)']_vars

\* When a suspension has completed and stands, no refresh that read the status
\* before it is still about to issue a token: the DELETE that follows the saved
\* status waits for the row it holds (users.service.ts:370-376).
RefreshBarrier ==
    sealed => \A r \in Requests : pc[r] # "rotate"

\* Expired tokens disappear although requests keep locking them, unless the
\* nightly DELETE and the DELETEs of suspensions keep running into deadlocks.
ExpiredTokensGo ==
    \/ \A t \in Tokens : t \in live \cap expired ~> t \notin live
    \/ []<><<\E p \in Processes : Deadlock(p)>>_vars

\* Every request ends: nobody waits for a lock for ever.
RequestsEnd == \A r \in Requests : pc[r] # "idle" ~> pc[r] = "idle"

\* users.service.ts:351: suspending deletes all refresh tokens of the user.
SuspendRevokesAll == [][~sealed /\ sealed' => live' = {}]_vars

\* users-contract.e2e-spec.ts:281: a suspended account is let in again when an
\* administrator has restored it.
SuspendedUntilRestored ==
    [][user.status = "SUSPENDED" /\ user'.status = "ACTIVE"
         => \E r \in Requests : op[r] = "activate" /\ pc[r] = "write"]_vars

\* auth.service.spec.ts:305: an expired token is deleted, then refused.
RefusedTokenRemoved ==
    [][\A r \in Requests :
         RefreshCheck(r) /\ pc'[r] = "idle" => tok[r] \notin live']_vars
=============================================================================
