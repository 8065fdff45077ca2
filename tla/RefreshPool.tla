---------------------------- MODULE RefreshPool ----------------------------
(***************************************************************************)
(* Token refreshes and the connections of the pool they share.  A refresh  *)
(* takes a connection for its transaction, locks the row of its token, and *)
(* looks up the user through the repository: a second connection, while    *)
(* the first is held.  The pool hands connections out in the order they    *)
(* were asked for, and a request that waited for five seconds fails.       *)
(***************************************************************************)
EXTENDS Integers, Sequences, FiniteSets, SequencesExt

CONSTANTS
    Requests,
    Tokens,       \* rows of refresh_tokens the requests present
    PoolSize,     \* max of pg-pool (50)
    Nobody        \* no request

VARIABLES
    phase,        \* where each refresh is
    token,        \* the token it presents
    waiting,      \* requests for a connection, oldest first
    free,         \* idle or not yet opened connections
    owner,        \* the transaction that locks each row
    rows          \* the tokens that exist

poolVars == <<phase, token, waiting, free, owner, rows>>

Phases == {"idle", "connect", "lock", "lookup", "user", "ended", "failed"}

Init ==
    /\ phase = [r \in Requests |-> "idle"]
    /\ token \in [Requests -> Tokens]
    /\ waiting = <<>>
    /\ free = PoolSize
    /\ owner = [k \in Tokens |-> Nobody]
    /\ rows = Tokens

Goto(r, p) == phase' = [phase EXCEPT ![r] = p]
Ask(r)     == waiting' = Append(waiting, r)

Begin(r) ==
    /\ phase[r] = "idle"
    /\ Goto(r, "connect")
    /\ Ask(r)
    /\ UNCHANGED <<token, free, owner, rows>>

(* The pool serves the request at the head, for the transaction or for the *)
(* lookup.                                                                 *)
Connect(r) ==
    /\ free > 0
    /\ waiting # <<>> /\ Head(waiting) = r
    /\ waiting' = Tail(waiting)
    /\ free' = free - 1
    /\ Goto(r, IF phase[r] = "connect" THEN "lock" ELSE "user")
    /\ UNCHANGED <<token, owner, rows>>

(* SELECT ... FOR UPDATE waits for the transaction that holds the row.     *)
Lock(r) ==
    /\ phase[r] = "lock"
    /\ token[r] \in rows
    /\ owner[token[r]] = Nobody
    /\ owner' = [owner EXCEPT ![token[r]] = r]
    /\ Goto(r, "lookup")
    /\ Ask(r)
    /\ UNCHANGED <<token, free, rows>>

Release(r, n) ==
    /\ free' = free + n
    /\ owner' = [k \in Tokens |-> IF owner[k] = r THEN Nobody ELSE owner[k]]

(* The row is gone: the token was used.                                    *)
Refuse(r) ==
    /\ phase[r] = "lock"
    /\ token[r] \notin rows
    /\ Release(r, 1)
    /\ Goto(r, "ended")
    /\ UNCHANGED <<token, waiting, rows>>

(* The lookup returns its connection; the rotation commits.                *)
Rotate(r) ==
    /\ phase[r] = "user"
    /\ rows' = rows \ {token[r]}
    /\ Release(r, 2)
    /\ Goto(r, "ended")
    /\ UNCHANGED <<token, waiting>>

NoTimeout(r) == FALSE                    \* a slip: connectionTimeoutMillis is not set
TimesOut(r) == Contains(waiting, r)

(* A wait of five seconds: the transaction, if there is one, rolls back.   *)
Timeout(r) ==
    /\ TimesOut(r)
    /\ \E i \in DOMAIN waiting : waiting[i] = r /\ waiting' = RemoveAt(waiting, i)
    /\ Release(r, IF phase[r] = "lookup" THEN 1 ELSE 0)
    /\ Goto(r, "failed")
    /\ UNCHANGED <<token, rows>>

(* The client tries again later.                                           *)
Retry(r) ==
    /\ phase[r] = "failed"
    /\ Goto(r, "idle")
    /\ UNCHANGED <<token, waiting, free, owner, rows>>

Next == \E r \in Requests :
    Begin(r) \/ Connect(r) \/ Lock(r) \/ Refuse(r) \/ Rotate(r) \/ Timeout(r) \/ Retry(r)

Proceeds(r) == Connect(r) \/ Refuse(r) \/ Rotate(r) \/ Timeout(r)

(* PostgreSQL grants a row lock to its waiters in turn, hence strong fairness. *)
Fairness == \A r \in Requests : WF_poolVars(Proceeds(r)) /\ SF_poolVars(Lock(r))

Spec == Init /\ [][Next]_poolVars /\ Fairness

-----------------------------------------------------------------------------
Count(phases) == Cardinality({r \in Requests : phase[r] \in phases})

(* Every part of the state has its type, and every connection is idle or   *)
(* held: by a transaction, or by the lookup within one.                    *)
TypeOK ==
    /\ phase \in [Requests -> Phases]
    /\ token \in [Requests -> Tokens]
    /\ waiting \in Seq(Requests)
    /\ owner \in [Tokens -> Requests \cup {Nobody}]
    /\ rows \subseteq Tokens
    /\ free \in Nat
    /\ free + Count({"lock", "lookup", "user"}) + Count({"user"}) = PoolSize

(* However many refreshes hold a connection while they wait for a second   *)
(* one, each of them ends or fails: the timeout breaks the circle.         *)
RefreshesEnd ==
    \A r \in Requests : phase[r] = "connect" ~> phase[r] \in {"ended", "failed"}
=============================================================================
