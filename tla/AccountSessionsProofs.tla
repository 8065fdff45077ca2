------------------------ MODULE AccountSessionsProofs ------------------------
(***************************************************************************)
(* Proofs about AccountSessions, for any number of requests and tokens.    *)
(***************************************************************************)
EXTENDS AccountSessions, TLAPS

\* Which process runs which operation, and what it carries where.
Carried ==
    \A p \in Processes :
      /\ op[p] \in (IF p = Cron THEN {"none", "clean"} ELSE Ops \cup {"none"})
      /\ p = Cron => pc[p] \in {"idle", "find", "remove"}
      /\ pc[p] \in {"lock", "check", "rotate", "delete"} => tok[p] \in issued
      /\ (pc[p] \in {"load", "write"}
            \/ (pc[p] \in {"find", "remove"} /\ op[p] = "deactivate"))
         => entity[p] \in Rows
      /\ held[p] # {} => pc[p] = "remove"

\* A locked row is there, and has one holder.
Locks ==
    /\ \A p \in Processes : pc[p] \in {"check", "rotate"} => tok[p] \in live
    /\ \A p \in Processes : held[p] \subseteq live
    /\ \A p, q \in Processes : \A t \in Tokens : Holds(p, t) /\ Holds(q, t) => p = q

\* A token's login was a token itself, and no two live tokens share it.
Roots ==
    /\ \A t \in issued : root[t] \in issued
    /\ OneLiveTokenPerLogin

\* What a suspension has achieved before it ends.
Barrier ==
    /\ standing # {} \/ sealed => user.status = "SUSPENDED"
    /\ \A s \in standing :
         /\ op[s] = "suspend" /\ pc[s] \in {"find", "remove"}
         /\ pc[s] = "remove" =>
              \A q \in Processes : pc[q] = "rotate" => tok[q] \in snap[s]
    /\ sealed => \A q \in Processes : pc[q] # "rotate"

IInv == TypeOK /\ Carried /\ Locks /\ Roots /\ Barrier

-----------------------------------------------------------------------------
(* What the shared steps of the handlers do.                               *)

\* A saved row is a row: it takes each column from one of two rows.
LEMMA MergeIsRow ==
    ASSUME NEW old \in Rows, NEW new \in Rows, NEW cols
    PROVE  [c \in Columns |-> IF c \in cols THEN new[c] ELSE old[c]] \in Rows
BY DEF Rows, Columns, Statuses

\* A handler makes a row of a row.
LEMMA EditIsRow ==
    ASSUME NEW o, NEW row \in Rows
    PROVE  Edited(o, row) \in Rows
BY DEF Edited, Rows, Statuses

\* The part of the types that a request's own step changes.
RequestTypes ==
    /\ op \in [Processes -> Ops \cup {"none", "clean"}]
    /\ pc \in [Processes -> Labels]
    /\ tok \in [Processes -> Tokens \cup {Nobody}]
    /\ entity \in [Processes -> Rows \cup {Nobody}]
    /\ dirty \in [Processes -> SUBSET Columns]
    /\ snap \in [Processes -> SUBSET Tokens] /\ held \in [Processes -> SUBSET Tokens]

\* A request that ends carries nothing, the others what they carried.
LEMMA EndTypes ==
    ASSUME RequestTypes, Carried, issued \subseteq issued',
           NEW p \in Processes, End(p)
    PROVE  RequestTypes' /\ Carried'
<1>1. RequestTypes'
  BY DEF RequestTypes, End, Goto, Labels
<1>2. Carried'
  BY DEF RequestTypes, Carried, End, Goto
<1> QED BY <1>1, <1>2

\* A request that only moves on keeps what it carries.
LEMMA OnlyTypes ==
    ASSUME RequestTypes, Carried, issued \subseteq issued',
           NEW p \in Requests, NEW l \in {"issue", "check", "rotate", "read"}, Only(p, l),
           l \in {"check", "rotate"} => tok[p] \in issued, held[p] = {}
    PROVE  RequestTypes' /\ Carried'
<1>1. p \in Processes /\ p # Cron
  BY CronAssumption DEF Processes
<1>2. RequestTypes'
  BY <1>1 DEF RequestTypes, Only, Goto, Labels
<1>3. Carried'
  BY <1>1 DEF RequestTypes, Carried, Only, Goto
<1> QED BY <1>2, <1>3

\* A request that goes on to its save has the row to save.
LEMMA ProceedTypes ==
    ASSUME RequestTypes, Carried, issued \subseteq issued',
           NEW p \in Processes, NEW done \in {"save", "revoke"}, NEW status,
           Proceed(p, done, status),
           done = "save" => p # Cron,
           After(op[p], done) = "load" => entity[p] \in Rows
    PROVE  RequestTypes' /\ Carried'
<1>1. CASE After(op[p], done) = "idle"
  BY <1>1, EndTypes DEF Proceed
<1>2. CASE After(op[p], done) # "idle"
  <2>1. /\ After(op[p], done) \in {"find", "load"}
        /\ After(op[p], done) = "find" => op[p] = "suspend"
        /\ After(op[p], done) = "load" => op[p] = "deactivate"
    BY <1>2 DEF After
  <2>2. p # Cron
    BY <2>1, OpsAssumption DEF Carried
  <2>3. RequestTypes'
    BY <1>2, <2>1 DEF Proceed, RequestTypes, Goto, Labels
  <2>4. Carried'
    BY <1>2, <2>1, <2>2 DEF Proceed, RequestTypes, Carried, Goto
  <2> QED BY <2>3, <2>4
<1> QED BY <1>1, <1>2

-----------------------------------------------------------------------------
(* Types.                                                                  *)

\* The types of the account, the tokens and the history.
SharedTypes ==
    /\ user \in Rows
    /\ live \subseteq issued /\ issued \subseteq Tokens /\ expired \subseteq issued
    /\ root \in [Tokens -> Tokens \cup {Nobody}]
    /\ standing \subseteq Requests /\ sealed \in BOOLEAN

\* A fresh token is a token, and its login is one.
LEMMA GenerateTypes ==
    ASSUME SharedTypes, NEW n \in Tokens, NEW parent \in Tokens \cup {Nobody},
           NEW rest \in SUBSET live, Generate(n, parent, rest),
           UNCHANGED <<user, history>>
    PROVE  SharedTypes'
BY NobodyAssumption, ZenonT(30) DEF SharedTypes, Generate, history

\* Suspensions that stand are requests.
LEMMA ProceedHistory ==
    ASSUME RequestTypes, Carried, standing \subseteq Requests, sealed \in BOOLEAN,
           NEW p \in Processes, NEW done, NEW status, Proceed(p, done, status)
    PROVE  standing' \subseteq Requests /\ sealed' \in BOOLEAN
<1>1. op[p] = "suspend" => p \in Requests
  BY OpsAssumption DEF Carried, Processes
<1>2. standing' \subseteq standing \cup Stands(p, done)
  BY DEF Proceed
<1>3. Stands(p, done) \subseteq Requests
  BY <1>1 DEF Stands
<1>4. sealed' \in BOOLEAN
  BY Zenon DEF Proceed
<1> QED BY <1>2, <1>3, <1>4

\* The operations a step can start, and what a request of them carries.
LEMMA BeginTypes ==
    ASSUME TypeOK, Carried, NEW r \in Requests, Begin(r)
    PROVE  TypeOK' /\ Carried'
<1>1. PICK o \in Ops, t \in issued \cup {Nobody}, l \in Labels :
        /\ (o \in {"refresh", "logout"}) <=> (t # Nobody)
        /\ op' = [op EXCEPT ![r] = o] /\ tok' = [tok EXCEPT ![r] = t]
        /\ Goto(r, l)
        /\ l \in {"lock", "delete"} => o \in {"refresh", "logout"}
        /\ l \in {"login", "lock", "delete", "guard", "read"}
  <2>1. PICK o \in Ops, t \in issued \cup {Nobody} :
          /\ (o \in {"refresh", "logout"}) <=> (t # Nobody)
          /\ op' = [op EXCEPT ![r] = o] /\ tok' = [tok EXCEPT ![r] = t]
          /\ Goto(r, CASE o = "login" -> "login"
                       [] o = "refresh" -> "lock"
                       [] o = "logout" -> "delete"
                       [] o \in {"profile", "deactivate"} -> "guard"
                       [] OTHER -> "read")
    BY DEF Begin
  <2> DEFINE l == CASE o = "login" -> "login"
                    [] o = "refresh" -> "lock"
                    [] o = "logout" -> "delete"
                    [] o \in {"profile", "deactivate"} -> "guard"
                    [] OTHER -> "read"
  <2>2. /\ l \in {"login", "lock", "delete", "guard", "read"}
        /\ l \in {"lock", "delete"} => o \in {"refresh", "logout"}
    OBVIOUS
  <2> HIDE DEF l
  <2>3. l \in Labels
    BY <2>2 DEF Labels
  <2>4. Goto(r, l)
    BY <2>1 DEF l
  <2> QED BY <2>1, <2>2, <2>3, <2>4
<1>2. r \in Processes /\ r # Cron /\ pc[r] = "idle"
  BY CronAssumption DEF Processes, Begin
<1>3. UNCHANGED <<user, tokens, entity, dirty, snap, held, history>>
  BY DEF Begin
<1>4. TypeOK'
  BY <1>1, <1>2, <1>3 DEF TypeOK, Goto, tokens, history
<1>5. Carried'
  BY <1>1, <1>2, <1>3 DEF TypeOK, Carried, Goto, tokens, history
<1> QED BY <1>4, <1>5

\* TypeOK in its two parts, before and after a step.
LEMMA TypeParts ==
    /\ TypeOK <=> SharedTypes /\ RequestTypes
    /\ TypeOK' <=> SharedTypes' /\ RequestTypes'
BY DEF TypeOK, SharedTypes, RequestTypes

\* Every step of a handler keeps the types.
LEMMA StepTypes ==
    ASSUME TypeOK, Carried, NEW p \in Processes, Step(p) \/ Abort(p)
    PROVE  TypeOK' /\ Carried'
<1> USE DEF tokens, history
<1>0. /\ SharedTypes /\ RequestTypes
      /\ pc[p] \notin {"idle", "find", "remove"} => p \in Requests
      /\ pc[p] # "remove" => held[p] = {}
  BY TypeParts DEF Carried, Processes
<1>1. ASSUME LoginRead(p) PROVE TypeOK' /\ Carried'
  <2>1. SharedTypes' /\ issued \subseteq issued' /\ p \in Requests
    BY <1>0, <1>1, Zenon DEF LoginRead, SharedTypes
  <2>2. (Only(p, "issue") /\ held[p] = {}) \/ End(p)
    BY <1>0, <1>1 DEF LoginRead
  <2> QED BY <1>0, <2>1, <2>2, EndTypes, OnlyTypes, TypeParts
<1>2. ASSUME LoginIssue(p) PROVE TypeOK' /\ Carried'
  <2>1. PICK n \in Tokens : Generate(n, Nobody, live)
    BY <1>2 DEF LoginIssue
  <2>2. SharedTypes' /\ issued \subseteq issued'
    BY <1>0, <1>2, <2>1, GenerateTypes DEF LoginIssue, Generate
  <2> QED BY <1>0, <1>2, <2>2, EndTypes, TypeParts DEF LoginIssue
<1>3. ASSUME RefreshLock(p) PROVE TypeOK' /\ Carried'
  <2>1. SharedTypes' /\ issued \subseteq issued' /\ p \in Requests
    BY <1>0, <1>3, Zenon DEF RefreshLock, SharedTypes
  <2>2. (Only(p, "check") /\ tok[p] \in issued /\ held[p] = {}) \/ End(p)
    BY <1>0, <1>3 DEF RefreshLock, SharedTypes
  <2> QED BY <1>0, <2>1, <2>2, EndTypes, OnlyTypes, TypeParts
<1>4. ASSUME RefreshCheck(p) PROVE TypeOK' /\ Carried'
  <2>1. SharedTypes' /\ issued \subseteq issued' /\ p \in Requests
    BY <1>0, <1>4, Zenon DEF RefreshCheck, SharedTypes
  <2>2. (Only(p, "rotate") /\ tok[p] \in issued /\ held[p] = {}) \/ End(p)
    BY <1>0, <1>4 DEF RefreshCheck, Carried
  <2> QED BY <1>0, <2>1, <2>2, EndTypes, OnlyTypes, TypeParts
<1>5. ASSUME RefreshRotate(p) PROVE TypeOK' /\ Carried'
  <2>1. PICK n \in Tokens : Generate(n, tok[p], live \ {tok[p]})
    BY <1>5 DEF RefreshRotate
  <2>2. tok[p] \in Tokens \cup {Nobody} /\ live \ {tok[p]} \in SUBSET live
    BY <1>0 DEF RequestTypes
  <2>3. SharedTypes'
    BY <1>0, <1>5, <2>1, <2>2, GenerateTypes DEF RefreshRotate
  <2>4. issued \subseteq issued'
    BY <2>1 DEF Generate
  <2> QED BY <1>0, <1>5, <2>3, <2>4, EndTypes, TypeParts DEF RefreshRotate
<1>6. ASSUME LogoutDelete(p) PROVE TypeOK' /\ Carried'
  <2>1. SharedTypes' /\ issued \subseteq issued'
    BY <1>0, <1>6, Zenon DEF LogoutDelete, SharedTypes
  <2> QED BY <1>0, <1>6, <2>1, EndTypes, TypeParts DEF LogoutDelete
<1>7. ASSUME Guard(p) PROVE TypeOK' /\ Carried'
  <2>1. SharedTypes' /\ issued \subseteq issued' /\ p \in Requests
    BY <1>0, <1>7, Zenon DEF Guard, SharedTypes
  <2>2. (Only(p, "read") /\ held[p] = {}) \/ End(p)
    BY <1>0, <1>7 DEF Guard
  <2> QED BY <1>0, <2>1, <2>2, EndTypes, OnlyTypes, TypeParts
<1>8. ASSUME Read(p) PROVE TypeOK' /\ Carried'
  <2>1. SharedTypes' /\ issued \subseteq issued' /\ p \in Requests
    BY <1>0, <1>8, Zenon DEF Read, SharedTypes
  <2>2. CASE End(p)
    BY <1>0, <2>1, <2>2, EndTypes, TypeParts
  <2>3. CASE ~End(p)
    <3>1. /\ entity' = [entity EXCEPT ![p] = Edited(op[p], user)]
          /\ Goto(p, After(op[p], "read"))
          /\ UNCHANGED <<op, tok, dirty, snap, held>>
      BY <1>8, <2>3 DEF Read
    <3>2. Edited(op[p], user) \in Rows /\ After(op[p], "read") \in {"find", "load"}
      BY <1>0, EditIsRow DEF SharedTypes, After
    <3>3. RequestTypes'
      BY <1>0, <3>1, <3>2 DEF RequestTypes, Goto, Labels
    <3>4. Carried'
      BY <1>0, <1>8, <2>1, <3>1, <3>2, CronAssumption
         DEF RequestTypes, Carried, Goto, Read
    <3> QED BY <2>1, <3>3, <3>4, TypeParts
  <2> QED BY <2>2, <2>3
<1>9. ASSUME Load(p) PROVE TypeOK' /\ Carried'
  <2>1. p \in Requests /\ p # Cron /\ issued \subseteq issued' /\ entity[p] \in Rows
    BY <1>0, <1>9, CronAssumption DEF Load, Carried
  <2>2. CASE Proceed(p, "save", user.status)
    <3>1. After(op[p], "save") # "load"
      BY DEF After
    <3>2. RequestTypes' /\ Carried'
      BY <1>0, <2>1, <2>2, <3>1, ProceedTypes
    <3>3. standing' \subseteq Requests /\ sealed' \in BOOLEAN
      BY <1>0, <2>2, ProceedHistory DEF SharedTypes
    <3>4. SharedTypes'
      BY <1>0, <1>9, <3>3, Zenon DEF SharedTypes, Load
    <3> QED BY <3>2, <3>4, TypeParts
  <2>3. CASE ~Proceed(p, "save", user.status)
    <3>1. PICK d \in SUBSET Columns :
            /\ dirty' = [dirty EXCEPT ![p] = d]
            /\ Goto(p, "write")
            /\ UNCHANGED <<op, tok, entity, snap, held, history>>
      BY <1>9, <2>3 DEF Load
    <3>2. RequestTypes'
      BY <1>0, <3>1 DEF RequestTypes, Goto, Labels
    <3>3. Carried'
      BY <1>0, <1>9, <2>1, <3>1 DEF RequestTypes, Carried, Goto, Load
    <3>4. SharedTypes'
      BY <1>0, <1>9, <3>1, Zenon DEF SharedTypes, Load
    <3> QED BY <3>2, <3>3, <3>4, TypeParts
  <2> QED BY <2>2, <2>3
<1>10. ASSUME Write(p) PROVE TypeOK' /\ Carried'
  <2>1. p \in Requests /\ p # Cron /\ issued \subseteq issued' /\ entity[p] \in Rows
    BY <1>0, <1>10, CronAssumption DEF Write, Carried
  <2>2. user' \in Rows
    BY <1>0, <1>10, <2>1, MergeIsRow DEF Write, SharedTypes
  <2>3. After(op[p], "save") # "load"
    BY DEF After
  <2>4. RequestTypes' /\ Carried'
    BY <1>0, <1>10, <2>1, <2>3, ProceedTypes DEF Write
  <2>5. standing' \subseteq Requests /\ sealed' \in BOOLEAN
    BY <1>0, <1>10, ProceedHistory DEF SharedTypes, Write
  <2>6. SharedTypes'
    BY <1>0, <1>10, <2>2, <2>5, Zenon DEF SharedTypes, Write
  <2> QED BY <2>4, <2>6, TypeParts
<1>11. ASSUME Find(p) PROVE TypeOK' /\ Carried'
  <2>1. SharedTypes'
    BY <1>0, <1>11, Zenon DEF Find, SharedTypes
  <2>2. RequestTypes'
    BY <1>0, <1>11 DEF Find, RequestTypes, SharedTypes, Goto, Labels
  <2>3. Carried'
    BY <1>0, <1>11 DEF Find, RequestTypes, Carried, Goto
  <2> QED BY <2>1, <2>2, <2>3, TypeParts
<1>12. ASSUME Take(p) PROVE TypeOK' /\ Carried'
  <2>1. SharedTypes'
    BY <1>0, <1>12, Zenon DEF Take, SharedTypes
  <2>2. RequestTypes'
    BY <1>0, <1>12 DEF Take, RequestTypes, SharedTypes
  <2>3. Carried'
    BY <1>0, <1>12 DEF Take, RequestTypes, Carried
  <2> QED BY <2>1, <2>2, <2>3, TypeParts
<1>13. ASSUME Remove(p) PROVE TypeOK' /\ Carried'
  <2>1. Proceed(p, "revoke", user.status) /\ issued \subseteq issued'
    BY <1>13 DEF Remove
  <2>2. After(op[p], "revoke") = "load" => entity[p] \in Rows
    BY <1>13 DEF After, Carried, Remove
  <2>3. RequestTypes' /\ Carried'
    BY <1>0, <2>1, <2>2, ProceedTypes
  <2>4. standing' \subseteq Requests /\ sealed' \in BOOLEAN
    BY <1>0, <2>1, ProceedHistory DEF SharedTypes
  <2>5. SharedTypes'
    BY <1>0, <1>13, <2>4, Zenon DEF SharedTypes, Remove
  <2> QED BY <2>3, <2>5, TypeParts
<1>14. ASSUME Drop(p) PROVE TypeOK' /\ Carried'
  <2>1. SharedTypes' /\ issued \subseteq issued'
    BY <1>0, <1>14, Zenon DEF Drop, SharedTypes
  <2> QED BY <1>0, <1>14, <2>1, EndTypes, TypeParts DEF Drop
<1> QED
  BY <1>1, <1>2, <1>3, <1>4, <1>5, <1>6, <1>7, <1>8, <1>9, <1>10, <1>11, <1>12,
     <1>13, <1>14 DEF Step, Abort, Deadlock, OutOfTokens

-----------------------------------------------------------------------------
(* Locks.                                                                  *)

\* A step of p that takes no lock and deletes nothing that others have locked
\* keeps the locks of the others, and p may let go of its own.
LEMMA LocksKept ==
    ASSUME TypeOK, Locks, NEW p \in Processes,
           \A q \in Processes \ {p} :
              pc'[q] = pc[q] /\ tok'[q] = tok[q] /\ held'[q] = held[q],
           \A q \in Processes \ {p} : \A t \in live : Holds(q, t) => t \in live',
           held'[p] \subseteq live' /\ held'[p] \subseteq Tokens,
           pc'[p] \in {"check", "rotate"} => tok'[p] \in live',
           \A t \in Tokens : Holds(p, t)' =>
              \A q \in Processes \ {p} : ~Holds(q, t)
    PROVE  Locks'
<1>1. \A q \in Processes \ {p} : \A t \in Tokens : Holds(q, t)' <=> Holds(q, t)
  BY DEF Holds
<1>2. ASSUME NEW q \in Processes, pc'[q] \in {"check", "rotate"}
      PROVE  tok'[q] \in live'
  BY <1>2 DEF Locks, Holds
<1>3. ASSUME NEW q \in Processes PROVE held'[q] \subseteq live'
  BY DEF Locks, Holds
<1>4. ASSUME NEW q \in Processes, NEW s \in Processes, NEW t \in Tokens,
             Holds(q, t)', Holds(s, t)'
      PROVE  q = s
  BY <1>1, <1>4 DEF Locks
<1> QED BY <1>2, <1>3, <1>4 DEF Locks

\* A process that ends locks nothing.
LEMMA EndLocks ==
    ASSUME TypeOK, Carried, Locks, NEW p \in Processes, End(p),
           \A q \in Processes \ {p} : \A t \in live : Holds(q, t) => t \in live'
    PROVE  Locks'
<1>1. /\ pc'[p] = "idle" /\ held'[p] = {}
      /\ \A q \in Processes \ {p} :
           pc'[q] = pc[q] /\ tok'[q] = tok[q] /\ held'[q] = held[q]
  BY DEF TypeOK, End, Goto
<1>2. \A t \in Tokens : ~Holds(p, t)'
  BY <1>1 DEF Holds
<1> QED BY <1>1, <1>2, LocksKept

\* Nor does one that goes on to its save or its DELETE.
LEMMA ProceedLocks ==
    ASSUME TypeOK, Carried, Locks, NEW p \in Processes, NEW done \in {"save", "revoke"},
           NEW status, Proceed(p, done, status),
           \A q \in Processes \ {p} : \A t \in live : Holds(q, t) => t \in live'
    PROVE  Locks'
<1>1. CASE After(op[p], done) = "idle"
  BY <1>1, EndLocks DEF Proceed
<1>2. CASE After(op[p], done) # "idle"
  <2>1. After(op[p], done) \in {"find", "load"}
    BY <1>2 DEF After
  <2>2. /\ pc'[p] \in {"find", "load"} /\ held'[p] = {}
        /\ \A q \in Processes \ {p} :
             pc'[q] = pc[q] /\ tok'[q] = tok[q] /\ held'[q] = held[q]
    BY <1>2, <2>1 DEF Proceed, TypeOK, Goto
  <2>3. \A t \in Tokens : ~Holds(p, t)'
    BY <2>2 DEF Holds
  <2> QED BY <2>2, <2>3, LocksKept
<1> QED BY <1>1, <1>2

\* A step of the handlers keeps the locks.
LEMMA StepLocks ==
    ASSUME TypeOK, Carried, Locks, NEW p \in Processes, Step(p) \/ Abort(p)
    PROVE  Locks'
<1> USE DEF tokens
<1>0. live \subseteq Tokens /\ (pc[p] # "remove" => held[p] = {})
  BY DEF TypeOK, Carried
<1>1. ASSUME End(p), UNCHANGED live PROVE Locks'
  BY <1>1, EndLocks
<1>2. ASSUME NEW l \in {"issue", "rotate", "read"}, Only(p, l), UNCHANGED live,
             l = "rotate" => pc[p] = "check", pc[p] # "remove"
      PROVE  Locks'
  <2>1. /\ pc'[p] = l /\ held'[p] = {} /\ tok' = tok
        /\ \A q \in Processes \ {p} :
             pc'[q] = pc[q] /\ tok'[q] = tok[q] /\ held'[q] = held[q]
    BY <1>0, <1>2 DEF TypeOK, Only, Goto
  <2>2. l = "rotate" => tok[p] \in live
    BY <1>2 DEF Locks
  <2>3. \A t \in Tokens : Holds(p, t)' => Holds(p, t)
    BY <1>2, <2>1 DEF Holds
  <2>4. \A t \in Tokens : Holds(p, t)' => \A q \in Processes \ {p} : ~Holds(q, t)
    BY <2>3 DEF Locks
  <2> QED BY <1>2, <2>1, <2>2, <2>4, LocksKept
<1>3. ASSUME LoginRead(p) PROVE Locks'
  BY <1>1, <1>2, <1>3 DEF LoginRead
<1>4. ASSUME LoginIssue(p) PROVE Locks'
  BY <1>4, EndLocks DEF LoginIssue, Generate
<1>5. ASSUME RefreshLock(p) PROVE Locks'
  <2>1. CASE End(p)
    BY <1>1, <1>5, <2>1 DEF RefreshLock
  <2>2. CASE tok[p] \in live /\ ~Locked(tok[p]) /\ Only(p, "check")
    <3>1. /\ pc'[p] = "check" /\ held'[p] = {} /\ tok' = tok /\ live' = live
          /\ \A q \in Processes \ {p} :
               pc'[q] = pc[q] /\ tok'[q] = tok[q] /\ held'[q] = held[q]
      BY <1>0, <1>5, <2>2 DEF TypeOK, Only, Goto, RefreshLock
    <3>2. \A t \in Tokens : Holds(p, t)' => t = tok[p]
      BY <3>1 DEF Holds
    <3>3. \A t \in Tokens : Holds(p, t)' => \A q \in Processes \ {p} : ~Holds(q, t)
      BY <2>2, <3>2 DEF Locked
    <3> QED BY <2>2, <3>1, <3>3, LocksKept
  <2> QED BY <1>5, <2>1, <2>2 DEF RefreshLock
<1>6. ASSUME RefreshCheck(p) PROVE Locks'
  BY <1>1, <1>2, <1>6 DEF RefreshCheck
<1>7. ASSUME RefreshRotate(p) PROVE Locks'
  <2>1. Holds(p, tok[p]) /\ tok[p] \in live
    BY <1>7 DEF RefreshRotate, Holds, Locks
  <2>2. live \ {tok[p]} \subseteq live' /\ End(p)
    BY <1>7 DEF RefreshRotate, Generate
  <2>3. \A q \in Processes \ {p} : \A t \in live : Holds(q, t) => t \in live'
    BY <1>0, <2>1, <2>2 DEF Locks
  <2> QED BY <2>2, <2>3, EndLocks
<1>8. ASSUME LogoutDelete(p) PROVE Locks'
  <2>1. \A q \in Processes \ {p} : \A t \in live : Holds(q, t) => t \in live'
    BY <1>8 DEF LogoutDelete, Locked
  <2> QED BY <1>8, <2>1, EndLocks DEF LogoutDelete
<1>9. ASSUME Guard(p) PROVE Locks'
  BY <1>1, <1>2, <1>9 DEF Guard
<1>10. ASSUME Goto(p, "load") \/ Goto(p, "find") \/ Goto(p, "write") \/ Goto(p, "remove"),
              UNCHANGED <<live, tok, held>>, held[p] = {}
       PROVE  Locks'
  <2>1. /\ pc'[p] \notin {"check", "rotate"}
        /\ \A q \in Processes \ {p} : pc'[q] = pc[q]
    BY <1>10 DEF TypeOK, Goto
  <2>2. \A t \in Tokens : ~Holds(p, t)'
    BY <1>10, <2>1 DEF Holds
  <2> QED BY <1>10, <2>1, <2>2, LocksKept
<1>11. ASSUME Read(p) PROVE Locks'
  <2>1. After(op[p], "read") \in {"find", "load"}
    BY DEF After
  <2> QED BY <1>0, <1>1, <1>10, <1>11, <2>1 DEF Read
<1>12. ASSUME Load(p) PROVE Locks'
  <2>1. CASE Proceed(p, "save", user.status)
    BY <1>12, <2>1, ProceedLocks DEF Load
  <2>2. CASE ~Proceed(p, "save", user.status)
    BY <1>0, <1>10, <1>12, <2>2 DEF Load
  <2> QED BY <2>1, <2>2
<1>13. ASSUME Write(p) PROVE Locks'
  BY <1>13, ProceedLocks DEF Write
<1>14. ASSUME Find(p) PROVE Locks'
  BY <1>0, <1>10, <1>14 DEF Find
<1>15. ASSUME Take(p) PROVE Locks'
  <2>1. PICK t \in (snap[p] \cap live) \ held[p] :
           ~Locked(t) /\ held' = [held EXCEPT ![p] = @ \cup {t}]
    BY <1>15 DEF Take
  <2>2. pc' = pc /\ tok' = tok /\ live' = live /\ pc[p] = "remove"
    BY <1>15 DEF Take
  <2>3. /\ held'[p] = held[p] \cup {t}
        /\ \A q \in Processes \ {p} : held'[q] = held[q]
    BY <2>1 DEF TypeOK
  <2>4. held'[p] \subseteq live' /\ held'[p] \subseteq Tokens
    BY <1>0, <2>1, <2>2, <2>3 DEF Locks
  <2>5. \A u \in Tokens : Holds(p, u)' => u = t \/ Holds(p, u)
    BY <2>2, <2>3 DEF Holds
  <2>6. \A u \in Tokens : Holds(p, u)' => \A q \in Processes \ {p} : ~Holds(q, u)
    BY <2>1, <2>5 DEF Locks, Locked
  <2> QED BY <2>2, <2>3, <2>4, <2>6, LocksKept
<1>16. ASSUME Remove(p) PROVE Locks'
  <2>1. \A t \in held[p] : Holds(p, t)
    BY DEF Holds
  <2>2. \A q \in Processes \ {p} : \A t \in live : Holds(q, t) => t \in live'
    BY <1>0, <1>16, <2>1 DEF Locks, Remove
  <2> QED BY <1>16, <2>2, ProceedLocks DEF Remove
<1>17. ASSUME Drop(p) PROVE Locks'
  BY <1>1, <1>17 DEF Drop
<1> QED
  BY <1>3, <1>4, <1>5, <1>6, <1>7, <1>8, <1>9, <1>11, <1>12, <1>13, <1>14, <1>15,
     <1>16, <1>17 DEF Step, Abort, Deadlock, OutOfTokens

-----------------------------------------------------------------------------
(* Tokens.                                                                 *)

\* A login's token founds a session, a rotated one replaces a live one.
Issues(n, t) ==
    /\ n \in Tokens \ issued
    /\ issued' = issued \cup {n}
    /\ \/ t = n /\ live' = live \cup {n} /\ root' = [root EXCEPT ![n] = n]
       \/ /\ t \in live /\ live' = (live \ {t}) \cup {n}
          /\ root' = [root EXCEPT ![n] = root[t]]

\* A step issues at most one token; otherwise tokens only go.
LEMMA TokenSteps ==
    ASSUME TypeOK, Locks, [Next]_vars
    PROVE  \/ live' \subseteq live /\ UNCHANGED <<issued, root>>
           \/ \E n, t \in Tokens : Issues(n, t)
<1> USE DEF tokens
<1>0. Nobody \notin Tokens /\ live \subseteq Tokens
  BY NobodyAssumption DEF TypeOK
<1>1. ASSUME NEW p \in Processes, LoginIssue(p)
      PROVE  \E n, t \in Tokens : Issues(n, t)
  BY <1>1 DEF LoginIssue, Generate, Issues
<1>2. ASSUME NEW p \in Processes, RefreshRotate(p)
      PROVE  \E n, t \in Tokens : Issues(n, t)
  <2>1. tok[p] \in live /\ tok[p] \in Tokens /\ tok[p] # Nobody
    BY <1>0, <1>2 DEF RefreshRotate, Locks
  <2> QED BY <1>2, <2>1 DEF RefreshRotate, Generate, Issues
<1>3. ASSUME NEW p \in Processes, Step(p) \/ Abort(p), ~LoginIssue(p), ~RefreshRotate(p)
      PROVE  live' \subseteq live /\ UNCHANGED <<issued, root>>
  BY <1>3 DEF Step, Abort, LoginRead, RefreshLock, RefreshCheck, LogoutDelete, Guard,
     Read, Load, Write, Find, Take, Remove, Deadlock, OutOfTokens, Drop
<1>4. ASSUME NEW r \in Requests, Begin(r)
      PROVE  live' \subseteq live /\ UNCHANGED <<issued, root>>
  BY <1>4 DEF Begin
<1>5. ASSUME BeginClean PROVE live' \subseteq live /\ UNCHANGED <<issued, root>>
  BY <1>5 DEF BeginClean
<1>6. ASSUME NEW t \in Tokens, Expire(t)
      PROVE  live' \subseteq live /\ UNCHANGED <<issued, root>>
  BY <1>6 DEF Expire
<1>7. ASSUME UNCHANGED vars PROVE live' \subseteq live /\ UNCHANGED <<issued, root>>
  BY <1>7 DEF vars
<1> QED BY <1>1, <1>2, <1>3, <1>4, <1>5, <1>6, <1>7 DEF Next

\* No step makes two live tokens of one login.
LEMMA RootsStep ==
    ASSUME TypeOK, Locks, Roots, [Next]_vars
    PROVE  Roots'
<1>0. /\ live \subseteq issued /\ issued \subseteq Tokens
      /\ root \in [Tokens -> Tokens \cup {Nobody}]
  BY DEF TypeOK
<1>1. CASE live' \subseteq live /\ UNCHANGED <<issued, root>>
  BY <1>1 DEF Roots, OneLiveTokenPerLogin
<1>2. ASSUME NEW n \in Tokens, NEW t \in Tokens, Issues(n, t) PROVE Roots'
  <2>1. \A u \in issued : u # n /\ root[u] # n /\ root'[u] = root[u]
    BY <1>0, <1>2 DEF Issues, Roots
  <2>2. CASE t = n
    <3>1. root'[n] = n /\ live' = live \cup {n} /\ issued' = issued \cup {n}
      BY <1>0, <1>2, <2>2 DEF Issues
    <3> QED BY <1>0, <2>1, <3>1 DEF Roots, OneLiveTokenPerLogin
  <2>3. CASE t \in live
    <3>1. /\ root'[n] = root[t] /\ live' = (live \ {t}) \cup {n}
          /\ issued' = issued \cup {n}
      BY <1>0, <1>2, <2>1, <2>3 DEF Issues
    <3> QED BY <1>0, <2>1, <2>3, <3>1 DEF Roots, OneLiveTokenPerLogin
  <2> QED BY <1>2, <2>2, <2>3 DEF Issues
<1> QED BY <1>1, <1>2, TokenSteps

\* No step brings a session back.
LEMMA DeadStep ==
    ASSUME TypeOK, Locks, Roots, [Next]_vars,
           NEW f \in issued, ~Alive(f)
    PROVE  ~Alive(f)'
<1>0. /\ live \subseteq issued /\ issued \subseteq Tokens
      /\ root \in [Tokens -> Tokens \cup {Nobody}]
  BY DEF TypeOK
<1>1. CASE live' \subseteq live /\ UNCHANGED <<issued, root>>
  BY <1>1 DEF Alive
<1>2. ASSUME NEW n \in Tokens, NEW t \in Tokens, Issues(n, t) PROVE ~Alive(f)'
  <2>1. \A u \in live : root'[u] = root[u]
    BY <1>0, <1>2 DEF Issues
  <2>2. live' \subseteq live \cup {n} /\ root'[n] # f
    BY <1>0, <1>2 DEF Issues, Alive
  <2> QED BY <2>1, <2>2 DEF Alive
<1> QED BY <1>1, <1>2, TokenSteps

-----------------------------------------------------------------------------
(* Suspensions.                                                            *)

\* p moves, and is no suspension that stands afterwards.
LEMMA BarrierKept ==
    ASSUME TypeOK, Barrier, NEW p \in Processes,
           \A q \in Processes \ {p} :
              pc'[q] = pc[q] /\ op'[q] = op[q] /\ tok'[q] = tok[q] /\ snap'[q] = snap[q],
           user' = user, sealed' = sealed, standing' \subseteq standing \ {p},
           pc'[p] = "rotate" => user.status # "SUSPENDED"
    PROVE  Barrier'
<1>1. standing \subseteq Processes
  BY DEF TypeOK, Processes
<1>2. standing' # {} \/ sealed' => user'.status = "SUSPENDED"
  BY DEF Barrier
<1>3. ASSUME NEW s \in standing' PROVE op'[s] = "suspend" /\ pc'[s] \in {"find", "remove"}
  BY <1>1 DEF Barrier
<1>4. ASSUME NEW s \in standing', pc'[s] = "remove", NEW q \in Processes, pc'[q] = "rotate"
      PROVE  tok'[q] \in snap'[s]
  <2>1. s \in standing /\ s # p /\ q # p
    BY <1>2, <1>4
  <2> QED BY <1>1, <1>4, <2>1 DEF Barrier
<1>5. ASSUME sealed', NEW q \in Processes PROVE pc'[q] # "rotate"
  BY <1>2, <1>5 DEF Barrier
<1> QED BY <1>2, <1>3, <1>4, <1>5 DEF Barrier

\* A handler that goes on or ends after its save or its DELETE.
LEMMA ProceedBarrier ==
    ASSUME TypeOK, Barrier, NEW p \in Processes, NEW done \in {"save", "revoke"},
           Proceed(p, done, user'.status),
           done = "save" => pc[p] \in {"load", "write"},
           done = "revoke" /\ p \in standing => \A q \in Processes : pc[q] # "rotate"
    PROVE  Barrier'
<1> DEFINE s == standing \cup Stands(p, done)
<1>1. CASE user'.status # "SUSPENDED"
  <2>1. standing' = {} /\ sealed' = FALSE
    BY <1>1 DEF Proceed
  <2> QED BY <2>1 DEF Barrier
<1>2. CASE user'.status = "SUSPENDED"
  <2>1. /\ standing \subseteq Processes /\ s \subseteq Processes
        /\ \A q \in s : op[q] = "suspend"
        /\ \A q \in s \ {p} : q \in standing
    BY DEF TypeOK, Processes, Stands, Barrier
  <2>2. \A q \in Processes \ {p} :
          pc'[q] = pc[q] /\ op'[q] = op[q] /\ tok'[q] = tok[q] /\ snap'[q] = snap[q]
    BY DEF TypeOK, Proceed, End, Goto
  <2>3. pc'[p] \in {"idle", "find", "load"}
    BY DEF TypeOK, Proceed, End, Goto, After
  <2>4. ASSUME NEW q \in s \ {p}
        PROVE  /\ op'[q] = "suspend" /\ pc'[q] \in {"find", "remove"}
               /\ pc'[q] = "remove" =>
                    \A r \in Processes : pc'[r] = "rotate" => tok'[r] \in snap'[q]
    BY <2>1, <2>2, <2>3 DEF Barrier
  <2>5. CASE After(op[p], done) = "idle"
    <3>1. standing' = s \ {p} /\ (sealed' => sealed \/ p \in s)
      BY <1>2, <2>5 DEF Proceed
    <3>2. p \in s => p \in standing /\ done = "revoke"
      BY <2>1, <2>5 DEF Stands, After, Barrier
    <3>3. ASSUME sealed', NEW q \in Processes PROVE pc'[q] # "rotate"
      BY <2>2, <2>3, <3>1, <3>2, <3>3 DEF Barrier
    <3> QED BY <1>2, <2>4, <3>1, <3>3 DEF Barrier
  <2>6. CASE After(op[p], done) # "idle"
    <3>1. standing' = s /\ (sealed' => sealed) /\ op' = op
      BY <1>2, <2>6 DEF Proceed
    <3>2. p \in s => done = "save" /\ pc'[p] = "find"
      BY <2>1, <2>6 DEF Proceed, TypeOK, Goto, Stands, After, Barrier
    <3>3. ASSUME sealed', NEW q \in Processes PROVE pc'[q] # "rotate"
      BY <2>2, <2>3, <3>1, <3>3 DEF Barrier
    <3> QED BY <1>2, <2>1, <2>4, <3>1, <3>2, <3>3 DEF Barrier
  <2> QED BY <2>5, <2>6
<1> QED BY <1>1, <1>2

\* Every step of a handler keeps what suspensions have achieved.
LEMMA StepBarrier ==
    ASSUME TypeOK, Carried, Locks, Barrier, NEW p \in Processes, Step(p) \/ Abort(p)
    PROVE  Barrier'
<1> USE DEF history
<1>0. p \in standing => pc[p] \in {"find", "remove"} /\ op[p] = "suspend"
  BY DEF Barrier
<1>1. ASSUME End(p), user' = user, sealed' = sealed, standing' \subseteq standing \ {p}
      PROVE  Barrier'
  BY <1>1, BarrierKept DEF TypeOK, End, Goto
<1>2. ASSUME NEW l \in {"issue", "check", "rotate", "read", "load", "find", "write"},
             Goto(p, l), UNCHANGED <<user, op, tok, snap, history>>,
             l = "rotate" => user.status # "SUSPENDED", p \notin standing
      PROVE  Barrier'
  BY <1>2, BarrierKept DEF TypeOK, Goto
<1>3. CASE LoginRead(p) \/ RefreshLock(p) \/ RefreshCheck(p) \/ Guard(p)
  BY <1>0, <1>1, <1>2, <1>3 DEF LoginRead, RefreshLock, RefreshCheck, Guard, Only
<1>4. CASE LoginIssue(p) \/ RefreshRotate(p) \/ LogoutDelete(p)
  BY <1>0, <1>1, <1>4 DEF LoginIssue, RefreshRotate, LogoutDelete
<1>5. CASE Drop(p)
  BY <1>1, <1>5 DEF Drop
<1>6. CASE Read(p)
  <2>1. After(op[p], "read") \in {"find", "load"}
    BY DEF After
  <2> QED BY <1>0, <1>1, <1>2, <1>6, <2>1 DEF Read
<1>7. CASE Load(p)
  <2>1. CASE Proceed(p, "save", user.status)
    <3>1. Proceed(p, "save", user'.status) /\ pc[p] = "load"
      BY <1>7, <2>1 DEF Load
    <3> QED BY <3>1, ProceedBarrier
  <2>2. CASE ~Proceed(p, "save", user.status)
    BY <1>0, <1>2, <1>7, <2>2 DEF Load
  <2> QED BY <2>1, <2>2
<1>8. CASE Write(p)
  <2>1. Proceed(p, "save", user'.status) /\ pc[p] = "write"
    BY <1>8 DEF Write
  <2> QED BY <2>1, ProceedBarrier
<1>9. CASE Find(p)
  <2>1. /\ pc'[p] = "remove" /\ UNCHANGED <<user, op, tok, standing, sealed>>
        /\ \A q \in Processes \ {p} : pc'[q] = pc[q] /\ snap'[q] = snap[q]
    BY <1>9 DEF Find, TypeOK, Goto
  <2>2. p \in standing => snap'[p] = live
    BY <1>0, <1>9 DEF Find, TypeOK
  <2>3. standing \subseteq Processes /\ \A q \in Processes : pc[q] = "rotate" => tok[q] \in live
    BY DEF TypeOK, Processes, Locks
  <2> QED BY <2>1, <2>2, <2>3 DEF Barrier
<1>10. CASE Take(p)
  BY <1>10 DEF Take, Barrier
<1>11. CASE Remove(p)
  <2>1. Proceed(p, "revoke", user'.status)
    BY <1>11 DEF Remove
  <2>2. ASSUME p \in standing, NEW q \in Processes, pc[q] = "rotate" PROVE FALSE
    <3>1. tok[q] \in held[p] /\ tok[q] \in Tokens /\ q # p
      BY <1>11, <2>2 DEF Barrier, Locks, Remove, TypeOK
    <3> QED BY <2>2, <3>1 DEF Locks, Holds
  <2> QED BY <2>1, <2>2, ProceedBarrier
<1> QED
  BY <1>3, <1>4, <1>5, <1>6, <1>7, <1>8, <1>9, <1>10, <1>11
     DEF Step, Abort, Deadlock, OutOfTokens

-----------------------------------------------------------------------------
(* The invariant and the theorems.                                         *)

\* It holds before the first request.
LEMMA InitInvariant ==
    ASSUME Init
    PROVE  IInv
<1>1. TypeOK
  BY DEF Init, TypeOK, Rows, Statuses, Labels
<1>2. Carried /\ Locks /\ Roots /\ Barrier
  BY DEF Init, Carried, Locks, Holds, Roots, OneLiveTokenPerLogin, Barrier
<1> QED BY <1>1, <1>2 DEF IInv

\* The steps outside the handlers keep the types, the locks and the barrier.
LEMMA OtherStep ==
    ASSUME IInv,
           \/ \E r \in Requests : Begin(r)
           \/ BeginClean
           \/ \E t \in Tokens : Expire(t)
           \/ UNCHANGED vars
    PROVE  TypeOK' /\ Carried' /\ Locks' /\ Barrier'
<1> USE DEF tokens, requests, history
<1>0. TypeOK /\ Carried /\ Locks /\ Barrier /\ live \subseteq Tokens
  BY DEF IInv, TypeOK
<1>1. ASSUME NEW p \in Processes, NEW l \in Labels \ {"check", "rotate", "remove"}, pc[p] = "idle",
             Goto(p, l), UNCHANGED <<user, live, snap, held, history>>,
             \A q \in Processes \ {p} : op'[q] = op[q] /\ tok'[q] = tok[q]
      PROVE  Locks' /\ Barrier'
  <2>1. pc'[p] = l /\ \A q \in Processes \ {p} : pc'[q] = pc[q]
    BY <1>0, <1>1 DEF TypeOK, Goto
  <2>2. held[p] = {} /\ p \notin standing
    BY <1>0, <1>1 DEF Carried, Barrier
  <2>3. \A t \in Tokens : ~Holds(p, t)'
    BY <1>1, <2>1, <2>2 DEF Holds
  <2>4. Locks'
    BY <1>0, <1>1, <2>1, <2>2, <2>3, LocksKept
  <2>5. Barrier'
    BY <1>0, <1>1, <2>1, <2>2, BarrierKept
  <2> QED BY <2>4, <2>5
<1>2. ASSUME NEW r \in Requests, Begin(r)
      PROVE  TypeOK' /\ Carried' /\ Locks' /\ Barrier'
  <2>1. r \in Processes /\ UNCHANGED <<user, live, snap, held, history>> /\ pc[r] = "idle"
    BY <1>2 DEF Begin, Processes
  <2>2. PICK o \in Ops, t \in issued \cup {Nobody} :
          /\ op' = [op EXCEPT ![r] = o] /\ tok' = [tok EXCEPT ![r] = t]
          /\ Goto(r, CASE o = "login" -> "login"
                       [] o = "refresh" -> "lock"
                       [] o = "logout" -> "delete"
                       [] o \in {"profile", "deactivate"} -> "guard"
                       [] OTHER -> "read")
    BY <1>2 DEF Begin
  <2>3. \E l \in Labels \ {"check", "rotate", "remove"} : Goto(r, l)
    BY <2>2 DEF Labels
  <2>4. \A q \in Processes \ {r} : op'[q] = op[q] /\ tok'[q] = tok[q]
    BY <1>0, <2>2 DEF TypeOK
  <2> QED BY <1>0, <1>1, <1>2, <2>1, <2>3, <2>4, BeginTypes
<1>3. ASSUME BeginClean
      PROVE  TypeOK' /\ Carried' /\ Locks' /\ Barrier'
  <2>1. /\ Cron \in Processes /\ "find" \in Labels \ {"check", "rotate", "remove"}
        /\ pc[Cron] = "idle" /\ Goto(Cron, "find")
        /\ UNCHANGED <<user, live, snap, held, tok, history>>
        /\ \A q \in Processes \ {Cron} : op'[q] = op[q]
    BY <1>0, <1>3 DEF BeginClean, Processes, Labels, TypeOK
  <2>2. Locks' /\ Barrier'
    BY <1>1, <2>1
  <2>3. TypeOK'
    BY <1>0, <1>3 DEF BeginClean, TypeOK, Goto, Labels, Processes
  <2>4. Carried'
    BY <1>0, <1>3, OpsAssumption DEF BeginClean, TypeOK, Carried, Goto, Processes
  <2> QED BY <2>2, <2>3, <2>4
<1>4. ASSUME NEW t \in Tokens, Expire(t)
      PROVE  TypeOK' /\ Carried' /\ Locks' /\ Barrier'
  <2>1. UNCHANGED <<user, live, issued, root, op, pc, tok, entity, dirty, snap, held, standing, sealed>>
    BY <1>4 DEF Expire
  <2>2. expired' \subseteq issued'
    BY <1>0, <1>4 DEF Expire, TypeOK
  <2>3. TypeOK'
    BY <1>0, <2>1, <2>2 DEF TypeOK
  <2>4. Carried' /\ Locks' /\ Barrier'
    BY <1>0, <2>1 DEF Carried, Locks, Holds, Barrier
  <2> QED BY <2>3, <2>4
<1>5. ASSUME UNCHANGED vars
      PROVE  TypeOK' /\ Carried' /\ Locks' /\ Barrier'
  BY <1>0, <1>5 DEF vars, TypeOK, Carried, Locks, Holds, Barrier
<1> QED BY <1>2, <1>3, <1>4, <1>5

\* Every step keeps the invariant.
LEMMA NextInvariant ==
    ASSUME IInv, [Next]_vars
    PROVE  IInv'
<1>1. Roots'
  BY RootsStep DEF IInv
<1>2. ASSUME NEW p \in Processes, Step(p) \/ Abort(p)
      PROVE  TypeOK' /\ Carried' /\ Locks' /\ Barrier'
  BY <1>2, StepTypes, StepLocks, StepBarrier DEF IInv
<1>3. TypeOK' /\ Carried' /\ Locks' /\ Barrier'
  BY <1>2, OtherStep DEF Next
<1> QED BY <1>1, <1>3 DEF IInv

\* The invariant holds in every reachable state.
THEOREM SessionInvariant == Spec => []IInv
<1>1. Init => IInv
  BY InitInvariant
<1>2. IInv /\ [Next]_vars => IInv'
  BY NextInvariant
<1> QED BY <1>1, <1>2, PTL DEF Spec

\* Type correctness for any number of requests and tokens.
THEOREM SessionTypes == Spec => []TypeOK
<1>1. IInv => TypeOK
  BY DEF IInv
<1> QED BY <1>1, SessionInvariant, PTL

\* However many copies of a refresh token are presented at once, with
\* whatever logouts, suspensions and crashes, one login never has two tokens.
THEOREM RotationNeverForks == Spec => []OneLiveTokenPerLogin
<1>1. IInv => OneLiveTokenPerLogin
  BY DEF IInv, Roots
<1> QED BY <1>1, SessionInvariant, PTL

\* After a suspension no refresh that had read the old status is left: saving
\* the status first and deleting the tokens after it is what makes it so.
THEOREM SuspensionBarrier == Spec => []RefreshBarrier
<1>1. IInv => RefreshBarrier
  BY DEF IInv, Barrier, RefreshBarrier, Processes
<1> QED BY <1>1, SessionInvariant, PTL

\* A session that has ended stays ended.
THEOREM SessionsStayDead == Spec => DeadSessionsStayDead
<1>1. ASSUME IInv, [Next]_vars
      PROVE  [\A f \in issued : ~Alive(f) => ~Alive(f)']_vars
  BY <1>1, DeadStep DEF IInv
<1> QED BY <1>1, SessionInvariant, PTL DEF Spec, DeadSessionsStayDead
=============================================================================
