-------------------------- MODULE ReviewLikesProofs --------------------------
(***************************************************************************)
(* Proofs about ReviewLikes, for any number of requests, users and texts.  *)
(***************************************************************************)
EXTENDS ReviewLikes, FiniteSetTheorems, TLAPS

Saving == {"find", "doom", "load", "write", "create"}

\* What a request carries at each place.
Carried ==
    \A r \in Requests :
      /\ pc[r] \in {"lock", "toggle", "insert", "unlike"} => user[r] \in Users
      /\ pc[r] \in Saving <=> op[r] \in Edits
      /\ pc[r] \in Saving => entity[r] \in Rows
      /\ pc[r] \in {"find", "doom"} => op[r] = "revise"
      /\ doomed[r] # {} => op[r] = "revise"
      /\ r \in touched => op[r] \in Edits

\* One request at a time holds the review, and holds a row.
Exclusive ==
    \A r \in Requests :
      HasReview(r) => /\ review # Gone
                      /\ \A q \in Requests : HasReview(q) => q = r

\* What an edit knows that no other change has overlapped.
FreshAt(r) ==
    op[r] \in Edits /\ r \notin touched =>
      /\ review # Gone /\ pc[r] # "create"
      /\ op[r] = "resave" => entity[r] = review
      /\ op[r] = "revise" =>
           /\ entity[r].text # review.text /\ entity[r].likesCount = 0
           /\ pc[r] # "find" => snap[r] = likes
           /\ pc[r] \in {"load", "write"} => doomed[r] = likes
      /\ pc[r] = "write" => dirty[r] = {c \in Columns : entity[r][c] # review[c]}
Fresh == \A r \in Requests : FreshAt(r)

\* A toggle's reading of its like stays right while it holds the review.
LikeKnown ==
    \A r \in Requests : ~blurred /\ pc[r] = "unlike" => user[r] \in likes

IInv == TypeOK /\ Carried /\ Exclusive /\ Fresh /\ NoDuplicateLike /\ LikeKnown /\ LikesCounted

-----------------------------------------------------------------------------
(* Types.                                                                  *)

\* A saved row is a row: it takes each column from one of two rows.
LEMMA MergeIsRow ==
    ASSUME NEW old \in Rows, NEW new \in Rows, NEW cols
    PROVE  /\ [c \in Columns |-> IF c \in cols THEN new[c] ELSE old[c]] \in Rows
           /\ [c \in Columns |-> IF c \in cols THEN new[c] ELSE old[c]].likesCount
                = IF "likesCount" \in cols THEN new.likesCount ELSE old.likesCount
BY DEF Rows, Columns

\* The types of what requests carry.
RequestTypes ==
    /\ op \in [Requests -> {"none", "like", "edit", "delete"} \cup Edits]
    /\ pc \in [Requests -> Labels]
    /\ user \in [Requests -> Users \cup {Gone}]
    /\ entity \in [Requests -> Rows \cup {Gone}]
    /\ dirty \in [Requests -> SUBSET Columns]
    /\ snap \in [Requests -> SUBSET Users] /\ doomed \in [Requests -> SUBSET Users]
    /\ touched \subseteq Requests /\ blurred \in BOOLEAN

\* A request that ends carries nothing.
LEMMA EndTypes ==
    ASSUME RequestTypes, Carried, NEW r \in Requests, End(r),
           touched' \subseteq (touched \cup {q \in Requests : op[q] \in Edits}) \ {r},
           blurred' \in BOOLEAN
    PROVE  RequestTypes' /\ Carried'
<1>1. RequestTypes'
  BY DEF RequestTypes, End, Goto, Labels
<1>2. /\ pc'[r] = "idle" /\ op'[r] = "none" /\ doomed'[r] = {}
      /\ \A q \in Requests \ {r} :
           /\ pc'[q] = pc[q] /\ op'[q] = op[q] /\ user'[q] = user[q]
           /\ entity'[q] = entity[q] /\ doomed'[q] = doomed[q]
  BY DEF RequestTypes, End, Goto
<1>3. Carried'
  BY <1>2 DEF Carried, Saving, Edits
<1> QED BY <1>1, <1>3

\* A request that only moves on keeps what it carries.
LEMMA OnlyTypes ==
    ASSUME TypeOK, Carried, NEW r \in Requests, NEW l \in Labels, Only(r, l),
           l \in Saving <=> pc[r] \in Saving, l \notin {"find", "doom"},
           l \in {"lock", "toggle", "insert", "unlike"}
             => pc[r] \in {"lock", "toggle", "insert", "unlike"}
    PROVE  TypeOK' /\ Carried'
<1> USE DEF data, carried, history
<1>1. TypeOK'
  BY DEF TypeOK, Only, Goto
<1>2. /\ pc'[r] = l /\ \A q \in Requests \ {r} : pc'[q] = pc[q]
  BY DEF TypeOK, Only, Goto
<1>3. Carried'
  BY <1>2 DEF Carried, Only
<1> QED BY <1>1, <1>3

\* TypeOK in its two parts, before and after a step.
LEMMA TypeParts ==
    /\ TypeOK <=> review \in Rows \cup {Gone} /\ likes \subseteq Users /\ RequestTypes
    /\ TypeOK' <=> review' \in Rows \cup {Gone} /\ likes' \subseteq Users /\ RequestTypes'
BY DEF TypeOK, RequestTypes

\* A transaction that commits, or that is dropped.
LEMMA CommitTypes ==
    ASSUME TypeOK, Carried, NEW r \in Requests, Commit(r) \/ Drop(r),
           review' \in Rows \cup {Gone}, likes' \subseteq Users
    PROVE  TypeOK' /\ Carried'
<1>1. blurred' \in BOOLEAN
  BY Zenon DEF TypeOK, Commit, Drop
<1>2. RequestTypes' /\ Carried'
  BY <1>1, EndTypes, TypeParts DEF Commit, Drop
<1> QED BY <1>2, TypeParts

\* Every step keeps the types.
LEMMA StepTypes ==
    ASSUME TypeOK, Carried, Exclusive, NEW r \in Requests,
           Begin(r) \/ Step(r) \/ Abort(r)
    PROVE  TypeOK' /\ Carried'
<1> USE DEF data, carried, history
<1>0. review \in Rows \cup {Gone} /\ likes \subseteq Users /\ RequestTypes
  BY TypeParts
<1>1. CASE Begin(r)
  <2>1. PICK o \in {"like", "edit", "delete"}, l \in {"lock", "read", "look"},
             u \in Users \cup {Gone} :
          /\ op' = [op EXCEPT ![r] = o] /\ Goto(r, l) /\ user' = [user EXCEPT ![r] = u]
          /\ l = "lock" => u \in Users
    <3>1. CASE \E u \in Users : /\ op' = [op EXCEPT ![r] = "like"]
                                /\ user' = [user EXCEPT ![r] = u]
                                /\ Goto(r, "lock")
      BY <3>1
    <3>2. user[r] \in Users \cup {Gone} /\ user = [user EXCEPT ![r] = user[r]]
      BY DEF TypeOK
    <3>3. CASE op' = [op EXCEPT ![r] = "edit"] /\ Goto(r, "read") /\ UNCHANGED user
      BY <3>2, <3>3
    <3>4. CASE op' = [op EXCEPT ![r] = "delete"] /\ Goto(r, "look") /\ UNCHANGED user
      BY <3>2, <3>4
    <3> QED BY <1>1, <3>1, <3>3, <3>4 DEF Begin
  <2>2. UNCHANGED <<data, entity, dirty, snap, doomed, history>> /\ pc[r] = "idle"
    BY <1>1 DEF Begin
  <2>3. /\ pc'[r] \in {"lock", "read", "look"} /\ op'[r] \in {"like", "edit", "delete"}
        /\ pc'[r] = "lock" => user'[r] \in Users
        /\ \A q \in Requests \ {r} : pc'[q] = pc[q] /\ op'[q] = op[q] /\ user'[q] = user[q]
    BY <2>1 DEF TypeOK, Goto
  <2>4. TypeOK'
    BY <2>1, <2>2 DEF TypeOK, Goto, Labels
  <2>5. doomed[r] = {} /\ r \notin touched
    BY <2>2 DEF Carried, Saving, Edits
  <2>6. Carried'
    BY <2>2, <2>3, <2>5 DEF Carried, Saving, Edits
  <2> QED BY <2>4, <2>6
<1>2. CASE Drop(r)
  BY <1>0, <1>2, CommitTypes DEF Drop
<1>3. CASE ToggleLock(r) \/ ToggleFind(r) \/ Look(r) \/ Erase(r)
  <2>1. CASE \E l \in {"toggle", "insert", "unlike", "erase", "cascade"} :
               /\ Only(r, l) /\ pc[r] \notin Saving
               /\ l \in {"toggle", "insert", "unlike"} => pc[r] \in {"lock", "toggle"}
    BY <2>1, OnlyTypes DEF Labels, Saving
  <2> QED BY <1>2, <1>3, <2>1 DEF ToggleLock, ToggleFind, Look, Erase, Saving
<1>4. CASE ToggleInsert(r) \/ ToggleRemove(r)
  <2>1. CASE Commit(r)
    <3>1. review \in Rows /\ user[r] \in Users
      BY <1>0, <1>4 DEF ToggleInsert, ToggleRemove, Exclusive, HasReview, Carried
    <3>2. review' \in Rows /\ likes' \subseteq Users
      BY <1>0, <1>4, <2>1, <3>1 DEF ToggleInsert, ToggleRemove, Drop, Rows
    <3> QED BY <2>1, <3>2, CommitTypes
  <2> QED BY <1>2, <1>4, <2>1 DEF ToggleInsert, ToggleRemove
<1>5. CASE Read(r)
  <2>1. ASSUME review # Gone, NEW t \in Texts,
               op' = [op EXCEPT ![r] = IF t = review.text THEN "resave" ELSE "revise"],
               entity' = [entity EXCEPT ![r] =
                 IF t = review.text THEN review ELSE [text |-> t, likesCount |-> 0]],
               Goto(r, IF t = review.text THEN "load" ELSE "find"),
               UNCHANGED <<data, user, dirty, snap, doomed, history>>
        PROVE  TypeOK' /\ Carried'
    <3>1. PICK e \in Rows, o \in Edits, l \in {"load", "find"} :
            /\ op' = [op EXCEPT ![r] = o] /\ entity' = [entity EXCEPT ![r] = e]
            /\ Goto(r, l)
            /\ l = "find" => o = "revise"
      BY <1>0, <2>1 DEF Rows, Edits
    <3>2. TypeOK'
      BY <2>1, <3>1 DEF TypeOK, Goto, Labels
    <3>3. doomed[r] = {}
      BY <1>5 DEF Read, Carried, Saving, Edits
    <3>4. /\ pc'[r] = l /\ op'[r] = o /\ entity'[r] = e
          /\ \A q \in Requests \ {r} :
               pc'[q] = pc[q] /\ op'[q] = op[q] /\ entity'[q] = entity[q]
      BY <3>1 DEF TypeOK, Goto
    <3>5. UNCHANGED <<user, doomed, touched>> /\ l \in {"load", "find"} /\ o \in Edits
      BY <2>1, <3>1
    <3>6. Carried'
      BY <3>1, <3>3, <3>4, <3>5 DEF Carried, Saving
    <3> QED BY <3>2, <3>6
  <2> QED BY <1>2, <1>5, <2>1 DEF Read
<1>6. CASE Find(r) \/ Doom(r) \/ Load(r)
  <2>1. CASE Commit(r)
    <3>1. review' = review /\ likes' \subseteq likes
      BY <1>6, <2>1 DEF Load, Find, Doom, Only
    <3> QED BY <1>0, <2>1, <3>1, CommitTypes
  <2>2. CASE Only(r, "create")
    BY <1>6, <2>2, OnlyTypes DEF Labels, Saving, Find, Doom, Load
  <2>3. CASE ~Commit(r) /\ ~Only(r, "create")
    <3>1. UNCHANGED <<data, op, user, entity, history>> /\ pc[r] \in {"find", "doom", "load"}
      BY <1>6, <2>3 DEF Find, Doom, Load
    <3>2. TypeOK'
      BY <1>0, <1>6, <2>3, <3>1 DEF TypeOK, Find, Doom, Load, Goto, Labels
    <3>3. \A q \in Requests : pc'[q] \in Saving <=> pc[q] \in Saving
      BY <1>6, <2>3 DEF TypeOK, Find, Doom, Load, Goto, Saving
    <3>4. pc'[r] \in {"doom", "load", "write"} /\ (pc'[r] = "doom" => pc[r] = "find")
      BY <1>6, <2>3 DEF TypeOK, Find, Doom, Load, Goto
    <3>5. \A q \in Requests \ {r} : pc'[q] = pc[q] /\ doomed'[q] = doomed[q]
      BY <1>6, <2>3 DEF TypeOK, Find, Doom, Load, Goto
    <3>6. doomed'[r] # {} => op[r] = "revise"
      BY <1>6, <2>3 DEF TypeOK, Find, Doom, Load, Carried
    <3>7. Carried'
      BY <3>1, <3>3, <3>4, <3>5, <3>6 DEF Carried
    <3> QED BY <3>2, <3>7
  <2> QED BY <2>1, <2>2, <2>3
<1>7. CASE Write(r) \/ Create(r)
  <2>1. CASE Commit(r)
    <3>1. entity[r] \in Rows
      BY <1>7 DEF Write, Create, Carried, Saving
    <3>2. review' \in Rows \cup {Gone} /\ likes' \subseteq Users
      BY <1>0, <1>7, <2>1, <3>1, MergeIsRow DEF Write, Create, Drop
    <3> QED BY <2>1, <3>2, CommitTypes
  <2> QED BY <1>2, <1>7, <2>1 DEF Write, Create
<1>8. CASE Cascade(r)
  BY <1>8, CommitTypes DEF Cascade
<1> QED
  BY <1>1, <1>2, <1>3, <1>4, <1>5, <1>6, <1>7, <1>8 DEF Step, Abort, Deadlock

-----------------------------------------------------------------------------
(* What one step does to the others.                                       *)

\* A step changes the row and the likes only in a commit, and nothing that
\* another request carries.
LEMMA StepFrame ==
    ASSUME TypeOK, NEW r \in Requests, Begin(r) \/ Step(r) \/ Abort(r)
    PROVE  /\ Commit(r) \/ (UNCHANGED <<data, blurred>> /\ touched' \in {touched, touched \ {r}})
           /\ \A q \in Requests \ {r} :
                /\ pc'[q] = pc[q] /\ op'[q] = op[q] /\ user'[q] = user[q]
                /\ entity'[q] = entity[q] /\ dirty'[q] = dirty[q]
                /\ snap'[q] = snap[q] /\ doomed'[q] = doomed[q]
<1> USE DEF data, carried, history
<1>1. CASE End(r)
  <2>1. Commit(r) \/ Drop(r)
    <3>1. \A l \in Labels \ {"idle"} : ~Goto(r, l)
      BY <1>1 DEF TypeOK, End, Goto
    <3>2. (~Begin(r) /\ ~Read(r)) \/ Drop(r)
      BY <3>1 DEF Begin, Read, Labels
    <3>3. ~Find(r) /\ ~Doom(r) /\ (Load(r) => Commit(r))
      BY <3>1 DEF Find, Doom, Load, Only, Labels
    <3>4. ToggleLock(r) \/ ToggleFind(r) \/ Look(r) \/ Erase(r) => Drop(r)
      BY <3>1 DEF ToggleLock, ToggleFind, Look, Erase, Only, Labels
    <3> QED BY <3>2, <3>3, <3>4 DEF Step, Abort, ToggleInsert, ToggleRemove, Write, Create,
       Cascade, Deadlock
  <2> QED BY <1>1, <2>1 DEF TypeOK, End, Goto, Drop
<1>2. CASE \E l \in Labels : Only(r, l)
  BY <1>2 DEF TypeOK, Only, Goto
<1>3. CASE Begin(r)
  BY <1>3 DEF TypeOK, Begin, Goto
<1>4. CASE Read(r) \/ Find(r) \/ Doom(r) \/ Load(r)
  <2>1. CASE ~End(r) /\ ~\E l \in Labels : Only(r, l)
    <3>1. UNCHANGED <<data, touched, blurred, user>> /\ ~Commit(r) /\ ~Drop(r)
      BY <1>4, <2>1 DEF Read, Find, Doom, Load, Commit, Drop, Labels
    <3>2. ASSUME NEW q \in Requests \ {r}
          PROVE  /\ pc'[q] = pc[q] /\ op'[q] = op[q]
                 /\ entity'[q] = entity[q] /\ dirty'[q] = dirty[q]
                 /\ snap'[q] = snap[q] /\ doomed'[q] = doomed[q]
      <4>1. CASE Read(r)
        BY <2>1, <3>1, <4>1 DEF TypeOK, Read, Goto
      <4>2. CASE Find(r) \/ Doom(r)
        BY <4>2 DEF TypeOK, Find, Doom, Goto
      <4>3. CASE Load(r)
        BY <2>1, <3>1, <4>3 DEF TypeOK, Load, Goto, Labels
      <4> QED BY <1>4, <4>1, <4>2, <4>3
    <3> QED BY <3>1, <3>2
  <2> QED BY <1>1, <1>2, <2>1
<1>5. CASE ~Begin(r) /\ ~(Read(r) \/ Find(r) \/ Doom(r) \/ Load(r))
  <2>1. End(r) \/ \E l \in Labels : Only(r, l)
    BY <1>5 DEF Step, Abort, ToggleLock, ToggleFind, ToggleInsert, ToggleRemove, Write,
       Create, Look, Erase, Cascade, Deadlock, Drop, Commit, Labels
  <2> QED BY <1>1, <1>2, <2>1
<1> QED BY <1>3, <1>4, <1>5

\* One request at a time holds the review.
LEMMA StepExclusive ==
    ASSUME TypeOK, Carried, Exclusive, NEW r \in Requests, Begin(r) \/ Step(r) \/ Abort(r)
    PROVE  Exclusive'
<1> USE DEF data
<1>1. \A q \in Requests \ {r} : HasReview(q)' <=> HasReview(q)
  BY StepFrame DEF HasReview
<1>2. /\ HasReview(r)' => UNCHANGED review /\ review # Gone /\ (HasReview(r) \/ ReviewFree)
      /\ review' = Gone => review = Gone \/ HasReview(r)
  <2>1. CASE End(r)
    <3>1. ~HasReview(r)'
      BY <2>1 DEF TypeOK, End, Goto, HasReview
    <3>2. review # Gone => review' # Gone \/ HasReview(r)
      <4>1. CASE Write(r) /\ review # Gone
        <5>1. entity[r] \in Rows /\ review \in Rows
          BY <4>1 DEF Write, Carried, Saving, TypeOK
        <5>2. review' \in Rows
          BY <4>1, <5>1, MergeIsRow DEF Write
        <5> QED BY <5>2, GoneAssumption
      <4>2. CASE ToggleInsert(r) \/ ToggleRemove(r) \/ Cascade(r)
        BY <4>2 DEF ToggleInsert, ToggleRemove, Cascade, HasReview
      <4>3. CASE ~Write(r) /\ ~(ToggleInsert(r) \/ ToggleRemove(r) \/ Cascade(r))
        BY <2>1, <4>3 DEF Step, Abort, Begin, ToggleLock, ToggleFind, Read, Find, Doom, Load,
           Create, Look, Erase, Deadlock, Drop, Only
      <4> QED BY <4>1, <4>2, <4>3
    <3> QED BY <3>1, <3>2
  <2>2. CASE ~End(r)
    <3>1. UNCHANGED review
      BY <2>2, StepFrame DEF Commit
    <3>2. CASE ToggleLock(r) \/ ToggleFind(r) \/ Erase(r)
      BY <2>2, <3>1, <3>2 DEF ToggleLock, ToggleFind, Erase, Drop, Exclusive, HasReview
    <3>3. CASE ~(ToggleLock(r) \/ ToggleFind(r) \/ Erase(r))
      <4>1. pc'[r] \in {"lock", "read", "look", "load", "find", "doom", "write", "create", "erase"}
        BY <2>2, <3>3 DEF TypeOK, Step, Abort, Begin, ToggleInsert, ToggleRemove, Read, Find,
           Doom, Load, Write, Create, Look, Cascade, Deadlock, Drop, Commit, Only, Goto
      <4> QED BY <3>1, <4>1 DEF HasReview
    <3> QED BY <3>2, <3>3
  <2> QED BY <2>1, <2>2
<1>3. HasReview(r)' => \A q \in Requests \ {r} : ~HasReview(q)
  BY <1>2 DEF Exclusive, ReviewFree
<1>4. ASSUME NEW q \in Requests \ {r}, HasReview(q)
      PROVE  review' # Gone /\ \A p \in Requests : HasReview(p)' => p = q
  BY <1>1, <1>2, <1>3, <1>4 DEF Exclusive
<1> QED BY <1>1, <1>2, <1>3, <1>4 DEF Exclusive

\* What an edit knows stays right until somebody else commits a change.
LEMMA StepFresh ==
    ASSUME TypeOK, Carried, Fresh, NEW r \in Requests, Begin(r) \/ Step(r) \/ Abort(r)
    PROVE  Fresh'
<1> USE DEF data, carried, history
<1>1. ASSUME NEW q \in Requests \ {r} PROVE FreshAt(q)'
  <2>1. CASE Commit(r)
    <3>1. op[q] \in Edits => q \in touched'
      BY <2>1 DEF Commit
    <3> QED BY <3>1, StepFrame DEF FreshAt
  <2>2. CASE ~Commit(r)
    <3>1. UNCHANGED <<review, likes>> /\ (q \in touched' <=> q \in touched)
      BY <2>2, StepFrame
    <3>2. FreshAt(q)
      BY DEF Fresh
    <3> QED BY <3>1, <3>2, StepFrame DEF FreshAt
  <2> QED BY <2>1, <2>2
<1>2. FreshAt(r)'
  <2>1. ASSUME op'[r] \notin Edits PROVE FreshAt(r)'
    BY <2>1 DEF FreshAt
  <2>2. CASE End(r)
    BY <2>1, <2>2 DEF TypeOK, End, Edits
  <2>3. CASE Begin(r)
    BY <2>1, <2>3 DEF TypeOK, Begin, Edits
  <2>4. CASE ToggleLock(r) \/ ToggleFind(r) \/ Look(r) \/ Erase(r)
    <3>1. pc[r] \notin Saving
      BY <2>4 DEF ToggleLock, ToggleFind, Look, Erase, Saving
    <3> QED BY <2>1, <2>2, <2>4, <3>1
      DEF ToggleLock, ToggleFind, Look, Erase, Drop, Only, Carried
  <2>5. CASE Read(r) /\ ~End(r)
    <3>1. PICK t \in Texts :
            /\ review # Gone
            /\ op' = [op EXCEPT ![r] = IF t = review.text THEN "resave" ELSE "revise"]
            /\ entity' = [entity EXCEPT ![r] =
                 IF t = review.text THEN review ELSE [text |-> t, likesCount |-> 0]]
            /\ Goto(r, IF t = review.text THEN "load" ELSE "find")
            /\ UNCHANGED <<data, user, dirty, snap, doomed, history>>
      BY <2>5 DEF Read, Drop
    <3>2. CASE t = review.text
      <4>1. op'[r] = "resave" /\ entity'[r] = review /\ pc'[r] = "load" /\ UNCHANGED review
        BY <3>1, <3>2 DEF TypeOK, Goto
      <4> QED BY <3>1, <4>1 DEF FreshAt
    <3>3. CASE t # review.text
      <4>1. /\ op'[r] = "revise" /\ pc'[r] = "find" /\ UNCHANGED review
            /\ entity'[r] = [text |-> t, likesCount |-> 0]
        BY <3>1, <3>3 DEF TypeOK, Goto
      <4> QED BY <3>1, <3>3, <4>1 DEF FreshAt
    <3> QED BY <3>2, <3>3
  <2>6. CASE Find(r)
    <3>1. /\ op[r] = "revise" /\ pc[r] = "find" /\ pc'[r] = "doom" /\ snap'[r] = likes
          /\ UNCHANGED <<review, likes, op, entity, touched>>
      BY <2>6 DEF Find, Carried, TypeOK, Goto
    <3> QED BY <3>1 DEF Fresh, FreshAt
  <2>7. CASE Doom(r)
    <3>1. /\ op[r] = "revise" /\ pc[r] = "doom" /\ pc'[r] = "load"
          /\ doomed'[r] = snap[r] \cap likes
          /\ UNCHANGED <<review, likes, op, entity, snap, touched>>
      BY <2>7 DEF Doom, Carried, TypeOK, Goto
    <3> QED BY <3>1 DEF Fresh, FreshAt
  <2>8. CASE Load(r) /\ ~End(r)
    <3>1. CASE review = Gone
      BY <2>8, <3>1 DEF Load, Only, Fresh, FreshAt
    <3>2. CASE review # Gone
      <4>1. /\ pc[r] = "load" /\ pc'[r] = "write"
            /\ dirty'[r] = {c \in Columns : entity[r][c] # review[c]}
            /\ UNCHANGED <<review, likes, op, entity, snap, doomed, touched>>
        BY <2>8, <3>2 DEF Load, Commit, TypeOK, Goto
      <4> QED BY <4>1 DEF Fresh, FreshAt
    <3> QED BY <3>1, <3>2
  <2> QED BY <2>2, <2>3, <2>4, <2>5, <2>6, <2>7, <2>8 DEF Step, Abort, Deadlock, Drop, Commit,
     ToggleInsert, ToggleRemove, Write, Create, Cascade
<1> QED BY <1>1, <1>2 DEF Fresh

-----------------------------------------------------------------------------
(* The likes and their counter.                                            *)

\* An edit that nothing has overlapped, and that has nothing to write, has
\* deleted no like.
LEMMA FreshLoad ==
    ASSUME Carried, Fresh, NEW r \in Requests, pc[r] = "load", r \notin touched,
           entity[r] = review
    PROVE  doomed[r] = {}
BY DEF Carried, Fresh, FreshAt, Saving, Edits

\* Only a toggle adds a like, and it holds the review.
LEMMA LikesGrow ==
    ASSUME TypeOK, NEW r \in Requests, Begin(r) \/ Step(r) \/ Abort(r)
    PROVE  likes' \subseteq likes \/ HasReview(r)
<1>1. CASE Commit(r)
  BY <1>1 DEF Begin, Step, Abort, ToggleLock, ToggleFind, ToggleInsert, ToggleRemove, Read,
     Find, Doom, Load, Write, Create, Look, Erase, Cascade, Deadlock, Drop, Only, HasReview,
     data
<1>2. CASE ~Commit(r)
  BY <1>2, StepFrame DEF data
<1> QED BY <1>1, <1>2

\* Only an edit that nothing has overlapped, or a deletion, puts the counter right
\* again: the edit when nobody holds the review, the deletion while it holds it.
LEMMA StepRenews ==
    ASSUME TypeOK, Carried, Fresh, NEW r \in Requests, Begin(r) \/ Step(r) \/ Abort(r),
           blurred, ~blurred'
    PROVE  Cascade(r) \/ (Write(r) /\ op[r] = "revise" /\ r \notin touched)
<1>1. Commit(r) /\ ~Drop(r) /\ r \notin touched /\ Renews(r)
  BY StepFrame DEF Commit, Drop
<1>2. pc'[r] = "idle"
  BY <1>1 DEF Commit, End, Goto, TypeOK
<1>3. ~Begin(r) /\ ~Abort(r) /\ ~Deadlock(r) /\ \A l \in Labels \ {"idle"} : ~Goto(r, l)
  BY <1>1, <1>2 DEF Begin, Abort, Deadlock, Goto, TypeOK, Labels
<1>4. ~Read(r) /\ ~Find(r) /\ ~Doom(r)
  BY <1>1, <1>3 DEF Read, Find, Doom, Labels
<1>5. ~ToggleLock(r) /\ ~ToggleFind(r) /\ ~Look(r) /\ ~Erase(r)
  BY <1>1, <1>3 DEF ToggleLock, ToggleFind, Look, Erase, Only, Labels
<1>6. CASE pc[r] = "cascade"
  BY <1>3, <1>4, <1>5, <1>6 DEF Step, ToggleInsert, ToggleRemove, Load, Write, Create
<1>7. CASE op[r] = "revise"
  <2>1. pc[r] \in Saving /\ FreshAt(r)
    BY <1>7 DEF Carried, Edits, Fresh
  <2>2. pc[r] # "create" /\ entity[r] # review
    BY <1>1, <1>7, <2>1 DEF FreshAt, Edits
  <2>3. ~Load(r)
    BY <1>3, <2>2 DEF Load, Only, Labels
  <2> QED
    BY <1>1, <1>3, <1>4, <1>5, <1>7, <2>1, <2>2, <2>3
    DEF Step, ToggleInsert, ToggleRemove, Create, Saving
<1> QED BY <1>1, <1>6, <1>7 DEF Renews

\* A toggle's reading of its user's like stays right.
LEMMA StepReadings ==
    ASSUME TypeOK, Carried, Exclusive, Fresh, NoDuplicateLike, LikeKnown,
           NEW r \in Requests, Begin(r) \/ Step(r) \/ Abort(r)
    PROVE  NoDuplicateLike' /\ LikeKnown'
<1> USE DEF data, carried, history
<1>1. ASSUME pc'[r] \in {"insert", "unlike"}
      PROVE  /\ UNCHANGED <<likes, user>>
             /\ pc'[r] = IF user[r] \in likes THEN "unlike" ELSE "insert"
  <2>1. ToggleFind(r)
    BY <1>1 DEF TypeOK, Begin, Step, Abort, ToggleLock, ToggleInsert, ToggleRemove, Read, Find,
       Doom, Load, Write, Create, Look, Erase, Cascade, Deadlock, Drop, Commit, End, Only, Goto
  <2> QED BY <2>1 DEF ToggleFind, Only, Goto, TypeOK
<1>2. ASSUME NEW q \in Requests \ {r}, pc'[q] = "insert" PROVE user'[q] \notin likes'
  <2>1. pc[q] = "insert" /\ user'[q] = user[q]
    BY <1>2, StepFrame
  <2>2. ~HasReview(r) /\ user[q] \notin likes
    BY <2>1 DEF Exclusive, HasReview, NoDuplicateLike
  <2> QED BY <2>1, <2>2, LikesGrow
<1>3. ASSUME NEW q \in Requests \ {r}, pc'[q] = "unlike", ~blurred' PROVE user'[q] \in likes'
  <2>0. pc[q] = "unlike" /\ user'[q] = user[q] /\ HasReview(q) /\ ~HasReview(r) /\ ~ReviewFree
    BY <1>3, StepFrame DEF Exclusive, HasReview, ReviewFree
  <2>1. /\ pc[q] = "unlike" /\ user'[q] = user[q]
        /\ ~blurred /\ (Commit(r) => r \notin touched)
    BY <1>3, <2>0, StepRenews DEF Commit, Cascade, HasReview, Write
  <2>2. HasReview(q) /\ user[q] \in likes /\ ~HasReview(r) /\ ~ReviewFree /\ review # Gone
    BY <2>0, <2>1 DEF Exclusive, LikeKnown
  <2>3. CASE ~Commit(r)
    BY <2>1, <2>2, <2>3, StepFrame
  <2>4. CASE Commit(r)
    <3>1. (Load(r) /\ entity[r] = review) \/ likes' = likes
      BY <2>2, <2>4 DEF Begin, Step, Abort, ToggleLock, ToggleFind, ToggleInsert, ToggleRemove,
         Read, Find, Doom, Load, Write, Create, Look, Erase, Cascade, Deadlock, Drop, Only,
         HasReview
    <3>2. likes' = likes
      BY <2>1, <2>4, <3>1, FreshLoad DEF Load, Only
    <3> QED BY <2>1, <2>2, <3>2
  <2> QED BY <2>3, <2>4
<1> QED BY <1>1, <1>2, <1>3 DEF NoDuplicateLike, LikeKnown

\* The counter keeps up with the likes.
LEMMA StepCounted ==
    ASSUME IInv, NEW r \in Requests, Begin(r) \/ Step(r) \/ Abort(r)
    PROVE  LikesCounted'
<1> USE DEF data, carried, history
<1>0. /\ TypeOK /\ Carried /\ Exclusive /\ Fresh /\ NoDuplicateLike /\ LikeKnown
      /\ LikesCounted /\ IsFiniteSet(likes)
  BY UsersAssumption, FS_Subset DEF IInv, TypeOK
<1>1. CASE ~Commit(r)
  BY <1>0, <1>1, StepFrame DEF LikesCounted
<1>2. CASE Commit(r)
  <2>0. ASSUME blurred, ~blurred', review' # Gone
        PROVE  review'.likesCount = Cardinality(likes')
    <3>1. Write(r) /\ op[r] = "revise" /\ r \notin touched
      BY <1>0, <2>0, StepRenews DEF Cascade
    <3>2. /\ pc[r] = "write" /\ FreshAt(r) /\ entity[r] \in Rows
          /\ review # Gone /\ review \in Rows
      BY <1>0, <2>0, <3>1 DEF Write, Carried, Saving, Fresh, TypeOK
    <3>3. doomed[r] = likes /\ entity[r].likesCount = 0
      BY <3>1, <3>2 DEF FreshAt, Edits
    <3>4. review'.likesCount = entity[r].likesCount /\ likes' = likes \ doomed[r]
      BY <3>1, <3>2, MergeIsRow DEF Write, FreshAt, Columns, Edits
    <3>5. likes' = {}
      BY <3>3, <3>4
    <3> QED BY <3>3, <3>4, <3>5, FS_EmptySet
  <2>1. SUFFICES ASSUME ~blurred, r \notin touched, review' # Gone
                 PROVE  review'.likesCount = Cardinality(likes')
    BY <1>2, <2>0 DEF LikesCounted, Commit
  <2>2. review # Gone => review.likesCount = Cardinality(likes)
    BY <1>0, <2>1 DEF LikesCounted
  <2>3. CASE UNCHANGED data
    BY <2>1, <2>2, <2>3
  <2>4. CASE ToggleInsert(r) /\ ~Drop(r)
    <3>1. review \in Rows /\ user[r] \notin likes
      BY <1>0, <2>4 DEF ToggleInsert, TypeOK, Exclusive, HasReview, NoDuplicateLike
    <3>2. review'.likesCount = review.likesCount + 1 /\ likes' = likes \cup {user[r]}
      BY <2>4, <3>1 DEF ToggleInsert, Rows
    <3>3. Cardinality(likes') = Cardinality(likes) + 1
      BY <1>0, <3>1, <3>2, FS_AddElement
    <3> QED BY <2>2, <3>1, <3>2, <3>3, GoneAssumption
  <2>5. CASE ToggleRemove(r)
    <3>1. review \in Rows /\ user[r] \in likes
      BY <1>0, <2>1, <2>5 DEF ToggleRemove, TypeOK, Exclusive, HasReview, LikeKnown
    <3>2. /\ review'.likesCount = IF review.likesCount > 0 THEN review.likesCount - 1 ELSE 0
          /\ likes' = likes \ {user[r]}
      BY <2>5, <3>1 DEF ToggleRemove, Rows
    <3>3. Cardinality(likes') = Cardinality(likes) - 1
      BY <1>0, <3>1, <3>2, FS_RemoveElement
    <3>4. Cardinality(likes) \in Nat /\ Cardinality(likes') \in Nat
      BY <1>0, <3>2, FS_CardinalityType, FS_RemoveElement
    <3>5. review.likesCount = Cardinality(likes)
      BY <2>2, <3>1, GoneAssumption
    <3> QED BY <3>2, <3>3, <3>4, <3>5
  <2>6. CASE Load(r) /\ entity[r] = review
    <3>1. pc[r] = "load" /\ review' = review /\ likes' = likes \ doomed[r]
      BY <1>0, <1>2, <2>6 DEF Load, Only, Commit, End, Goto, TypeOK
    <3>2. doomed[r] = {}
      BY <1>0, <2>1, <2>6, <3>1, FreshLoad
    <3> QED BY <2>1, <2>2, <3>1, <3>2
  <2>7. CASE Write(r)
    <3>1. /\ pc[r] = "write" /\ op[r] \in Edits /\ FreshAt(r) /\ entity[r] \in Rows
          /\ review # Gone /\ review \in Rows
      BY <1>0, <2>1, <2>7 DEF Write, Carried, Saving, Fresh, FreshAt, TypeOK
    <3>2. /\ review'.likesCount = entity[r].likesCount
          /\ likes' = likes \ doomed[r]
      BY <2>1, <2>7, <3>1, MergeIsRow DEF Write, FreshAt, Columns
    <3>3. CASE op[r] = "resave"
      <4>1. doomed[r] = {} /\ entity[r] = review
        BY <1>0, <2>1, <3>1, <3>3 DEF Carried, FreshAt
      <4> QED BY <2>2, <3>1, <3>2, <4>1
    <3>4. CASE op[r] = "revise"
      <4>1. doomed[r] = likes /\ entity[r].likesCount = 0
        BY <2>1, <3>1, <3>4 DEF FreshAt
      <4>2. likes' = {}
        BY <3>2, <4>1
      <4> QED BY <3>2, <4>1, <4>2, FS_EmptySet
    <3> QED BY <3>1, <3>3, <3>4 DEF Edits
  <2>8. CASE Create(r)
    BY <1>0, <2>1, <2>8 DEF Create, Carried, Saving, Fresh, FreshAt
  <2>9. CASE Cascade(r)
    BY <2>1, <2>9 DEF Cascade
  <2>10. Drop(r) => UNCHANGED data
    BY DEF Drop
  <2>11. \A l : Only(r, l) => UNCHANGED data
    BY DEF Only
  <2>12. CASE Begin(r) \/ Read(r) \/ Find(r) \/ Doom(r)
    BY <2>3, <2>10, <2>12 DEF Begin, Read, Find, Doom
  <2>13. CASE Load(r) /\ entity[r] # review
    BY <2>3, <2>11, <2>13 DEF Load
  <2>14. CASE ToggleLock(r) \/ ToggleFind(r) \/ Look(r) \/ Erase(r) \/ Deadlock(r) \/ Abort(r)
    BY <2>3, <2>10, <2>11, <2>14 DEF ToggleLock, ToggleFind, Look, Erase, Deadlock, Abort
  <2> QED
    BY <2>3, <2>4, <2>5, <2>6, <2>7, <2>8, <2>9, <2>10, <2>12, <2>13, <2>14 DEF Step
<1> QED BY <1>1, <1>2

-----------------------------------------------------------------------------
(* The invariant and the theorems.                                         *)

\* It holds before the first request.
LEMMA InitInvariant ==
    ASSUME Init
    PROVE  IInv
<1>1. TypeOK
  <2>1. review \in Rows
    BY DEF Init, Rows
  <2>2. RequestTypes
    BY DEF Init, RequestTypes, Labels
  <2> QED BY <2>1, <2>2, TypeParts DEF Init
<1>2. Carried /\ Exclusive /\ Fresh /\ NoDuplicateLike /\ LikeKnown
  BY DEF Init, Carried, Saving, Edits, Exclusive, HasReview, Fresh, FreshAt, NoDuplicateLike,
     LikeKnown
<1>3. LikesCounted
  BY FS_EmptySet DEF Init, LikesCounted
<1> QED BY <1>1, <1>2, <1>3 DEF IInv

\* Every step keeps it.
LEMMA NextInvariant ==
    ASSUME IInv, [Next]_vars
    PROVE  IInv'
<1>1. ASSUME NEW r \in Requests, Begin(r) \/ Step(r) \/ Abort(r) PROVE IInv'
  BY <1>1, StepTypes, StepExclusive, StepFresh, StepReadings, StepCounted DEF IInv
<1>2. CASE UNCHANGED vars
  BY <1>2 DEF vars, data, carried, history, IInv, TypeOK, Carried, Exclusive, HasReview, Fresh,
     FreshAt, NoDuplicateLike, LikeKnown, LikesCounted
<1> QED BY <1>1, <1>2 DEF Next

\* The invariant holds in every reachable state.
THEOREM LikesInvariant == Spec => []IInv
<1>1. Init => IInv
  BY InitInvariant
<1>2. IInv /\ [Next]_vars => IInv'
  BY NextInvariant
<1> QED BY <1>1, <1>2, PTL DEF Spec

\* Type correctness for any number of requests; the counter is never negative.
THEOREM LikesTypes == Spec => []TypeOK
<1>1. IInv => TypeOK
  BY DEF IInv
<1> QED BY <1>1, LikesInvariant, PTL

\* The counter is the number of likes as long as no edit is saved that
\* overlapped another change, however toggles and deletions interleave, and
\* again after the next edit or deletion that overlaps nothing.
THEOREM CounterCounts == Spec => []LikesCounted
<1>1. IInv => LikesCounted
  BY DEF IInv
<1> QED BY <1>1, LikesInvariant, PTL

\* A toggle never inserts a like that is there.
THEOREM LikesAreUnique == Spec => []NoDuplicateLike
<1>1. IInv => NoDuplicateLike
  BY DEF IInv
<1> QED BY <1>1, LikesInvariant, PTL
=============================================================================
