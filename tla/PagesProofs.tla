------------------------------ MODULE PagesProofs ------------------------------
(***************************************************************************)
(* Proofs about the pages of the browser, for every value of the constants *)
(* of Pages.                                                               *)
(***************************************************************************)
EXTENDS Pages, Arrays, FiniteSetTheorems, SequenceTheorems, WellFoundedInduction, TLAPS

\* A step is a step of one page, or changes nothing of it.
LEMMA Frame ==
  ASSUME [PagesNext]_<<screen, pages>>
  PROVE  /\ screen' = screen
         /\ [\/ screen = "card form" /\ Title(CardForm, TitleFailures)!Next
             \/ screen = "button form" /\ Title(ButtonForm, 0)!Next
             \/ screen = "removal" /\ Title(Removal, TitleFailures)!Next]_title
         /\ [screen = "list" /\ List!Next]_list
         /\ [screen = "shelf" /\ Shelf!Next]_shelf
         /\ [screen = "comments" /\ Thread!Next]_thread
         /\ [screen = "users" /\ UserTable!Next]_userTable
         /\ [screen = "blocked contents" /\ BlockTable!Next]_blockTable
<1>1. CASE UNCHANGED <<screen, pages>>
  BY <1>1 DEF pages
<1>2. CASE TitleSteps
  BY <1>2 DEF TitleSteps
<1>3. CASE ListSteps
  BY <1>3 DEF ListSteps
<1>4. CASE ShelfSteps
  BY <1>4 DEF ShelfSteps
<1>5. CASE ThreadSteps
  BY <1>5 DEF ThreadSteps
<1>6. CASE UserTableSteps
  BY <1>6 DEF UserTableSteps
<1>7. CASE BlockTableSteps
  BY <1>7 DEF BlockTableSteps
<1>. QED BY <1>1, <1>2, <1>3, <1>4, <1>5, <1>6, <1>7 DEF PagesNext

-----------------------------------------------------------------------------
(* Arrays: what a filter leaves of a list.                                  *)

\* Induction over the natural numbers, for a set.
LEMMA SetInduction ==
  ASSUME NEW S, 0 \in S, \A n \in Nat : n \in S => n + 1 \in S
  PROVE  Nat \subseteq S
<1>. DEFINE R == {p \in Nat \X Nat : p[1] < p[2]}
            B == {n \in Nat : n \notin S}
<1>1. SUFFICES ASSUME B # {} PROVE FALSE
  OBVIOUS
<1>2. \E x \in B : \A y \in B : ~(<<y, x>> \in R)
  <2>1. IsWellFoundedOn(R, Nat)
    BY NatLessThanWellFounded DEF OpToRel
  <2>2. B \subseteq Nat
    OBVIOUS
  <2>. HIDE DEF R, B
  <2>. QED BY <1>1, <2>1, <2>2, WFMin
<1>3. PICK x \in B : \A y \in B : ~(y < x)
  BY <1>2
<1>4. x # 0
  OBVIOUS
<1>5. x - 1 \in Nat /\ x - 1 \notin B
  BY <1>3, <1>4
<1>. QED BY <1>5

\* What Keep has kept of the first positions.
IsKept(g, s, I) ==
    g = [i \in 0 .. Len(s) |->
           IF i = 0 THEN <<>> ELSE IF i \in I THEN Append(g[i - 1], s[i]) ELSE g[i - 1]]

\* There is a function of which Keep is the last value.
LEMMA KeepRuns ==
  ASSUME NEW s, Len(s) \in Nat, NEW I
  PROVE  \E g : IsKept(g, s, I) /\ Keep(s, I) = g[Len(s)]
<1> DEFINE Runs(n, g) == g = [i \in 0 .. n |->
               IF i = 0 THEN <<>> ELSE IF i \in I THEN Append(g[i - 1], s[i]) ELSE g[i - 1]]
           S == {n \in Nat : \E g : Runs(n, g)}
<1>1. 0 \in S
  <2>1. Runs(0, [i \in 0 .. 0 |-> <<>>])
    OBVIOUS
  <2>. QED BY <2>1
<1>2. ASSUME NEW n \in Nat, n \in S PROVE n + 1 \in S
  <2>1. PICK g : Runs(n, g)
    BY <1>2
  <2> DEFINE h == [i \in 0 .. n + 1 |-> IF i = n + 1
                     THEN IF i \in I THEN Append(g[n], s[i]) ELSE g[n] ELSE g[i]]
  <2>2. ASSUME NEW i \in 0 .. n + 1
        PROVE  h[i] = IF i = 0 THEN <<>> ELSE IF i \in I THEN Append(h[i - 1], s[i]) ELSE h[i - 1]
    <3>1. CASE i \in 0 .. n
      <4>1. g[i] = IF i = 0 THEN <<>> ELSE IF i \in I THEN Append(g[i - 1], s[i]) ELSE g[i - 1]
        BY <2>1, <3>1
      <4>2. h[i] = g[i] /\ (i # 0 => h[i - 1] = g[i - 1])
        BY <3>1
      <4>. QED BY <4>1, <4>2
    <3>2. CASE i = n + 1
      <4>1. h[i - 1] = g[n] /\ i # 0
        BY <3>2
      <4>. QED BY <3>2, <4>1
    <3>. QED BY <3>1, <3>2
  <2>3. Runs(n + 1, h)
    <3>1. h = [i \in 0 .. n + 1 |-> h[i]]
      OBVIOUS
    <3> HIDE DEF h
    <3>. QED BY <2>2, <3>1
  <2>. HIDE DEF Runs
  <2>. QED BY <2>3
<1>3. Len(s) \in S
  <2> HIDE DEF S
  <2>. QED BY <1>1, <1>2, SetInduction
<1>4. PICK g : IsKept(g, s, I)
  BY <1>3 DEF IsKept
<1> DEFINE k == CHOOSE f : f = [i \in 0 .. Len(s) |->
               IF i = 0 THEN <<>> ELSE IF i \in I THEN Append(f[i - 1], s[i]) ELSE f[i - 1]]
<1>5. IsKept(k, s, I)
  BY <1>4 DEF IsKept
<1>6. Keep(s, I) = k[Len(s)]
  BY DEF Keep
<1> HIDE DEF k
<1>. QED BY <1>5, <1>6

\* k is what is kept of s at the positions in I up to n: f gives the positions.
Picks(f, k, s, I, n) ==
    /\ f \in [1 .. Len(k) -> I \cap (1 .. n)]
    /\ \A i, j \in 1 .. Len(k) : i < j => f[i] < f[j]
    /\ \A p \in I \cap (1 .. n) : \E i \in 1 .. Len(k) : f[i] = p
    /\ \A i \in 1 .. Len(k) : k[i] = s[f[i]]

\* Keep is what its positions name, in their order.
LEMMA KeepPicks ==
  ASSUME NEW X, NEW s \in Seq(X), NEW I
  PROVE  /\ Keep(s, I) \in Seq(X)
         /\ \E f : Picks(f, Keep(s, I), s, I, Len(s))
<1>1. PICK g : IsKept(g, s, I) /\ Keep(s, I) = g[Len(s)]
  BY KeepRuns
<1> DEFINE S == {n \in Nat : n <= Len(s) => g[n] \in Seq(X) /\ \E f : Picks(f, g[n], s, I, n)}
<1>2. 0 \in S
  <2>1. g[0] = <<>>
    BY <1>1 DEF IsKept
  <2>2. Picks(<<>>, <<>>, s, I, 0)
    BY DEF Picks
  <2>3. g[0] \in Seq(X) /\ \E f : Picks(f, g[0], s, I, 0)
    BY <2>1, <2>2
  <2> HIDE DEF Picks
  <2>. QED BY <2>3
<1>3. ASSUME NEW n \in Nat, n \in S PROVE n + 1 \in S
  <2>1. SUFFICES ASSUME n + 1 <= Len(s)
                 PROVE  g[n + 1] \in Seq(X) /\ \E f : Picks(f, g[n + 1], s, I, n + 1)
    OBVIOUS
  <2>2. PICK f : Picks(f, g[n], s, I, n)
    BY <1>3, <2>1
  <2>3. g[n] \in Seq(X) /\ Len(g[n]) \in Nat /\ s[n + 1] \in X
    BY <1>3, <2>1
  <2>4. g[n + 1] = IF n + 1 \in I THEN Append(g[n], s[n + 1]) ELSE g[n]
    <3>1. n + 1 \in 0 .. Len(s) /\ n + 1 # 0 /\ (n + 1) - 1 = n
      BY <2>1
    <3>2. \A i \in 0 .. Len(s) : g[i] = IF i = 0 THEN <<>>
                  ELSE IF i \in I THEN Append(g[i - 1], s[i]) ELSE g[i - 1]
      BY <1>1 DEF IsKept
    <3>. QED BY <3>1, <3>2
  <2> DEFINE m == Len(g[n])
  <2>. /\ \A i \in 1 .. m : f[i] \in I /\ f[i] \in 1 .. n /\ g[n][i] = s[f[i]]
       /\ \A i, j \in 1 .. m : i < j => f[i] < f[j]
       /\ \A p \in I : p \in 1 .. n => \E i \in 1 .. m : f[i] = p
       /\ f \in [1 .. m -> I \cap (1 .. n)]
    BY <2>2 DEF Picks
  <2>. \A p : p \in 1 .. n + 1 <=> p \in 1 .. n \/ p = n + 1
    OBVIOUS
  <2>5. CASE n + 1 \notin I
    <3>1. I \cap (1 .. n + 1) = I \cap (1 .. n)
      BY <2>5
    <3>. QED BY <2>2, <2>3, <2>4, <2>5, <3>1 DEF Picks
  <2>6. CASE n + 1 \in I
    <3> DEFINE k == g[n + 1]
               h == [i \in 1 .. m + 1 |-> IF i = m + 1 THEN n + 1 ELSE f[i]]
    <3>1. /\ k \in Seq(X) /\ Len(k) = m + 1 /\ k[m + 1] = s[n + 1]
          /\ \A i \in 1 .. m : k[i] = g[n][i]
      BY <2>3, <2>4, <2>6
    <3>2. h[m + 1] = n + 1 /\ \A i \in 1 .. m : h[i] = f[i]
      BY <2>3
    <3>3. DOMAIN h = 1 .. Len(k) /\ \A i : i \in 1 .. Len(k) <=> i \in 1 .. m \/ i = m + 1
      BY <2>3, <3>1
    <3> HIDE DEF k, h, m
    <3>4. ASSUME NEW i \in 1 .. Len(k) PROVE h[i] \in I \cap (1 .. n + 1) /\ k[i] = s[h[i]]
      <4>1. CASE i \in 1 .. m
        BY <3>1, <3>2, <4>1
      <4>2. CASE i = m + 1
        BY <2>6, <3>1, <3>2, <4>2
      <4>. QED BY <3>3, <4>1, <4>2
    <3>5. ASSUME NEW i \in 1 .. Len(k), NEW j \in 1 .. Len(k), i < j PROVE h[i] < h[j]
      <4>1. m \in Nat /\ i \in 1 .. m
        BY <2>3, <3>1, <3>5 DEF m
      <4>2. CASE j \in 1 .. m
        BY <3>2, <3>5, <4>1, <4>2
      <4>3. CASE j = m + 1
        <5>1. h[i] \in 1 .. n
          BY <3>2, <4>1
        <5>. QED BY <3>2, <4>3, <5>1
      <4>. QED BY <3>3, <4>2, <4>3
    <3>6. ASSUME NEW p \in I \cap (1 .. n + 1) PROVE \E i \in 1 .. Len(k) : h[i] = p
      <4>1. CASE p \in 1 .. n
        <5>1. PICK i \in 1 .. m : f[i] = p
          BY <4>1
        <5>. QED BY <3>2, <3>3, <5>1
      <4>2. CASE p = n + 1
        BY <3>2, <3>3, <4>2
      <4>. QED BY <4>1, <4>2
    <3>7. h \in [1 .. Len(k) -> I \cap (1 .. n + 1)]
      <4>1. h = [i \in 1 .. Len(k) |-> h[i]]
        BY <3>3 DEF h
      <4>. QED BY <3>4, <4>1
    <3>8. Picks(h, k, s, I, n + 1)
      BY <3>4, <3>5, <3>6, <3>7 DEF Picks
    <3>. QED BY <3>1, <3>8 DEF k
  <2>. QED BY <2>5, <2>6
<1>4. Len(s) \in S
  <2> HIDE DEF S
  <2>. QED BY <1>2, <1>3, SetInduction
<1>. QED BY <1>1, <1>4

-----------------------------------------------------------------------------
(* ReviewList: the list that is shown is the one that was asked for last,   *)
(* with the viewer's own likes.                                            *)

Visitors == Readers \cup {"guest"}

ListLoadTypes ==
    [n : Nat, key : List!Keys \ {List!NoKey}, user : Visitors, active : BOOLEAN,
     list : [answered : BOOLEAN, value : SUBSET Written],
     liked : [answered : BOOLEAN, value : SUBSET (Readers \X Written)]]

\* A load asks for one viewer's list and gets that viewer's likes; the one that is active
\* asks for what the page wants.
LoadMatches(q) ==
    /\ q.key[1] = q.user
    /\ \A p \in q.liked.value : p[1] = q.user
    /\ q.active => q.key = List!Key

ListInv ==
    /\ List!TypeOK
    /\ state \in [key : List!Keys, reviews : SUBSET Written, liked : SUBSET (Readers \X Written)]
    /\ listLoads \subseteq ListLoadTypes
    /\ \A q \in listLoads : LoadMatches(q)
    /\ state.key # List!NoKey => \A p \in state.liked : p[1] = state.key[1]
    /\ List!Key # List!NoKey /\ (\A q \in listLoads : ~q.active) => state.key = List!Key

\* The key of a list names its viewer.
LEMMA KeyNames ==
  \A v \in Visitors, s \in List!Orders :
     /\ List!KeyOf(v, s) \in List!Keys
     /\ List!KeyOf(v, s) # List!NoKey => List!KeyOf(v, s)[1] = v
BY DEF List!KeyOf, List!Keys, List!NoKey, List!Guest, Visitors

LEMMA ListInit == List!Init => ListInv
<1> SUFFICES ASSUME List!Init PROVE ListInv
  OBVIOUS
<1>1. viewer \in Visitors /\ sort \in List!Orders /\ List!Key = List!NoKey
  BY DEF List!Init, List!Guest, List!Orders, List!Key, List!KeyOf, Visitors
<1>2. List!NoKey \in List!Keys
  BY <1>1, KeyNames DEF List!Key
<1>3. List!TypeOK
  BY <1>1, <1>2, ListAssumption DEF List!Init, List!TypeOK, List!Guest, Visitors
<1>. QED BY <1>1, <1>2, <1>3 DEF List!Init, ListInv

LEMMA CancelledLoads ==
  ASSUME ListInv, NEW q \in List!Cancelled
  PROVE  q \in ListLoadTypes /\ ~q.active /\ LoadMatches(q)'
<1>1. PICK p \in listLoads : q = [p EXCEPT !.active = FALSE]
  BY DEF List!Cancelled
<1>2. p \in ListLoadTypes /\ LoadMatches(p)
  BY DEF ListInv
<1>3. /\ q \in ListLoadTypes /\ ~q.active
      /\ q.key = p.key /\ q.user = p.user /\ q.liked = p.liked
  BY <1>1, <1>2 DEF ListLoadTypes
<1>. QED BY <1>2, <1>3 DEF LoadMatches

\* The effect runs again, for viewer v and the order s.
LEMMA RerunStep ==
  ASSUME ListInv, NEW v \in Visitors, NEW s \in List!Orders,
         viewer' = v, sort' = s, List!Rerun(v, List!KeyOf(v, s)),
         UNCHANGED <<stored, likes, state, deleting>>, initial' \in SUBSET Written
  PROVE  ListInv'
<1>1. List!Key' = List!KeyOf(v, s)
  BY DEF List!Key, List!KeyOf
<1>2. CASE List!KeyOf(v, s) = List!NoKey
  <2>1. listLoads' = List!Cancelled /\ listAsked' = listAsked
    BY <1>2 DEF List!Rerun
  <2>2. \A q \in listLoads' : q \in ListLoadTypes /\ ~q.active /\ LoadMatches(q)'
    BY <2>1, CancelledLoads
  <2>. QED BY <1>1, <1>2, <2>1, <2>2 DEF ListInv, List!TypeOK, Visitors, List!NoKey, List!Guest
<1>3. CASE List!KeyOf(v, s) # List!NoKey
  <2> DEFINE new == [n |-> listAsked + 1, key |-> List!KeyOf(v, s), user |-> v,
                     list |-> List!Waiting, active |-> TRUE,
                     liked |-> IF v = List!Guest THEN List!Value({}) ELSE List!Waiting]
  <2>1. /\ listLoads' = List!Cancelled \cup {new}
        /\ listAsked < ListLoads /\ listAsked' = listAsked + 1
    BY <1>3 DEF List!Rerun
  <2>2. new \in ListLoadTypes
    BY <1>3, KeyNames, ListAssumption DEF ListInv, List!TypeOK, ListLoadTypes, List!Waiting, List!Value
  <2>3. \A q : q = new => q.active /\ LoadMatches(q)'
    BY <1>1, <1>3, KeyNames DEF LoadMatches, List!Waiting, List!Value
  <2>4. \A q \in List!Cancelled : q \in ListLoadTypes /\ ~q.active /\ LoadMatches(q)'
    BY CancelledLoads
  <2>5. listAsked' \in 0 .. ListLoads
    BY <2>1, ListAssumption DEF ListInv, List!TypeOK
  <2> HIDE DEF new
  <2>6. /\ \A q \in listLoads' : q \in ListLoadTypes /\ LoadMatches(q)'
        /\ new \in listLoads'
        /\ \A p \in listLoads', q \in listLoads' : p.active /\ q.active => p = q
    BY <2>1, <2>2, <2>3, <2>4
  <2>7. List!TypeOK'
    BY <2>5, <2>6 DEF ListInv, List!TypeOK, Visitors, List!Guest
  <2>. QED BY <2>3, <2>6, <2>7 DEF ListInv
<1>. QED BY <1>2, <1>3

\* One of the two requests of a load is answered.
LEMMA ListAnswerStep ==
  ASSUME ListInv, NEW q \in listLoads, NEW r \in ListLoadTypes,
         listLoads' = (listLoads \ {q}) \cup {r}, LoadMatches(r), r.active = q.active,
         UNCHANGED <<stored, likes, viewer, sort, initial, state, listAsked, deleting>>
  PROVE  ListInv'
<1>1. List!Key' = List!Key
  BY DEF List!Key, List!KeyOf
<1>2. \A p \in listLoads' : p \in ListLoadTypes /\ LoadMatches(p)'
  BY <1>1 DEF ListInv, LoadMatches
<1>3. \A p \in listLoads', o \in listLoads' : p.active /\ o.active => p = o
  BY DEF ListInv, List!TypeOK
<1>4. (\A p \in listLoads' : ~p.active) => \A p \in listLoads : ~p.active
  OBVIOUS
<1>. QED BY <1>1, <1>2, <1>3, <1>4 DEF ListInv, List!TypeOK

LEMMA FindByContentStep ==
  ASSUME ListInv, NEW q \in listLoads, List!FindByContent(q)
  PROVE  ListInv'
<1> DEFINE r == [q EXCEPT !.list = List!Value(stored)]
<1>1. q \in ListLoadTypes /\ LoadMatches(q)
  BY DEF ListInv
<1>2. r \in ListLoadTypes /\ LoadMatches(r) /\ r.active = q.active
  BY <1>1 DEF ListLoadTypes, LoadMatches, List!Value, ListInv, List!TypeOK
<1>3. /\ listLoads' = (listLoads \ {q}) \cup {r}
      /\ UNCHANGED <<stored, likes, viewer, sort, initial, state, listAsked, deleting>>
  BY DEF List!FindByContent
<1> HIDE DEF r
<1>. QED BY <1>2, <1>3, ListAnswerStep

LEMMA GetLikedStep ==
  ASSUME ListInv, NEW q \in listLoads, List!GetLikedReviewIds(q)
  PROVE  ListInv'
<1> DEFINE r == [q EXCEPT !.liked = List!Value({p \in likes : p[1] = q.user})]
<1>1. q \in ListLoadTypes /\ LoadMatches(q)
  BY DEF ListInv
<1>2. r \in ListLoadTypes /\ LoadMatches(r) /\ r.active = q.active
  BY <1>1 DEF ListLoadTypes, LoadMatches, List!Value, ListInv, List!TypeOK
<1>3. /\ listLoads' = (listLoads \ {q}) \cup {r}
      /\ UNCHANGED <<stored, likes, viewer, sort, initial, state, listAsked, deleting>>
  BY DEF List!GetLikedReviewIds
<1> HIDE DEF r
<1>. QED BY <1>2, <1>3, ListAnswerStep

\* A load ends, with these reviews and likes.
LEMMA SettledStep ==
  ASSUME ListInv, NEW q \in listLoads, NEW rs \in SUBSET Written,
         NEW ls \in SUBSET (Readers \X Written), \A p \in ls : p[1] = q.user,
         List!Settled(q, rs, ls)
  PROVE  ListInv'
<1>1. q \in ListLoadTypes /\ LoadMatches(q)
  BY DEF ListInv
<1>2. /\ listLoads' = listLoads \ {q}
      /\ state' = IF q.active THEN [key |-> q.key, reviews |-> rs, liked |-> ls] ELSE state
      /\ UNCHANGED <<stored, likes, viewer, sort, initial, listAsked, deleting>>
  BY DEF List!Settled
<1>3. List!Key' = List!Key
  BY <1>2 DEF List!Key, List!KeyOf
<1>4. \A p \in listLoads' : p \in ListLoadTypes /\ LoadMatches(p)'
  BY <1>2, <1>3 DEF ListInv, LoadMatches
<1>5. CASE q.active
  <2>1. state'.key = q.key /\ state'.reviews = rs /\ state'.liked = ls /\ q.key = List!Key
    BY <1>1, <1>2, <1>5 DEF LoadMatches
  <2>2. state' \in [key : List!Keys, reviews : SUBSET Written, liked : SUBSET (Readers \X Written)]
    BY <1>1, <1>2, <1>5 DEF ListLoadTypes
  <2>3. \A p \in state'.liked : p[1] = state'.key[1]
    BY <1>1, <2>1 DEF LoadMatches
  <2>. QED BY <1>2, <1>3, <1>4, <2>1, <2>2, <2>3 DEF ListInv, List!TypeOK
<1>6. CASE ~q.active
  BY <1>2, <1>3, <1>4, <1>6 DEF ListInv, List!TypeOK
<1>. QED BY <1>5, <1>6

LEMMA ListDeleteStep ==
  ASSUME ListInv, NEW r \in Written,
         \/ List!Delete(r) \/ List!Deleted(r) \/ \E u \in Readers : List!ToggleLike(u, r)
  PROVE  ListInv'
<1>1. /\ stored' \subseteq Written /\ likes' \subseteq Readers \X stored' /\ deleting' \subseteq Written
      /\ UNCHANGED <<viewer, sort, initial, listAsked, listLoads>>
  <2>1. CASE List!Delete(r)
    <3>1. \A p \in likes' : p \in Readers \X stored /\ p[2] # r
      BY <2>1 DEF List!Delete, ListInv, List!TypeOK
    <3>. QED BY <2>1, <3>1 DEF List!Delete, ListInv, List!TypeOK
  <2>2. CASE List!Deleted(r)
    BY <2>2 DEF List!Deleted, ListInv, List!TypeOK
  <2>3. ASSUME NEW u \in Readers, List!ToggleLike(u, r)
        PROVE  /\ likes' \subseteq Readers \X stored
               /\ UNCHANGED <<stored, deleting, viewer, sort, initial, listAsked, listLoads>>
    BY <2>3 DEF List!ToggleLike, ListInv, List!TypeOK
  <2>. QED BY <2>1, <2>2, <2>3 DEF ListInv, List!TypeOK
<1>2. state' = state \/ state' = [state EXCEPT !.reviews = @ \ {r}]
  BY DEF List!Delete, List!Deleted, List!ToggleLike
<1>3. /\ state'.key = state.key /\ state'.liked = state.liked
      /\ state' \in [key : List!Keys, reviews : SUBSET Written, liked : SUBSET (Readers \X Written)]
  BY <1>2 DEF ListInv
<1>4. List!Key' = List!Key
  BY <1>1 DEF List!Key, List!KeyOf
<1>5. \A p \in listLoads' : p \in ListLoadTypes /\ LoadMatches(p)'
  BY <1>1, <1>4 DEF ListInv, LoadMatches
<1>. QED BY <1>1, <1>3, <1>4, <1>5 DEF ListInv, List!TypeOK

LEMMA ListStep == ListInv /\ [List!Next]_list => ListInv'
<1> SUFFICES ASSUME ListInv, [List!Next]_list PROVE ListInv'
  OBVIOUS
<1> USE DEF List!listVars
<1>1. CASE UNCHANGED list
  BY <1>1 DEF list, ListInv, List!TypeOK, List!Key, List!KeyOf, LoadMatches
<1>2. viewer \in Visitors /\ sort \in List!Orders /\ stored \subseteq Written /\ initial \subseteq Written
  BY DEF ListInv, List!TypeOK, Visitors, List!Guest
<1>3. ASSUME NEW v \in Visitors, List!Authenticated(v) PROVE ListInv'
  BY <1>2, <1>3, RerunStep DEF List!Authenticated
<1>4. ASSUME NEW s \in List!Orders, List!Sort(s) PROVE ListInv'
  BY <1>2, <1>4, RerunStep DEF List!Sort
<1>5. CASE List!Refresh
  BY <1>2, <1>5, RerunStep DEF List!Refresh, List!Key
<1>6. ASSUME NEW q \in listLoads, List!Loaded(q) \/ List!LoadFails(q) PROVE ListInv'
  <2>1. q \in ListLoadTypes /\ LoadMatches(q)
    BY DEF ListInv
  <2>2. CASE List!Loaded(q)
    BY <2>1, <2>2, SettledStep DEF List!Loaded, ListLoadTypes, LoadMatches
  <2>3. CASE List!LoadFails(q)
    BY <1>2, <2>1, <2>3, SettledStep DEF List!LoadFails
  <2>. QED BY <1>6, <2>2, <2>3
<1>. QED BY <1>1, <1>3, <1>4, <1>5, <1>6, FindByContentStep, GetLikedStep, ListDeleteStep
         DEF List!Next, Visitors, List!Guest

LEMMA ListShows == ListInv => List!TypeOK /\ List!ListIsRequested
<1> SUFFICES ASSUME ListInv PROVE List!ListIsRequested
  BY DEF ListInv
<1>1. viewer \in Visitors /\ sort \in List!Orders
  BY DEF ListInv, List!TypeOK, Visitors, List!Guest
<1>2. List!Key # List!NoKey => List!Key[1] = viewer
  BY <1>1, KeyNames DEF List!Key
<1>3. \A p \in List!Shown.liked : p[1] = viewer
  BY <1>2 DEF List!Shown, ListInv
<1>. QED BY <1>3 DEF List!ListIsRequested, ListInv

-----------------------------------------------------------------------------
(* AdminContents: unless a decision came in between, what is shown is a     *)
(* page of the contents that are blocked.                                  *)

BlockPages == [items : Seq(Blockable), page : Nat \ {0}, pages : Nat]

BlockRequestTypes ==
    [n : Nat, kind : {"list", "after", "decide"}, page : Nat \ {0},
     phase : {"sent", "ok", "error"}, got : BlockPages, old : BOOLEAN]

BlockPageOf(p) == BlockTable!GetAdultContents(p)

\* A page that was read since the last decision is one of what is blocked.
BlockRead(q) == q.kind # "decide" /\ q.phase = "ok" /\ ~q.old => q.got = BlockPageOf(q.page)

\* A decision has been made and the list that follows it is still to come.
BlockPending(q) == q.kind = "after" \/ (q.kind = "decide" /\ q.phase = "ok")

BlockTyped ==
    /\ blockedNow \in Seq(Blockable) /\ BlockTable!NoRepeats(blockedNow)
    /\ blockedPage \in BlockPages
    /\ first \in BOOLEAN /\ blockActing \in BOOLEAN /\ blockMuddled \in BOOLEAN
    /\ blockModal.targets \subseteq Blockable
    /\ blockAsked \in Nat
    /\ blockRequests \subseteq BlockRequestTypes

BlockInv ==
    /\ BlockTyped
    /\ \A q \in blockRequests, r \in blockRequests : q.kind # "list" /\ r.kind # "list" => q = r
    /\ first => \E q \in blockRequests : q.kind = "list"
    /\ blockActing <=> \E q \in blockRequests : q.kind # "list"
    /\ \A q \in blockRequests : BlockRead(q)
    /\ ~first /\ ~blockMuddled /\ (\A q \in blockRequests : ~BlockPending(q)) =>
         blockedPage = BlockPageOf(blockedPage.page)

LEMMA BlockPageType ==
  ASSUME blockedNow \in Seq(Blockable), NEW p \in Nat \ {0}
  PROVE  BlockPageOf(p) \in BlockPages /\ BlockPageOf(p).page = p
<1> DEFINE m == (p - 1) * BlockLimit
           n == IF p * BlockLimit < Len(blockedNow) THEN p * BlockLimit ELSE Len(blockedNow)
<1>1. m \in Nat /\ n \in Nat /\ n <= Len(blockedNow)
  BY BlockAssumption
<1>2. (Len(blockedNow) + BlockLimit - 1) \div BlockLimit \in Nat
  BY BlockAssumption
<1> HIDE DEF m, n
<1>3. SubSeq(blockedNow, m + 1, n) \in Seq(Blockable)
  <2>1. \A i \in m + 1 .. n : blockedNow[i] \in Blockable
    BY <1>1
  <2>2. m + 1 \in Int /\ n \in Int
    BY <1>1
  <2>. QED BY <2>1, <2>2, SubSeqProperties
<1>. QED BY <1>2, <1>3 DEF BlockPageOf, BlockTable!GetAdultContents, BlockPages, m, n

LEMMA BlockUnread == BlockTable!Unread \in BlockPages
BY DEF BlockTable!Unread, BlockPages

LEMMA BlockInit == BlockTable!Init => BlockInv
<1> SUFFICES ASSUME BlockTable!Init PROVE BlockInv
  OBVIOUS
<1>1. blockedNow \in Seq(Blockable) /\ BlockTable!NoRepeats(blockedNow)
  <2>1. PICK s \in SUBSET Blockable : blockedNow \in BlockTable!Orderings(s)
    BY DEF BlockTable!Init, BlockTable!Arrangements
  <2>2. Cardinality(s) \in Nat
    BY <2>1, BlockAssumption, FS_Subset, FS_CardinalityType
  <2>3. /\ blockedNow \in [1 .. Cardinality(s) -> s]
        /\ \A i, j \in 1 .. Cardinality(s) : i # j => blockedNow[i] # blockedNow[j]
    <3>1. BlockTable!Cardinality(s) = Cardinality(s)
      BY DEF BlockTable!Cardinality, Cardinality
    <3>. QED BY <2>1, <3>1 DEF BlockTable!Orderings
  <2>4. blockedNow \in Seq(s)
    BY <2>2, <2>3
  <2>5. blockedNow \in Seq(Blockable)
    BY <2>1, <2>4
  <2>. QED BY <2>3, <2>5 DEF BlockTable!NoRepeats
<1>2. blockRequests = {BlockTable!Request(1, "list", 1)}
  BY DEF BlockTable!Init
<1>3. \A q \in blockRequests : q \in BlockRequestTypes /\ q.kind = "list" /\ q.phase = "sent"
  <2> DEFINE new == BlockTable!Request(1, "list", 1)
  <2>1. new \in BlockRequestTypes /\ new.kind = "list" /\ new.phase = "sent"
    BY BlockUnread DEF BlockTable!Request, BlockRequestTypes
  <2>. QED BY <1>2, <2>1
<1>4. BlockTyped
  BY <1>1, <1>3, BlockUnread DEF BlockTyped, BlockTable!Init, BlockTable!Closed
<1>. QED BY <1>2, <1>3, <1>4 DEF BlockInv, BlockTable!Init, BlockRead

\* A request is sent for a page.
LEMMA BlockAskStep ==
  ASSUME BlockInv, NEW kind \in {"list", "decide"}, NEW p \in Nat \ {0}, BlockTable!Ask(kind, p),
         kind = "decide" => ~blockActing, blockActing' = (blockActing \/ kind = "decide"),
         UNCHANGED <<blockedNow, blockedPage, first, blockModal, blockMuddled>>
  PROVE  BlockInv'
<1> DEFINE new == BlockTable!Request(blockAsked + 1, kind, p)
<1>1. blockAsked' = blockAsked + 1 /\ blockRequests' = blockRequests \cup {new}
  BY DEF BlockTable!Ask
<1>2. new \in BlockRequestTypes /\ new.kind = kind /\ new.phase = "sent"
  BY BlockUnread DEF BlockTable!Request, BlockRequestTypes, BlockInv, BlockTyped
<1> HIDE DEF new
<1>3. BlockTyped'
  BY <1>1, <1>2 DEF BlockInv, BlockTyped
<1>4. \A q : BlockPageOf(q)' = BlockPageOf(q)
  BY DEF BlockPageOf, BlockTable!GetAdultContents
<1>5. \A q \in blockRequests' : BlockRead(q)'
  BY <1>1, <1>2, <1>4 DEF BlockInv, BlockRead
<1>6. (\A q \in blockRequests' : ~BlockPending(q)) => \A q \in blockRequests : ~BlockPending(q)
  BY <1>1
<1>. QED BY <1>1, <1>2, <1>3, <1>4, <1>5, <1>6 DEF BlockInv, BlockPending

\* A request for the list is answered, or one of any kind fails.
LEMMA BlockAnsweredStep ==
  ASSUME BlockInv, NEW q \in blockRequests, NEW r \in BlockRequestTypes,
         blockRequests' = (blockRequests \ {q}) \cup {r}, r.kind = q.kind, BlockRead(r),
         r.kind = "decide" => r.phase # "ok" /\ q.phase # "ok",
         UNCHANGED <<blockedNow, blockedPage, first, blockModal, blockActing, blockAsked,
                     blockMuddled>>
  PROVE  BlockInv'
<1>1. \A p : BlockPageOf(p)' = BlockPageOf(p)
  BY DEF BlockPageOf, BlockTable!GetAdultContents
<1>2. \A p \in blockRequests' : BlockRead(p)'
  BY <1>1 DEF BlockInv, BlockRead
<1>3. BlockTyped'
  BY DEF BlockInv, BlockTyped
<1>4. /\ \A p, o \in blockRequests' : p.kind # "list" /\ o.kind # "list" => p = o
      /\ first => \E p \in blockRequests' : p.kind = "list"
      /\ blockActing <=> \E p \in blockRequests' : p.kind # "list"
  BY DEF BlockInv
<1>5. (\A p \in blockRequests' : ~BlockPending(p)) => \A p \in blockRequests : ~BlockPending(p)
  BY DEF BlockPending
<1>. QED BY <1>1, <1>2, <1>3, <1>4, <1>5 DEF BlockInv

LEMMA BlockServeListStep ==
  ASSUME BlockInv, NEW q \in blockRequests, BlockTable!ServeList(q),
         UNCHANGED <<blockedPage, first, blockModal, blockActing, blockAsked>>
  PROVE  BlockInv'
<1> DEFINE new == [q EXCEPT !.phase = "ok", !.got = BlockTable!GetAdultContents(q.page)]
<1>1. /\ q.kind # "decide" /\ UNCHANGED <<blockedNow, blockMuddled>>
      /\ blockRequests' = (blockRequests \ {q}) \cup {new}
  BY DEF BlockTable!ServeList
<1>2. q \in BlockRequestTypes
  BY DEF BlockInv, BlockTyped
<1>3. new \in BlockRequestTypes /\ new.kind = q.kind /\ BlockRead(new)
  <2>1. BlockTable!GetAdultContents(q.page) \in BlockPages
    BY <1>2, BlockPageType DEF BlockInv, BlockTyped, BlockPageOf, BlockRequestTypes
  <2>. QED BY <1>2, <2>1 DEF BlockRequestTypes, BlockRead, BlockPageOf
<1> HIDE DEF new
<1>. QED BY <1>1, <1>2, <1>3, BlockAnsweredStep

LEMMA BlockRejectStep ==
  ASSUME BlockInv, NEW q \in blockRequests, q.phase = "sent", BlockTable!Reject(q),
         UNCHANGED <<blockedPage, first, blockModal, blockActing, blockAsked>>
  PROVE  BlockInv'
<1> DEFINE new == [q EXCEPT !.phase = "error"]
<1>1. /\ UNCHANGED <<blockedNow, blockMuddled>>
      /\ blockRequests' = (blockRequests \ {q}) \cup {new}
  BY DEF BlockTable!Reject
<1>2. q \in BlockRequestTypes
  BY DEF BlockInv, BlockTyped
<1>3. new \in BlockRequestTypes /\ new.kind = q.kind /\ BlockRead(new) /\ new.phase = "error"
  BY <1>2 DEF BlockRequestTypes, BlockRead
<1> HIDE DEF new
<1>. QED BY <1>1, <1>2, <1>3, BlockAnsweredStep

\* What a decision makes of the blocked contents.
LEMMA BlockDecided ==
  ASSUME BlockInv, NEW b \in BlockTable!Decided
  PROVE  b \in Seq(Blockable) /\ BlockTable!NoRepeats(b)
<1> USE DEF BlockInv, BlockTyped
<1>0. \A i, j \in 1 .. Len(blockedNow) : blockedNow[i] = blockedNow[j] => i = j
  BY DEF BlockTable!NoRepeats
<1>1. CASE blockModal.action = "unblock"
  <2> DEFINE I == {i \in DOMAIN blockedNow : blockedNow[i] \notin blockModal.targets}
  <2>1. b = Keep(blockedNow, I)
    <3>1. BlockTable!Keep(blockedNow, I) = Keep(blockedNow, I)
      BY DEF BlockTable!Keep, Keep
    <3>. QED BY <1>1, <3>1 DEF BlockTable!Decided, BlockTable!Without
  <2> HIDE DEF I
  <2>2. PICK f : Picks(f, b, blockedNow, I, Len(blockedNow))
    BY <2>1, KeepPicks
  <2>3. b \in Seq(Blockable)
    BY <2>1, KeepPicks
  <2>4. ASSUME NEW i \in 1 .. Len(b), NEW j \in 1 .. Len(b), i # j PROVE b[i] # b[j]
    <3>1. /\ f[i] \in 1 .. Len(blockedNow) /\ f[j] \in 1 .. Len(blockedNow)
          /\ f[i] < f[j] \/ f[j] < f[i]
          /\ b[i] = blockedNow[f[i]] /\ b[j] = blockedNow[f[j]]
      BY <2>2, <2>3, <2>4 DEF Picks
    <3>. QED BY <1>0, <3>1
  <2>. QED BY <2>3, <2>4 DEF BlockTable!NoRepeats
<1>2. CASE blockModal.action # "unblock"
  <2>1. PICK moved \in SUBSET (blockModal.targets \ BlockTable!Elements(blockedNow)) :
          \E front \in BlockTable!Orderings(moved) : b = front \o blockedNow
    BY <1>2 DEF BlockTable!Decided
  <2>2. PICK front \in BlockTable!Orderings(moved) : b = front \o blockedNow
    BY <2>1
  <2>3. Cardinality(moved) \in Nat
    BY <2>1, BlockAssumption, FS_Subset, FS_CardinalityType
  <2>4. /\ front \in [1 .. Cardinality(moved) -> moved]
        /\ \A i, j \in 1 .. Cardinality(moved) : i # j => front[i] # front[j]
    <3>1. BlockTable!Cardinality(moved) = Cardinality(moved)
      BY DEF BlockTable!Cardinality, Cardinality
    <3>. QED BY <2>2, <3>1 DEF BlockTable!Orderings
  <2>5. front \in Seq(Blockable) /\ Len(front) = Cardinality(moved)
    <3>1. front \in Seq(moved) /\ Len(front) = Cardinality(moved)
      BY <2>3, <2>4
    <3>. QED BY <2>1, <3>1
  <2>6. \A i \in 1 .. Len(blockedNow) : blockedNow[i] \notin moved
    BY <2>1 DEF BlockTable!Elements
  <2>7. /\ b \in Seq(Blockable) /\ Len(b) = Len(front) + Len(blockedNow)
        /\ \A i \in 1 .. Len(b) : b[i] = IF i <= Len(front) THEN front[i]
                                          ELSE blockedNow[i - Len(front)]
    BY <2>2, <2>5, ConcatProperties
  <2>8. Len(front) \in Nat /\ Len(blockedNow) \in Nat
    BY <2>5
  <2>9. ASSUME NEW i \in 1 .. Len(b), NEW j \in 1 .. Len(b), i < j PROVE b[i] # b[j]
    <3>1. CASE j <= Len(front)
      BY <2>4, <2>5, <2>7, <2>8, <2>9, <3>1
    <3>2. CASE i <= Len(front) /\ j > Len(front)
      <4>1. b[i] = front[i] /\ i \in 1 .. Len(front)
        BY <2>7, <2>8, <3>2
      <4>2. b[j] = blockedNow[j - Len(front)] /\ j - Len(front) \in 1 .. Len(blockedNow)
        BY <2>7, <2>8, <3>2
      <4>. QED BY <2>4, <2>5, <2>6, <4>1, <4>2
    <3>3. CASE i > Len(front)
      <4>1. /\ b[i] = blockedNow[i - Len(front)] /\ i - Len(front) \in 1 .. Len(blockedNow)
            /\ b[j] = blockedNow[j - Len(front)] /\ j - Len(front) \in 1 .. Len(blockedNow)
            /\ i - Len(front) # j - Len(front)
        BY <2>7, <2>8, <2>9, <3>3
      <4>. QED BY <1>0, <4>1
    <3>. QED BY <2>7, <2>8, <3>1, <3>2, <3>3
  <2>10. \A i, j \in 1 .. Len(b) : i < j \/ j < i \/ i = j
    BY <2>7, <2>8
  <2>11. \A i, j \in 1 .. Len(b) : b[i] = b[j] => i = j
    BY <2>9, <2>10
  <2>12. DOMAIN b = 1 .. Len(b)
    BY <2>7
  <2>. QED BY <2>7, <2>11, <2>12 DEF BlockTable!NoRepeats
<1>. QED BY <1>1, <1>2

LEMMA BlockDecisionStep ==
  ASSUME BlockInv, NEW q \in blockRequests, q.phase = "sent", BlockTable!ServeDecision(q),
         UNCHANGED <<blockedPage, first, blockModal, blockActing, blockAsked>>
  PROVE  BlockInv'
<1> DEFINE Aged(r) == [r EXCEPT !.old = @ \/ r.phase = "ok"]
           rest == {Aged(r) : r \in blockRequests \ {q}}
<1>1. PICK phase \in {"ok", "error"} :
        /\ blockRequests' = rest \cup {[q EXCEPT !.phase = phase]}
        /\ blockMuddled' = (blockMuddled \/ phase = "error")
  BY DEF BlockTable!ServeDecision
<1> DEFINE new == [q EXCEPT !.phase = phase]
<1>2. q.kind = "decide" /\ blockedNow' \in BlockTable!Decided
  BY DEF BlockTable!ServeDecision
<1>3. \A r \in blockRequests : r \in BlockRequestTypes
  BY DEF BlockInv, BlockTyped
<1>4. new \in BlockRequestTypes /\ new.kind = "decide" /\ new.phase = phase
  BY <1>2, <1>3 DEF BlockRequestTypes
<1>5. ASSUME NEW r \in rest
      PROVE  /\ r \in BlockRequestTypes /\ (r.phase = "ok" => r.old) /\ r.kind = "list"
  <2>1. PICK p \in blockRequests \ {q} : r = Aged(p)
    OBVIOUS
  <2>2. p \in BlockRequestTypes /\ p.kind = "list"
    BY <1>2, <1>3, <2>1 DEF BlockInv
  <2>. QED BY <2>1, <2>2 DEF BlockRequestTypes
<1>6. first => \E r \in rest : r.kind = "list"
  <2>1. SUFFICES ASSUME first PROVE \E r \in rest : r.kind = "list"
    OBVIOUS
  <2>2. PICK p \in blockRequests : p.kind = "list"
    BY <2>1 DEF BlockInv
  <2>3. Aged(p) \in rest
    BY <1>2, <2>2
  <2>. QED BY <1>5, <2>3
<1>7. blockActing
  BY <1>2 DEF BlockInv
<1> HIDE DEF new, rest
<1>8. blockRequests' = rest \cup {new}
  BY <1>1 DEF new
<1>9. BlockTyped'
  BY <1>1, <1>2, <1>4, <1>5, <1>8, BlockDecided DEF BlockInv, BlockTyped
<1>10. \A r \in blockRequests' : BlockRead(r)'
  BY <1>4, <1>5, <1>8 DEF BlockRead
<1>11. /\ \A r, p \in blockRequests' : r.kind # "list" /\ p.kind # "list" => r = p
       /\ first' => \E r \in blockRequests' : r.kind = "list"
       /\ new \in blockRequests'
  BY <1>4, <1>5, <1>6, <1>8
<1>12. blockMuddled' \/ BlockPending(new)
  BY <1>1, <1>4 DEF BlockPending
<1>. QED BY <1>4, <1>7, <1>9, <1>10, <1>11, <1>12 DEF BlockInv

LEMMA BlockListStep ==
  ASSUME BlockInv, NEW q \in blockRequests, BlockTable!ListComes(q)
  PROVE  BlockInv'
<1>1. q \in BlockRequestTypes /\ BlockRead(q)
  BY DEF BlockInv, BlockTyped
<1>2. /\ q.kind # "decide" /\ first' = FALSE /\ blockRequests' = blockRequests \ {q}
      /\ UNCHANGED <<blockedNow, blockAsked>>
      /\ blockActing' = (blockActing /\ q.kind # "after")
      /\ blockModal' = blockModal \/ blockModal' = BlockTable!Closed
  BY <1>1 DEF BlockTable!ListComes, BlockInv, BlockTyped
<1>3. \/ q.phase = "ok" /\ blockedPage' = q.got /\ blockMuddled' = q.old
      \/ /\ q.phase = "error" /\ blockedPage' = blockedPage
         /\ blockMuddled' = (blockMuddled \/ q.kind = "after" \/ first)
  BY DEF BlockTable!ListComes
<1>4. \A p : BlockPageOf(p)' = BlockPageOf(p)
  BY <1>2 DEF BlockPageOf, BlockTable!GetAdultContents
<1>5. BlockTyped'
  <2>1. blockedPage' \in BlockPages /\ blockMuddled' \in BOOLEAN
    BY <1>1, <1>3 DEF BlockInv, BlockTyped, BlockRequestTypes
  <2>2. blockModal'.targets \subseteq Blockable
    <3>1. BlockTable!Closed.targets \subseteq Blockable
      BY DEF BlockTable!Closed
    <3>. QED BY <1>2, <3>1 DEF BlockInv, BlockTyped
  <2>. QED BY <1>2, <2>1, <2>2 DEF BlockInv, BlockTyped
<1>6. ~blockMuddled' /\ (\A r \in blockRequests' : ~BlockPending(r)) =>
        blockedPage' = BlockPageOf(blockedPage'.page)
  <2>1. CASE q.phase = "ok"
    <3>1. ~q.old => q.got = BlockPageOf(q.page) /\ BlockPageOf(q.page).page = q.page
      BY <1>1, <1>2, <2>1, BlockPageType DEF BlockRead, BlockInv, BlockTyped, BlockRequestTypes
    <3>. QED BY <1>3, <2>1, <3>1
  <2>2. CASE q.phase = "error" /\ q.kind = "list"
    <3>1. ~BlockPending(q)
      BY <2>2 DEF BlockPending
    <3>. QED BY <1>2, <1>3, <2>2, <3>1 DEF BlockInv
  <2>. QED BY <1>1, <1>2, <1>3, <2>1, <2>2 DEF BlockRequestTypes
<1>7. blockActing' <=> \E r \in blockRequests' : r.kind # "list"
  BY <1>1, <1>2 DEF BlockInv, BlockRequestTypes
<1>8. \A r \in blockRequests' : BlockRead(r)'
  BY <1>2, <1>4 DEF BlockInv, BlockRead
<1>9. \A p \in {blockedPage'.page} : BlockPageOf(p)' = BlockPageOf(p)
  BY <1>4
<1>. QED BY <1>2, <1>4, <1>5, <1>6, <1>7, <1>8 DEF BlockInv, BlockPending

LEMMA BlockDecisionComesStep ==
  ASSUME BlockInv, NEW q \in blockRequests, BlockTable!DecisionComes(q)
  PROVE  BlockInv'
<1>1. q \in BlockRequestTypes /\ q.kind = "decide" /\ blockActing
  BY DEF BlockInv, BlockTyped, BlockTable!DecisionComes
<1>2. UNCHANGED <<blockedNow, blockedPage, first, blockMuddled>>
  BY DEF BlockTable!DecisionComes
<1>3. \A p : BlockPageOf(p)' = BlockPageOf(p)
  BY <1>2 DEF BlockPageOf, BlockTable!GetAdultContents
<1>4. \A r \in blockRequests \ {q} : r.kind = "list" /\ r \in BlockRequestTypes /\ BlockRead(r)'
  BY <1>1, <1>3 DEF BlockInv, BlockTyped, BlockRead
<1>5. CASE q.phase = "ok"
  <2> DEFINE new == BlockTable!Request(blockAsked + 1, "after", q.page)
  <2>1. /\ blockAsked' = blockAsked + 1 /\ blockRequests' = (blockRequests \ {q}) \cup {new}
        /\ UNCHANGED <<blockActing, blockModal>>
    BY <1>5 DEF BlockTable!DecisionComes
  <2>2. /\ new \in BlockRequestTypes /\ new.kind = "after" /\ new.phase = "sent"
    BY <1>1, BlockUnread DEF BlockTable!Request, BlockRequestTypes, BlockInv, BlockTyped
  <2> HIDE DEF new
  <2>3. BlockTyped'
    BY <1>2, <1>4, <2>1, <2>2 DEF BlockInv, BlockTyped
  <2>4. BlockPending(new) /\ new \in blockRequests'
    BY <2>1, <2>2 DEF BlockPending
  <2>5. \A r \in blockRequests' : BlockRead(r)'
    BY <1>4, <2>1, <2>2 DEF BlockRead
  <2>6. first => \E r \in blockRequests' : r.kind = "list"
    BY <1>1, <2>1 DEF BlockInv
  <2>. QED BY <1>1, <1>2, <1>4, <2>1, <2>2, <2>3, <2>4, <2>5, <2>6 DEF BlockInv
<1>6. CASE q.phase = "error"
  <2>1. /\ blockActing' = FALSE /\ blockModal' = BlockTable!Closed
        /\ blockRequests' = blockRequests \ {q} /\ UNCHANGED blockAsked
    BY <1>6 DEF BlockTable!DecisionComes
  <2>2. BlockTyped'
    BY <1>2, <2>1 DEF BlockInv, BlockTyped, BlockTable!Closed
  <2>3. ~BlockPending(q)
    BY <1>1, <1>6 DEF BlockPending
  <2>4. first => \E r \in blockRequests' : r.kind = "list"
    BY <1>1, <2>1 DEF BlockInv
  <2>. QED BY <1>2, <1>3, <1>4, <2>1, <2>2, <2>3, <2>4 DEF BlockInv
<1>. QED BY <1>5, <1>6 DEF BlockTable!DecisionComes

LEMMA BlockStep == BlockInv /\ [BlockTable!Next]_blockTable => BlockInv'
<1> SUFFICES ASSUME BlockInv, [BlockTable!Next]_blockTable PROVE BlockInv'
  OBVIOUS
<1>1. ASSUME UNCHANGED <<blockedNow, blockedPage, first, blockActing, blockAsked, blockRequests,
                         blockMuddled>>,
             blockModal'.targets \subseteq Blockable
      PROVE  BlockInv'
  <2>1. \A p : BlockPageOf(p)' = BlockPageOf(p)
    BY <1>1 DEF BlockPageOf, BlockTable!GetAdultContents
  <2>2. \A q \in blockRequests : BlockRead(q)'
    BY <2>1 DEF BlockInv, BlockRead
  <2>3. BlockTyped'
    BY <1>1 DEF BlockInv, BlockTyped
  <2>. QED BY <1>1, <2>1, <2>2, <2>3 DEF BlockInv
<1>2. CASE UNCHANGED blockTable
  BY <1>1, <1>2 DEF blockTable, BlockInv, BlockTyped
<1>3. CASE BlockTable!Turn
  <2>1. blockedPage.page \in Nat \ {0} /\ blockedPage.pages \in Nat
    BY DEF BlockInv, BlockTyped, BlockPages
  <2>2. PICK p \in Nat \ {0} : BlockTable!Ask("list", p)
    BY <1>3, <2>1 DEF BlockTable!Turn
  <2>3. UNCHANGED <<blockedNow, blockedPage, first, blockModal, blockActing, blockMuddled>>
    BY <1>3 DEF BlockTable!Turn
  <2>. QED BY <2>2, <2>3, BlockAskStep DEF BlockInv, BlockTyped
<1>4. CASE BlockTable!HandleUnblock
  <2>1. \A i \in DOMAIN blockedPage.items : blockedPage.items[i] \in Blockable
    BY DEF BlockInv, BlockTyped, BlockPages
  <2>. QED BY <1>1, <1>4, <2>1 DEF BlockTable!HandleUnblock, BlockTable!Elements
<1>5. CASE BlockTable!Cancel
  BY <1>1, <1>5 DEF BlockTable!Cancel, BlockTable!Closed
<1>6. CASE BlockTable!ConfirmAction
  <2> DEFINE p == IF blockModal.action = "block-person" THEN 1 ELSE blockedPage.page
  <2>1. p \in Nat \ {0} /\ blockActing \in BOOLEAN
    BY DEF BlockInv, BlockTyped, BlockPages
  <2>2. /\ BlockTable!Ask("decide", p) /\ ~blockActing /\ blockActing' = TRUE
        /\ UNCHANGED <<blockedNow, blockedPage, first, blockModal, blockMuddled>>
    BY <1>6 DEF BlockTable!ConfirmAction
  <2> HIDE DEF p
  <2>. QED BY <2>1, <2>2, BlockAskStep
<1>7. ASSUME NEW targets \in SUBSET Blockable, NEW action, BlockTable!HandleAction(action, targets)
      PROVE  BlockInv'
  BY <1>1, <1>7 DEF BlockTable!HandleAction
<1>8. ASSUME NEW q \in blockRequests, BlockTable!Serve(q) PROVE BlockInv'
  <2>1. q.phase = "sent" /\ UNCHANGED <<blockedPage, first, blockModal, blockActing, blockAsked>>
    BY <1>8 DEF BlockTable!Serve
  <2>. QED BY <1>8, <2>1, BlockServeListStep, BlockDecisionStep, BlockRejectStep
           DEF BlockTable!Serve
<1>. QED BY <1>2, <1>3, <1>4, <1>5, <1>6, <1>7, <1>8, BlockAssumption, BlockListStep,
            BlockDecisionComesStep
         DEF BlockTable!Next, blockTable, BlockTable!blockVars

LEMMA BlockShows == BlockInv => BlockTable!TypeOK /\ BlockTable!BlockedShown
<1> SUFFICES ASSUME BlockInv PROVE BlockTable!TypeOK /\ BlockTable!BlockedShown
  OBVIOUS
<1>1. BlockTable!Elements(blockedNow) \subseteq Blockable
  BY DEF BlockInv, BlockTyped, BlockTable!Elements
<1>2. /\ BlockTable!Elements(blockedPage.items) \subseteq Blockable
      /\ blockedPage.page \in Nat \ {0}
  <2>1. blockedPage.items \in Seq(Blockable) /\ blockedPage.page \in Nat \ {0}
    BY DEF BlockInv, BlockTyped, BlockPages
  <2>. QED BY <2>1 DEF BlockTable!Elements
<1>3. BlockTable!TypeOK
  BY <1>1, <1>2 DEF BlockInv, BlockTyped, BlockTable!TypeOK
<1>4. BlockTable!BlockedShown
  BY DEF BlockInv, BlockTable!BlockedShown, BlockPageOf
<1>. QED BY <1>3, <1>4

-----------------------------------------------------------------------------
(* AdminUsers: unless something has failed or crossed, what is shown is the *)
(* page of the users that the newest query selects.                        *)

Queries == [page : Nat \ {0}, search : SUBSET Members, filter : UserTable!Filters]

UserRows  == [id : Members, status : UserTable!Statuses]
UserPages == [users : Seq(UserRows), page : Nat, pages : Nat]

UserRequestTypes ==
    [n : Nat, kind : {"fetch", "reload", "patch"}, arg : Queries,
     phase : {"sent", "ok", "error"}, got : UserPages, old : BOOLEAN]

UserPageOf(q) == UserTable!FindAllForAdmin(q)

\* A page that was read since the last change of a status is one of the users.
UserRead(q) == q.kind # "patch" /\ q.phase = "ok" /\ ~q.old => q.got = UserPageOf(q.arg)

\* A page is still to come, or will be asked for.
UserPending(q) == q.kind # "patch" \/ q.phase = "ok"

UserModalTyped ==
    \/ userModal = UserTable!Closed
    \/ userModal.user \in Members \ Staff /\ userModal.action \in UserTable!Statuses

UserTyped ==
    /\ status \in [Members -> UserTable!Statuses]
    /\ query \in Queries /\ query.search \in Searches \cup {Members}
    /\ userPage \in Seq(UserPages)
    /\ usersLoading \in BOOLEAN /\ failed \in BOOLEAN /\ userActing \in BOOLEAN
    /\ usersMuddled \in BOOLEAN
    /\ UserModalTyped
    /\ usersAsked \in Nat
    /\ userRequests \subseteq UserRequestTypes

UserInv ==
    /\ UserTyped
    /\ \A q \in userRequests, r \in userRequests : q.kind # "fetch" /\ r.kind # "fetch" => q = r
    /\ usersLoading => \E q \in userRequests : q.kind # "patch"
    /\ userActing <=> \E q \in userRequests : q.kind # "fetch"
    /\ \A q \in userRequests : UserRead(q)
    /\ ~failed /\ ~usersMuddled /\ (\A q \in userRequests : ~UserPending(q)) =>
         userPage = <<UserPageOf(query)>>

\* The numbers of a finite set can be put in descending order.
Descends(f, s) ==
    /\ f \in [1 .. Cardinality(s) -> s]
    /\ \A i, j \in 1 .. Cardinality(s) : i < j => f[i] > f[j]

LEMMA DescendingOrder ==
  ASSUME NEW s \in SUBSET Nat, IsFiniteSet(s)
  PROVE  \E f : Descends(f, s)
<1> DEFINE S == {n \in Nat : \A t \in SUBSET Nat : IsFiniteSet(t) /\ Cardinality(t) = n =>
                               \E f : Descends(f, t)}
<1>1. 0 \in S
  <2>1. \A t \in SUBSET Nat : Cardinality(t) = 0 => Descends(<<>>, t)
    BY DEF Descends
  <2>. QED BY <2>1
<1>2. ASSUME NEW n \in Nat, n \in S PROVE n + 1 \in S
  <2>1. SUFFICES ASSUME NEW t \in SUBSET Nat, IsFiniteSet(t), Cardinality(t) = n + 1
                 PROVE  \E f : Descends(f, t)
    OBVIOUS
  <2>2. t # {}
    BY <2>1, FS_EmptySet
  <2>3. PICK m \in t : \A k \in t : ~(k < m)
    <3> DEFINE R == {p \in Nat \X Nat : p[1] < p[2]}
    <3>1. IsWellFoundedOn(R, Nat)
      BY NatLessThanWellFounded DEF OpToRel
    <3> HIDE DEF R
    <3>2. \E m \in t : \A k \in t : ~(<<k, m>> \in R)
      BY <2>2, <3>1, WFMin
    <3>. QED BY <3>2 DEF R
  <2>4. IsFiniteSet(t \ {m}) /\ Cardinality(t \ {m}) = n
    <3>1. IsFiniteSet(t \ {m}) /\ Cardinality(t \ {m}) = Cardinality(t) - 1
      BY <2>1, <2>3, FS_RemoveElement
    <3>. QED BY <2>1, <3>1
  <2>5. PICK f : Descends(f, t \ {m})
    BY <1>2, <2>4
  <2> DEFINE g == [i \in 1 .. n + 1 |-> IF i = n + 1 THEN m ELSE f[i]]
  <2>6. /\ \A i \in 1 .. n : f[i] \in t \ {m}
        /\ \A i, j \in 1 .. n : i < j => f[i] > f[j]
    BY <2>4, <2>5 DEF Descends
  <2>7. g[n + 1] = m /\ \A i \in 1 .. n : g[i] = f[i]
    OBVIOUS
  <2>8. \A i : i \in 1 .. n + 1 <=> i \in 1 .. n \/ i = n + 1
    OBVIOUS
  <2>9. \A i \in 1 .. n + 1 : g[i] \in t
    <3> HIDE DEF g
    <3>. QED BY <2>3, <2>6, <2>7, <2>8
  <2>10. ASSUME NEW i \in 1 .. n + 1, NEW j \in 1 .. n + 1, i < j PROVE g[i] > g[j]
    <3>1. i \in 1 .. n
      BY <2>10
    <3>2. CASE j \in 1 .. n
      BY <2>6, <2>7, <2>10, <3>1, <3>2
    <3>3. CASE j = n + 1
      <4>1. g[i] = f[i] /\ g[j] = m /\ f[i] \in t /\ f[i] # m
        BY <2>6, <2>7, <3>1, <3>3
      <4>2. f[i] \in Nat /\ m \in Nat /\ ~(f[i] < m)
        BY <2>3, <4>1
      <4> HIDE DEF g
      <4>. QED BY <4>1, <4>2
    <3>. QED BY <2>8, <3>2, <3>3
  <2>11. g \in [1 .. n + 1 -> t]
    BY <2>9
  <2>12. Descends(g, t)
    BY <2>1, <2>10, <2>11 DEF Descends
  <2>. QED BY <2>12
<1>3. Cardinality(s) \in S
  <2> HIDE DEF S
  <2>. QED BY <1>1, <1>2, FS_CardinalityType, SetInduction
<1>. QED BY <1>3

\* The server's order of some users is a list of them.
LEMMA NewestFirstIs ==
  ASSUME NEW s \in SUBSET Members
  PROVE  UserTable!NewestFirst(s) \in Seq(s)
<1>1. IsFiniteSet(s) /\ s \subseteq Nat
  BY UserAssumption, FS_Subset
<1>2. Cardinality(s) \in Nat
  BY <1>1, FS_CardinalityType
<1>3. PICK f : Descends(f, s)
  BY <1>1, DescendingOrder
<1>4. UserTable!Cardinality(s) = Cardinality(s)
  BY DEF UserTable!Cardinality, Cardinality
<1>5. \A i, j \in 1 .. Cardinality(s) : i # j => f[i] # f[j]
  <2>1. \A i \in 1 .. Cardinality(s) : f[i] \in Nat
    BY <1>1, <1>3 DEF Descends
  <2>2. \A i, j \in 1 .. Cardinality(s) : i # j => i < j \/ j < i
    BY <1>2
  <2>. QED BY <1>3, <2>1, <2>2 DEF Descends
<1>6. f \in UserTable!Orderings(s)
  BY <1>3, <1>4, <1>5 DEF Descends, UserTable!Orderings
<1>7. DOMAIN f = 1 .. Cardinality(s)
  BY <1>3 DEF Descends
<1>8. UserTable!NewestFirst(s) \in UserTable!Orderings(s)
  BY <1>3, <1>6, <1>7 DEF UserTable!NewestFirst, Descends
<1>9. UserTable!NewestFirst(s) \in [1 .. Cardinality(s) -> s]
  BY <1>4, <1>8 DEF UserTable!Orderings
<1>. QED BY <1>2, <1>9

LEMMA UserPageType ==
  ASSUME UserTyped, NEW q \in Queries
  PROVE  UserPageOf(q) \in UserPages
<1> DEFINE s == {u \in q.search : q.filter \in {"all", status[u]}}
           rows == UserTable!NewestFirst(s)
           before == (q.page - 1) * UserLimit
           upto == IF before + UserLimit < Len(rows) THEN before + UserLimit ELSE Len(rows)
           size == IF upto < before THEN 0 ELSE upto - before
           users == [i \in 1 .. size |-> [id |-> rows[before + i], status |-> status[rows[before + i]]]]
<1>1. s \in SUBSET Members
  BY DEF Queries
<1> HIDE DEF s
<1>2. rows \in Seq(s)
  BY <1>1, NewestFirstIs
<1> HIDE DEF rows
<1>3. Len(rows) \in Nat /\ \A i \in 1 .. Len(rows) : rows[i] \in Members
  BY <1>1, <1>2
<1>4. before \in Nat
  BY UserAssumption DEF Queries
<1> HIDE DEF before
<1>5. before + size <= Len(rows) \/ size = 0
  BY <1>3, <1>4, UserAssumption
<1>6. size \in Nat
  BY <1>3, <1>4, UserAssumption
<1> HIDE DEF upto, size
<1>7. ASSUME NEW i \in 1 .. size
      PROVE  [id |-> rows[before + i], status |-> status[rows[before + i]]] \in UserRows
  <2>1. before + i \in 1 .. Len(rows)
    BY <1>3, <1>4, <1>5, <1>6, <1>7
  <2>2. rows[before + i] \in Members
    BY <1>3, <2>1
  <2>. QED BY <2>2 DEF UserRows, UserTyped
<1>8. users \in Seq(UserRows)
  BY <1>6, <1>7
<1>9. (Len(rows) + UserLimit - 1) \div UserLimit \in Nat
  BY <1>3, UserAssumption
<1>10. q.page \in Nat
  BY DEF Queries
<1> HIDE DEF users
<1>11. UserPageOf(q) = [users |-> users, page |-> q.page,
                        pages |-> (Len(rows) + UserLimit - 1) \div UserLimit]
  BY DEF UserPageOf, UserTable!FindAllForAdmin, UserTable!Selected, users, size, upto, before,
         rows, s
<1>. QED BY <1>8, <1>9, <1>10, <1>11 DEF UserPages

LEMMA UserUnread == UserTable!Unread \in UserPages
BY DEF UserTable!Unread, UserPages

\* A query with another page; one from the first page on.
LEMMA QueryPage ==
  ASSUME NEW q \in Queries, NEW p \in Nat \ {0}
  PROVE  [q EXCEPT !.page = p] \in Queries /\ [q EXCEPT !.page = p].search = q.search
<1>1. [q EXCEPT !.page = p] \in Queries
  BY DEF Queries
<1>2. [q EXCEPT !.page = p].search = q.search
  BY DEF Queries
<1>. QED BY <1>1, <1>2

LEMMA QueryAnew ==
  ASSUME NEW s \in SUBSET Members, NEW f \in UserTable!Filters
  PROVE  [page |-> 1, search |-> s, filter |-> f] \in Queries
BY DEF Queries

LEMMA UserInit == UserTable!Init => UserInv
<1> SUFFICES ASSUME UserTable!Init PROVE UserInv
  OBVIOUS
<1> DEFINE new == UserTable!Request(1, "fetch", query)
<1>1. query \in Queries /\ query.search = Members
  <2>1. Members \in SUBSET Members /\ "all" \in UserTable!Filters
    BY DEF UserTable!Filters
  <2>. QED BY <2>1 DEF UserTable!Init, Queries
<1>2. new \in UserRequestTypes /\ new.kind = "fetch" /\ new.phase = "sent"
  BY <1>1, UserUnread DEF UserTable!Request, UserRequestTypes
<1>3. userRequests = {new} /\ UserTable!Init
  BY DEF UserTable!Init
<1> HIDE DEF new
<1>4. UserTyped
  <2>1. userPage \in Seq(UserPages)
    BY DEF UserTable!Init
  <2>2. userRequests \subseteq UserRequestTypes
    BY <1>2, <1>3
  <2>3. UserModalTyped
    BY DEF UserTable!Init, UserModalTyped
  <2>. QED BY <1>1, <2>1, <2>2, <2>3 DEF UserTyped, UserTable!Init
<1>. QED BY <1>2, <1>3, <1>4 DEF UserInv, UserTable!Init, UserRead, UserPending

\* What is read of the users depends on their statuses only.
LEMMA UserPageStays ==
  ASSUME UNCHANGED status
  PROVE  \A q : UserPageOf(q)' = UserPageOf(q)
BY DEF UserPageOf, UserTable!FindAllForAdmin, UserTable!Selected

\* The newest query is sent, in place of a request that has ended.
LEMMA UserFetchStep ==
  ASSUME UserInv, NEW rest \in SUBSET userRequests, NEW kind \in {"fetch", "reload"},
         NEW q \in Queries, UserTable!Fetch(rest, kind, q),
         kind = "reload" => userActing /\ \A r \in rest : r.kind = "fetch",
         kind = "fetch" => rest = userRequests,
         UNCHANGED <<status, userPage, userActing, usersMuddled>>,
         query' \in Queries, query'.search \in Searches \cup {Members}, UserModalTyped'
  PROVE  UserInv'
<1> DEFINE new == UserTable!Request(usersAsked + 1, kind, q)
<1>1. /\ usersLoading' = TRUE /\ failed' = FALSE
      /\ usersAsked' = usersAsked + 1 /\ userRequests' = rest \cup {new}
  BY DEF UserTable!Fetch
<1>2. new \in UserRequestTypes /\ new.kind = kind /\ new.phase = "sent"
  BY UserUnread DEF UserTable!Request, UserRequestTypes, UserInv, UserTyped
<1> HIDE DEF new
<1>3. UserTyped'
  <2>1. userRequests' \subseteq UserRequestTypes /\ usersAsked' \in Nat
    BY <1>1, <1>2 DEF UserInv, UserTyped
  <2>. QED BY <1>1, <2>1 DEF UserInv, UserTyped
<1>4. \A r \in userRequests' : UserRead(r)'
  BY <1>1, <1>2, UserPageStays DEF UserInv, UserRead
<1>5. /\ \A r, p \in userRequests' : r.kind # "fetch" /\ p.kind # "fetch" => r = p
      /\ userActing' <=> \E r \in userRequests' : r.kind # "fetch"
  BY <1>1, <1>2 DEF UserInv
<1>6. new \in userRequests' /\ UserPending(new) /\ new.kind # "patch"
  BY <1>1, <1>2 DEF UserPending
<1>. QED BY <1>1, <1>3, <1>4, <1>5, <1>6 DEF UserInv

LEMMA UserChooseStep ==
  ASSUME UserInv, NEW q \in Queries, q.search \in Searches \cup {Members}, UserTable!Choose(q)
  PROVE  UserInv'
BY UserFetchStep DEF UserTable!Choose, UserInv, UserTyped, UserModalTyped

\* The page, a dialog: nothing of the requests changes.
LEMMA UserQuietStep ==
  ASSUME UserInv, UserModalTyped',
         UNCHANGED <<status, query, userPage, usersLoading, failed, userActing, usersAsked,
                     userRequests, usersMuddled>>
  PROVE  UserInv'
<1>1. UserTyped'
  BY DEF UserInv, UserTyped
<1>2. \A q \in userRequests' : UserRead(q)'
  BY UserPageStays DEF UserInv, UserRead
<1>. QED BY <1>1, <1>2, UserPageStays DEF UserInv, UserPending

LEMMA UserConfirmStep ==
  ASSUME UserInv, UserTable!Confirm
  PROVE  UserInv'
<1> DEFINE new == UserTable!Request(usersAsked + 1, "patch", query)
<1>1. /\ ~userActing /\ userActing' = TRUE
      /\ usersAsked' = usersAsked + 1 /\ userRequests' = userRequests \cup {new}
      /\ UNCHANGED <<status, query, userPage, usersLoading, failed, userModal, usersMuddled>>
  BY DEF UserTable!Confirm
<1>2. new \in UserRequestTypes /\ new.kind = "patch" /\ new.phase = "sent"
  BY UserUnread DEF UserTable!Request, UserRequestTypes, UserInv, UserTyped
<1> HIDE DEF new
<1>3. UserTyped'
  BY <1>1, <1>2 DEF UserInv, UserTyped, UserModalTyped
<1>4. \A r \in userRequests' : UserRead(r)'
  BY <1>1, <1>2, UserPageStays DEF UserInv, UserRead
<1>5. \A r, p \in userRequests' : r.kind # "fetch" /\ p.kind # "fetch" => r = p
  BY <1>1, <1>2 DEF UserInv
<1>. QED BY <1>1, <1>2, <1>3, <1>4, <1>5, UserPageStays DEF UserInv, UserPending

\* A request for a page is answered, or one of any kind fails.
LEMMA UserAnsweredStep ==
  ASSUME UserInv, NEW q \in userRequests, NEW r \in UserRequestTypes,
         userRequests' = (userRequests \ {q}) \cup {r}, r.kind = q.kind, UserRead(r),
         r.kind = "patch" => r.phase # "ok" /\ q.phase # "ok",
         UNCHANGED <<status, query, userPage, usersLoading, failed, userModal, userActing,
                     usersAsked, usersMuddled>>
  PROVE  UserInv'
<1>1. UserTyped'
  BY DEF UserInv, UserTyped, UserModalTyped
<1>2. \A p \in userRequests' : UserRead(p)'
  BY UserPageStays DEF UserInv, UserRead
<1>3. /\ \A p, o \in userRequests' : p.kind # "fetch" /\ o.kind # "fetch" => p = o
      /\ usersLoading => \E p \in userRequests' : p.kind # "patch"
      /\ userActing <=> \E p \in userRequests' : p.kind # "fetch"
  BY DEF UserInv
<1>4. (\A p \in userRequests' : ~UserPending(p)) => \A p \in userRequests : ~UserPending(p)
  BY DEF UserPending
<1>. QED BY <1>1, <1>2, <1>3, <1>4, UserPageStays DEF UserInv

LEMMA UserServeFetchStep ==
  ASSUME UserInv, NEW q \in userRequests, UserTable!ServeFetch(q),
         UNCHANGED <<query, userPage, usersLoading, failed, userModal, userActing, usersAsked>>
  PROVE  UserInv'
<1> DEFINE new == [q EXCEPT !.phase = "ok", !.got = UserTable!FindAllForAdmin(q.arg)]
<1>1. /\ q.kind # "patch" /\ UNCHANGED <<status, usersMuddled>>
      /\ userRequests' = (userRequests \ {q}) \cup {new}
  BY DEF UserTable!ServeFetch
<1>2. q \in UserRequestTypes
  BY DEF UserInv, UserTyped
<1>3. new \in UserRequestTypes /\ new.kind = q.kind /\ UserRead(new)
  <2>1. UserTable!FindAllForAdmin(q.arg) \in UserPages
    BY <1>2, UserPageType DEF UserInv, UserPageOf, UserRequestTypes
  <2>. QED BY <1>2, <2>1 DEF UserRequestTypes, UserRead, UserPageOf
<1> HIDE DEF new
<1>. QED BY <1>1, <1>2, <1>3, UserAnsweredStep

LEMMA UserRejectStep ==
  ASSUME UserInv, NEW q \in userRequests, q.phase = "sent", UserTable!Reject(q),
         UNCHANGED <<query, userPage, usersLoading, failed, userModal, userActing, usersAsked>>
  PROVE  UserInv'
<1> DEFINE new == [q EXCEPT !.phase = "error"]
<1>1. /\ UNCHANGED <<status, usersMuddled>>
      /\ userRequests' = (userRequests \ {q}) \cup {new}
  BY DEF UserTable!Reject
<1>2. q \in UserRequestTypes
  BY DEF UserInv, UserTyped
<1>3. new \in UserRequestTypes /\ new.kind = q.kind /\ UserRead(new) /\ new.phase = "error"
  BY <1>2 DEF UserRequestTypes, UserRead
<1> HIDE DEF new
<1>. QED BY <1>1, <1>2, <1>3, UserAnsweredStep

LEMMA UserPatchStep ==
  ASSUME UserInv, NEW q \in userRequests, q.phase = "sent", UserTable!ServePatch(q),
         UNCHANGED <<query, userPage, usersLoading, failed, userModal, userActing, usersAsked>>
  PROVE  UserInv'
<1> DEFINE Aged(r) == [r EXCEPT !.old = @ \/ r.phase = "ok"]
           rest == {Aged(r) : r \in userRequests \ {q}}
<1>1. PICK phase \in {"ok", "error"} :
        /\ userRequests' = rest \cup {[q EXCEPT !.phase = phase]}
        /\ usersMuddled' = (usersMuddled \/ phase = "error")
  BY DEF UserTable!ServePatch, UserTable!Outdated
<1> DEFINE new == [q EXCEPT !.phase = phase]
<1>2. q.kind = "patch" /\ status' = [status EXCEPT ![userModal.user] = userModal.action]
  BY DEF UserTable!ServePatch
<1>3. \A r \in userRequests : r \in UserRequestTypes
  BY DEF UserInv, UserTyped
<1>4. new \in UserRequestTypes /\ new.kind = "patch" /\ new.phase = phase
  BY <1>2, <1>3 DEF UserRequestTypes
<1>5. ASSUME NEW r \in rest
      PROVE  /\ r \in UserRequestTypes /\ (r.phase = "ok" => r.old) /\ r.kind = "fetch"
  <2>1. PICK p \in userRequests \ {q} : r = Aged(p)
    OBVIOUS
  <2>2. p \in UserRequestTypes /\ p.kind = "fetch"
    BY <1>2, <1>3, <2>1 DEF UserInv
  <2>. QED BY <2>1, <2>2 DEF UserRequestTypes
<1>6. usersLoading => \E r \in rest : r.kind # "patch"
  <2>1. SUFFICES ASSUME usersLoading PROVE \E r \in rest : r.kind # "patch"
    OBVIOUS
  <2>2. PICK p \in userRequests : p.kind # "patch"
    BY <2>1 DEF UserInv
  <2>3. Aged(p) \in rest
    BY <1>2, <2>2
  <2>. QED BY <1>5, <2>3
<1>7. userActing
  BY <1>2 DEF UserInv
<1>8. status' \in [Members -> UserTable!Statuses]
  <2>1. CASE userModal = UserTable!Closed
    BY <1>2, <2>1, UserAssumption DEF UserInv, UserTyped, UserTable!Closed
  <2>2. CASE userModal.user \in Members \ Staff /\ userModal.action \in UserTable!Statuses
    BY <1>2, <2>2 DEF UserInv, UserTyped
  <2>. QED BY <2>1, <2>2 DEF UserInv, UserTyped, UserModalTyped
<1> HIDE DEF new, rest
<1>9. userRequests' = rest \cup {new}
  BY <1>1 DEF new
<1>10. UserTyped'
  BY <1>1, <1>4, <1>5, <1>8, <1>9 DEF UserInv, UserTyped, UserModalTyped
<1>11. \A r \in userRequests' : UserRead(r)'
  BY <1>4, <1>5, <1>9 DEF UserRead
<1>12. /\ \A r, p \in userRequests' : r.kind # "fetch" /\ p.kind # "fetch" => r = p
       /\ usersLoading' => \E r \in userRequests' : r.kind # "patch"
       /\ new \in userRequests'
  BY <1>4, <1>5, <1>6, <1>9
<1>13. usersMuddled' \/ UserPending(new)
  BY <1>1, <1>4 DEF UserPending
<1>. QED BY <1>4, <1>7, <1>10, <1>11, <1>12, <1>13 DEF UserInv

LEMMA UserFetchComesStep ==
  ASSUME UserInv, NEW q \in userRequests, UserTable!FetchComes(q)
  PROVE  UserInv'
<1>1. q \in UserRequestTypes /\ UserRead(q)
  BY DEF UserInv, UserTyped
<1>2. /\ q.kind # "patch" /\ usersLoading' = FALSE /\ userRequests' = userRequests \ {q}
      /\ userActing' = (userActing /\ q.kind # "reload")
      /\ UNCHANGED <<status, query, userModal, usersAsked>>
  BY DEF UserTable!FetchComes
<1>3. \/ /\ q.phase = "ok" /\ userPage' = <<q.got>> /\ failed' = failed
         /\ usersMuddled' = (q.old \/ q.arg # query)
      \/ q.phase = "error" /\ failed' = TRUE /\ UNCHANGED <<userPage, usersMuddled>>
  BY DEF UserTable!FetchComes
<1>4. UserTyped'
  <2>1. q.got \in UserPages /\ q.old \in BOOLEAN
    BY <1>1 DEF UserRequestTypes
  <2>2. userPage' \in Seq(UserPages)
    <3>1. <<q.got>> \in Seq(UserPages)
      BY <2>1
    <3>. QED BY <1>3, <3>1 DEF UserInv, UserTyped
  <2>3. usersMuddled' \in BOOLEAN /\ failed' \in BOOLEAN /\ userActing' \in BOOLEAN
    BY <1>2, <1>3, <2>1 DEF UserInv, UserTyped
  <2>. QED BY <1>2, <2>2, <2>3 DEF UserInv, UserTyped, UserModalTyped
<1>5. ~failed' /\ ~usersMuddled' => userPage' = <<UserPageOf(query)>>
  BY <1>2, <1>3, <1>1 DEF UserRead
<1>6. \A r \in userRequests' : UserRead(r)'
  BY <1>2, UserPageStays DEF UserInv, UserRead
<1>7. userActing' <=> \E r \in userRequests' : r.kind # "fetch"
  BY <1>1, <1>2 DEF UserInv, UserRequestTypes
<1>8. UserPageOf(query)' = UserPageOf(query)
  BY <1>2, UserPageStays
<1>. QED BY <1>2, <1>4, <1>5, <1>6, <1>7, <1>8 DEF UserInv

LEMMA UserPatchComesStep ==
  ASSUME UserInv, NEW q \in userRequests, UserTable!PatchComes(q)
  PROVE  UserInv'
<1>1. q \in UserRequestTypes /\ q.kind = "patch" /\ userActing
  BY DEF UserInv, UserTyped, UserTable!PatchComes
<1>2. UNCHANGED <<status, query, userPage, usersMuddled>>
  BY DEF UserTable!PatchComes
<1>3. \A r \in userRequests \ {q} : r.kind = "fetch"
  BY <1>1 DEF UserInv
<1>4. CASE q.phase = "ok"
  <2>1. /\ UserTable!Fetch(userRequests \ {q}, "reload", q.arg) /\ userModal' = UserTable!Closed
        /\ UNCHANGED userActing
    BY <1>4 DEF UserTable!PatchComes
  <2>2. q.arg \in Queries /\ UserModalTyped'
    BY <1>1, <2>1 DEF UserRequestTypes, UserModalTyped, UserTable!Closed
  <2>3. query' \in Queries /\ query'.search \in Searches \cup {Members}
    BY <1>2 DEF UserInv, UserTyped
  <2>. QED BY <1>1, <1>2, <1>3, <2>1, <2>2, <2>3, UserFetchStep
<1>5. CASE q.phase = "error"
  <2>1. /\ userActing' = FALSE /\ userRequests' = userRequests \ {q}
        /\ UNCHANGED <<userModal, usersLoading, failed, usersAsked>>
    BY <1>5 DEF UserTable!PatchComes
  <2>2. UserTyped'
    BY <1>2, <2>1 DEF UserInv, UserTyped, UserModalTyped
  <2>3. ~UserPending(q)
    BY <1>1, <1>5 DEF UserPending
  <2>4. \A r \in userRequests' : UserRead(r)'
    BY <1>2, <2>1, UserPageStays DEF UserInv, UserRead
  <2>5. usersLoading => \E r \in userRequests' : r.kind # "patch"
    BY <1>1, <2>1 DEF UserInv
  <2>. QED BY <1>2, <1>3, <2>1, <2>2, <2>3, <2>4, <2>5, UserPageStays DEF UserInv, UserPending
<1>. QED BY <1>4, <1>5 DEF UserTable!PatchComes

LEMMA UserStep == UserInv /\ [UserTable!Next]_userTable => UserInv'
<1> SUFFICES ASSUME UserInv, [UserTable!Next]_userTable PROVE UserInv'
  OBVIOUS
<1>0. UserTyped
  BY DEF UserInv
<1>1. CASE UNCHANGED userTable
  BY <1>1, UserQuietStep DEF userTable, UserInv, UserTyped, UserModalTyped
<1>2. ASSUME NEW s \in Searches, UserTable!HandleSearch(s) PROVE UserInv'
  <2> DEFINE new == [page |-> 1, search |-> s, filter |-> query.filter]
  <2>1. s \in SUBSET Members /\ query.filter \in UserTable!Filters
    BY <1>0, UserAssumption DEF UserTyped, Queries
  <2>2. new \in Queries /\ new.search = s
    BY <2>1, QueryAnew
  <2>. QED BY <1>2, <2>2, UserChooseStep DEF UserTable!HandleSearch
<1>3. ASSUME NEW f \in UserTable!Filters, UserTable!HandleStatusFilter(f) PROVE UserInv'
  <2> DEFINE new == [page |-> 1, search |-> query.search, filter |-> f]
  <2>1. query.search \in SUBSET Members
    BY <1>0 DEF UserTyped, Queries
  <2>2. new \in Queries /\ new.search = query.search
    BY <2>1, QueryAnew
  <2>. QED BY <1>0, <1>3, <2>2, UserChooseStep DEF UserTable!HandleStatusFilter, UserTyped
<1>4. CASE UserTable!Turn
  <2>1. query \in Queries /\ query.page \in Nat \ {0}
    BY <1>0 DEF UserTyped, Queries
  <2>2. PICK p \in Nat \ {0} : UserTable!Choose([query EXCEPT !.page = p])
    <3>1. CASE query.page > 1 /\ UserTable!Choose([query EXCEPT !.page = @ - 1])
      BY <2>1, <3>1
    <3>2. CASE UserTable!Choose([query EXCEPT !.page = @ + 1])
      BY <2>1, <3>2
    <3>. QED BY <1>4, <3>1, <3>2 DEF UserTable!Turn
  <2>3. [query EXCEPT !.page = p] \in Queries /\ [query EXCEPT !.page = p].search = query.search
    BY <2>1, QueryPage
  <2>. QED BY <1>0, <2>2, <2>3, UserChooseStep DEF UserTyped
<1>5. CASE UserTable!HandleStatusChange
  <2>1. userPage[1] \in UserPages
    BY <1>0, <1>5 DEF UserTyped, UserTable!HandleStatusChange
  <2>2. PICK row \in UserTable!Elements(userPage[1].users) :
          /\ row.id \notin Staff
          /\ userModal' = [user |-> row.id,
                           action |-> IF row.status = "ACTIVE" THEN "SUSPENDED" ELSE "ACTIVE"]
    BY <1>5 DEF UserTable!HandleStatusChange
  <2>3. row \in UserRows
    <3>1. userPage[1].users \in Seq(UserRows)
      BY <2>1 DEF UserPages
    <3>. QED BY <2>2, <3>1 DEF UserTable!Elements
  <2>4. UserModalTyped'
    BY <2>2, <2>3 DEF UserModalTyped, UserRows, UserTable!Statuses
  <2>. QED BY <1>5, <2>4, UserQuietStep DEF UserTable!HandleStatusChange
<1>6. CASE UserTable!Cancel
  BY <1>6, UserQuietStep DEF UserTable!Cancel, UserModalTyped, UserTable!Closed
<1>7. ASSUME NEW q \in userRequests, UserTable!Serve(q) PROVE UserInv'
  <2>1. /\ q.phase = "sent"
        /\ UNCHANGED <<query, userPage, usersLoading, failed, userModal, userActing, usersAsked>>
    BY <1>7 DEF UserTable!Serve
  <2>. QED BY <1>7, <2>1, UserServeFetchStep, UserPatchStep, UserRejectStep DEF UserTable!Serve
<1>. QED BY <1>1, <1>2, <1>3, <1>4, <1>5, <1>6, <1>7, UserConfirmStep, UserFetchComesStep,
            UserPatchComesStep
         DEF UserTable!Next, userTable, UserTable!adminVars

LEMMA UserShows == UserInv => UserTable!TypeOK /\ UserTable!UsersAgree
<1> SUFFICES ASSUME UserInv PROVE UserTable!TypeOK /\ UserTable!UsersAgree
  OBVIOUS
<1>1. userModal.user \in (Members \ Staff) \cup {0} /\ userModal.action \in UserTable!Statuses \cup {"none"}
  <2>1. CASE userModal = UserTable!Closed
    BY <2>1 DEF UserTable!Closed, UserTable!Filters
  <2>2. CASE userModal.user \in Members \ Staff /\ userModal.action \in UserTable!Statuses
    BY <2>2 DEF UserTable!Filters
  <2>. QED BY <2>1, <2>2 DEF UserInv, UserTyped, UserModalTyped
<1>2. UserTable!TypeOK
  BY <1>1 DEF UserInv, UserTyped, Queries, UserTable!TypeOK
<1>3. UserTable!UsersAgree
  BY DEF UserInv, UserTable!UsersAgree, UserPageOf
<1>. QED BY <1>2, <1>3

-----------------------------------------------------------------------------
(* ContentPage, for a user who does any things U, and any number F of       *)
(* failures: the card shows the stored review, the button the stored entry. *)

Numbers    == 0 .. TitleWrites
Entries    == [id : Numbers, status : {"none", "want_to_watch", "watched"}]
ReviewRows == [id : Numbers, text : Numbers]

Changers    == {"card form", "button form", "remove", "remove both", "add"}
ButtonCalls == {"add", "check", "open", "remove", "remove both"}
AllCalls    == Changers \cup ButtonCalls \cup {"delete"}

CallStates == [at : {"idle", "sent", "done", "failed"}, id : Numbers, reply : Numbers]

ReadsTyped ==
    /\ readsAsked \in Nat /\ latest \in 0 .. readsAsked
    /\ reads \subseteq [n : Nat \ {0}, served : BOOLEAN, got : Entries]
    /\ \A q \in reads : q.n <= readsAsked /\ q.n # latest
    /\ \A q, r \in reads : q.n = r.n => q = r

LoadsTyped ==
    /\ key \in Nat
    /\ cardLoads \subseteq [key : Nat \ {0}, served : BOOLEAN, got : ReviewRows]
    /\ \A q \in cardLoads : q.key <= key
    /\ card \in [key : Nat, review : ReviewRows] /\ card.key <= key

RowsTyped ==
    /\ entry \in Entries /\ review \in ReviewRows /\ writes \in Numbers
    /\ review # [id |-> 0, text |-> 0] => entry.status = "watched"

CallsTyped ==
    /\ call \in [AllCalls -> CallStates]
    /\ \A c, d \in ButtonCalls : call[c].at # "idle" /\ call[d].at # "idle" => c = d

TitleTyped ==
    /\ RowsTyped /\ CallsTyped /\ ReadsTyped /\ LoadsTyped
    /\ button \in Entries /\ dialog \in BOOLEAN
    /\ form \in [{"card form", "button form"} -> SUBSET Numbers]
    /\ stale \in [button : BOOLEAN, card : BOOLEAN]

\* Unless a write has taken effect and the card is yet to be told, the card and
\* the loads that it will show have the stored review.
CardFresh ==
    ~stale.card /\ (\A c \in Changers \cup {"delete"} : call[c].at # "done") =>
        /\ card.key = key => card.review = review
        /\ \A q \in cardLoads : q.served /\ q.key = key => q.got = review

\* Likewise, the newest read will find or has found the stored entry.
ButtonFresh ==
    ~stale.button /\ (\A c \in Changers : call[c].at # "done") =>
        /\ \A q \in reads : q.served /\ q.n = readsAsked => q.got = entry
        /\ latest = readsAsked => button = entry

TitleInv == TitleTyped /\ CardFresh /\ ButtonFresh

\* The names of the module stand for these sets.
LEMMA TitleNames ==
  ASSUME NEW U, NEW F
  PROVE  /\ Title(U, F)!Numbers = Numbers /\ Title(U, F)!Entries = Entries
         /\ Title(U, F)!Reviews = ReviewRows
         /\ Title(U, F)!Calls = AllCalls
         /\ Title(U, F)!Forms = {"card form", "button form"}
         /\ Title(U, F)!Removals = {"remove", "remove both"}
         /\ Title(U, F)!NoReview = [id |-> 0, text |-> 0]
         /\ Title(U, F)!NoReview \in ReviewRows
         /\ Title(U, F)!NoEntry \in Entries
         /\ Title(U, F)!Unused = [at |-> "idle", id |-> 0, reply |-> 0]
         /\ Title(U, F)!Unused \in CallStates
         /\ 0 \in Numbers
<1>1. 0 \in Numbers
  BY TitleAssumption DEF Numbers
<1>2. /\ Title(U, F)!Numbers = Numbers /\ Title(U, F)!Entries = Entries
      /\ Title(U, F)!Reviews = ReviewRows
  BY DEF Title!Numbers, Title!Entries, Title!Reviews, Numbers, Entries, ReviewRows
<1>3. /\ Title(U, F)!Forms = {"card form", "button form"}
      /\ Title(U, F)!Removals = {"remove", "remove both"}
  BY DEF Title!Forms, Title!Removals
<1>4. Title(U, F)!Calls = AllCalls
  BY DEF Title!Calls, Title!Forms, Title!Removals, AllCalls, Changers, ButtonCalls
<1>5. /\ Title(U, F)!NoReview = [id |-> 0, text |-> 0]
      /\ Title(U, F)!NoReview \in ReviewRows
  BY <1>1 DEF Title!NoReview, ReviewRows
<1>6. Title(U, F)!NoEntry \in Entries
  BY <1>1 DEF Title!NoEntry, Entries
<1>7. /\ Title(U, F)!Unused = [at |-> "idle", id |-> 0, reply |-> 0]
      /\ Title(U, F)!Unused \in CallStates
  BY <1>1 DEF Title!Unused, CallStates
<1>. QED BY <1>1, <1>2, <1>3, <1>4, <1>5, <1>6, <1>7

\* A read and a load that have just been sent.
LEMMA TitleSent ==
  ASSUME NEW U, NEW F, NEW n \in Nat \ {0}
  PROVE  /\ Title(U, F)!StatusOf(n) \in [n : Nat \ {0}, served : BOOLEAN, got : Entries]
         /\ Title(U, F)!StatusOf(n).n = n /\ ~Title(U, F)!StatusOf(n).served
         /\ Title(U, F)!LoadOf(n) \in [key : Nat \ {0}, served : BOOLEAN, got : ReviewRows]
         /\ Title(U, F)!LoadOf(n).key = n /\ ~Title(U, F)!LoadOf(n).served
<1>1. Title(U, F)!NoEntry \in Entries /\ Title(U, F)!NoReview \in ReviewRows
  BY TitleNames
<1>2. Title(U, F)!StatusOf(n) = [n |-> n, served |-> FALSE, got |-> Title(U, F)!NoEntry]
  BY DEF Title!StatusOf
<1>3. Title(U, F)!LoadOf(n) = [key |-> n, served |-> FALSE, got |-> Title(U, F)!NoReview]
  BY DEF Title!LoadOf
<1>. QED BY <1>1, <1>2, <1>3

LEMMA TitleInit ==
  ASSUME NEW U, NEW F, Title(U, F)!Init
  PROVE  TitleInv
<1> DEFINE read == Title(U, F)!StatusOf(1)
           load == Title(U, F)!LoadOf(1)
<1>1. RowsTyped
  BY TitleNames DEF Title!Init, RowsTyped
<1>2. CallsTyped
  <2>1. call = [c \in AllCalls |-> [at |-> "idle", id |-> 0, reply |-> 0]]
    BY TitleNames DEF Title!Init
  <2>2. [at |-> "idle", id |-> 0, reply |-> 0] \in CallStates
    BY TitleNames DEF CallStates
  <2>3. ButtonCalls \subseteq AllCalls
    BY DEF AllCalls
  <2>. QED BY <2>1, <2>2, <2>3 DEF CallsTyped
<1>3. ReadsTyped
  <2>1. reads = {read} /\ readsAsked = 1 /\ latest = 0
    BY DEF Title!Init
  <2>2. read \in [n : Nat \ {0}, served : BOOLEAN, got : Entries] /\ read.n = 1
    BY TitleSent
  <2> HIDE DEF read
  <2>. QED BY <2>1, <2>2 DEF ReadsTyped
<1>4. cardLoads = {load} /\ key = 1 /\ card = [key |-> 0, review |-> Title(U, F)!NoReview]
  BY DEF Title!Init
<1>5. /\ load \in [key : Nat \ {0}, served : BOOLEAN, got : ReviewRows]
      /\ load.key = 1 /\ ~load.served
  BY TitleSent
<1>6. LoadsTyped
  <2>1. card \in [key : Nat, review : ReviewRows] /\ card.key = 0
    BY <1>4, TitleNames
  <2> HIDE DEF load
  <2>. QED BY <1>4, <1>5, <2>1 DEF LoadsTyped
<1>7. /\ button \in Entries /\ dialog \in BOOLEAN
      /\ stale \in [button : BOOLEAN, card : BOOLEAN]
  BY TitleNames DEF Title!Init
<1>8. form \in [{"card form", "button form"} -> SUBSET Numbers]
  BY TitleNames DEF Title!Init, Title!Closed
<1>9. CardFresh
  <2>1. card.key = 0
    BY <1>4
  <2> HIDE DEF load
  <2>. QED BY <1>4, <1>5, <2>1 DEF CardFresh
<1>10. ButtonFresh
  <2>1. reads = {read} /\ readsAsked = 1
    BY DEF Title!Init
  <2>2. read.n = 1 /\ ~read.served
    BY TitleSent
  <2>3. latest = 0
    BY DEF Title!Init
  <2> HIDE DEF read
  <2>. QED BY <2>1, <2>2, <2>3 DEF ButtonFresh
<1>. QED BY <1>1, <1>2, <1>3, <1>6, <1>7, <1>8, <1>9, <1>10 DEF TitleInv, TitleTyped

\* Only requests, forms and the dialog change, and no write that is done is forgotten.
LEMMA TitleCallStep ==
  ASSUME TitleInv, CallsTyped',
         form' \in [{"card form", "button form"} -> SUBSET Numbers], dialog' \in BOOLEAN,
         \A c \in Changers \cup {"delete"} : call[c].at = "done" => call'[c].at = "done",
         UNCHANGED <<entry, review, writes, button, readsAsked, reads, latest,
                     key, cardLoads, card, stale>>
  PROVE  TitleInv'
<1>1. TitleTyped'
  BY DEF TitleInv, TitleTyped, RowsTyped, ReadsTyped, LoadsTyped
<1>2. CardFresh'
  BY DEF TitleInv, CardFresh
<1>3. ButtonFresh'
  BY DEF TitleInv, ButtonFresh
<1>. QED BY <1>1, <1>2, <1>3 DEF TitleInv

\* One request changes.
LEMMA OneCall ==
  ASSUME CallsTyped, NEW c \in AllCalls, NEW s \in CallStates,
         call' = [call EXCEPT ![c] = s],
         c \in ButtonCalls /\ s.at # "idle" =>
             \A d \in ButtonCalls \ {c} : call[d].at = "idle"
  PROVE  /\ CallsTyped' /\ call'[c] = s
         /\ \A d \in AllCalls \ {c} : call'[d] = call[d]
<1>1. call' \in [AllCalls -> CallStates]
  BY DEF CallsTyped
<1>2. call'[c] = s /\ \A d \in AllCalls \ {c} : call'[d] = call[d]
  BY DEF CallsTyped
<1>3. ButtonCalls \subseteq AllCalls
  BY DEF AllCalls
<1>4. ASSUME NEW a \in ButtonCalls, NEW b \in ButtonCalls,
             call'[a].at # "idle", call'[b].at # "idle"
      PROVE  a = b
  <2>1. CASE a = c \/ b = c
    BY <1>2, <1>3, <1>4, <2>1
  <2>2. CASE a # c /\ b # c
    BY <1>2, <1>3, <1>4, <2>2 DEF CallsTyped
  <2>. QED BY <2>1, <2>2
<1>. QED BY <1>1, <1>2, <1>4 DEF CallsTyped

LEMMA TitleOneCallStep ==
  ASSUME TitleInv, NEW c \in AllCalls, NEW s \in CallStates,
         call' = [call EXCEPT ![c] = s],
         c \in ButtonCalls /\ s.at # "idle" =>
             \A d \in ButtonCalls \ {c} : call[d].at = "idle",
         c \in Changers \cup {"delete"} => call[c].at # "done",
         form' \in [{"card form", "button form"} -> SUBSET Numbers], dialog' \in BOOLEAN,
         UNCHANGED <<entry, review, writes, button, readsAsked, reads, latest,
                     key, cardLoads, card, stale>>
  PROVE  TitleInv'
<1>1. CallsTyped
  BY DEF TitleInv, TitleTyped
<1>2. CallsTyped' /\ \A d \in AllCalls \ {c} : call'[d] = call[d]
  BY <1>1, OneCall
<1>3. Changers \cup {"delete"} \subseteq AllCalls
  BY DEF AllCalls
<1>4. \A d \in Changers \cup {"delete"} : call[d].at = "done" => call'[d].at = "done"
  BY <1>2, <1>3
<1>. QED BY <1>2, <1>4, TitleCallStep

LEMMA ReplyIs ==
  ASSUME CallsTyped, NEW c \in AllCalls, NEW at \in {"done", "failed"}, NEW value \in Numbers,
         NEW U, NEW F, Title(U, F)!Reply(c, at, value)
  PROVE  /\ call' = [call EXCEPT ![c] = [at |-> at, id |-> call[c].id, reply |-> value]]
         /\ [at |-> at, id |-> call[c].id, reply |-> value] \in CallStates
<1>1. call[c] \in CallStates
  BY DEF CallsTyped
<1>2. [at |-> at, id |-> call[c].id, reply |-> value] \in CallStates
  BY <1>1 DEF CallStates
<1>3. call' = [call EXCEPT ![c] = [[@ EXCEPT !.at = at] EXCEPT !.reply = value]]
  BY DEF Title!Reply, CallsTyped
<1>4. [[call[c] EXCEPT !.at = at] EXCEPT !.reply = value]
        = [at |-> at, id |-> call[c].id, reply |-> value]
  <2>1. [call[c] EXCEPT !.at = at] = [at |-> at, id |-> call[c].id, reply |-> call[c].reply]
    BY <1>1 DEF CallStates
  <2>2. ASSUME NEW i, NEW r
        PROVE  [[at |-> at, id |-> i, reply |-> r] EXCEPT !.reply = value]
                 = [at |-> at, id |-> i, reply |-> value]
    OBVIOUS
  <2>. QED BY <2>1, <2>2
<1>. QED BY <1>2, <1>3, <1>4

\* A request that has been sent is refused or answered without an effect.
LEMMA TitleReplyStep ==
  ASSUME TitleInv, NEW U, NEW F, NEW c \in AllCalls, call[c].at = "sent",
         NEW at \in {"done", "failed"}, NEW value \in Numbers, Title(U, F)!Reply(c, at, value),
         UNCHANGED <<entry, review, writes, button, dialog, readsAsked, reads, latest,
                     key, cardLoads, card, form, stale>>
  PROVE  TitleInv'
<1> DEFINE s == [at |-> at, id |-> call[c].id, reply |-> value]
<1>1. CallsTyped
  BY DEF TitleInv, TitleTyped
<1>2. call' = [call EXCEPT ![c] = s] /\ s \in CallStates
  BY <1>1, ReplyIs
<1>3. c \in ButtonCalls => \A d \in ButtonCalls \ {c} : call[d].at = "idle"
  BY <1>1 DEF CallsTyped
<1>4. /\ form' \in [{"card form", "button form"} -> SUBSET Numbers] /\ dialog' \in BOOLEAN
      /\ call[c].at # "done"
  BY DEF TitleInv, TitleTyped
<1> HIDE DEF s
<1>. QED BY <1>2, <1>3, <1>4, TitleOneCallStep

LEMMA TitleRefuseStep ==
  ASSUME TitleInv, NEW U, NEW F, NEW c \in AllCalls, Title(U, F)!Refuse(c)
  PROVE  TitleInv'
<1>1. 0 \in Numbers
  BY TitleNames
<1>2. /\ call[c].at = "sent" /\ Title(U, F)!Reply(c, "failed", 0)
      /\ UNCHANGED <<entry, review, writes, button, dialog, readsAsked, reads, latest,
                     key, cardLoads, card, form, stale>>
  BY DEF Title!Refuse, Title!rows, Title!buttonUI, Title!cardUI
<1>. QED BY <1>1, <1>2, TitleReplyStep

LEMMA TitleFindReviewStep ==
  ASSUME TitleInv, NEW U, NEW F, NEW c \in AllCalls, Title(U, F)!FindReview(c)
  PROVE  TitleInv'
<1>1. review.id \in Numbers
  BY DEF TitleInv, TitleTyped, RowsTyped, ReviewRows
<1>2. /\ call[c].at = "sent" /\ Title(U, F)!Reply(c, "done", review.id)
      /\ UNCHANGED <<entry, review, writes, button, dialog, readsAsked, reads, latest,
                     key, cardLoads, card, form, stale>>
  BY DEF Title!FindReview, Title!rows, Title!buttonUI, Title!cardUI
<1>. QED BY <1>1, <1>2, TitleReplyStep

\* A caller is done with its request, which was no write that has taken effect.
LEMMA TitleEndStep ==
  ASSUME TitleInv, NEW U, NEW F, NEW c \in AllCalls, Title(U, F)!End(c),
         c \in Changers \cup {"delete"} => call[c].at # "done",
         form' \in [{"card form", "button form"} -> SUBSET Numbers], dialog' \in BOOLEAN,
         UNCHANGED <<entry, review, writes, button, readsAsked, reads, latest,
                     key, cardLoads, card, stale>>
  PROVE  TitleInv'
<1> DEFINE s == [at |-> "idle", id |-> 0, reply |-> 0]
<1>1. call' = [call EXCEPT ![c] = s] /\ s \in CallStates /\ s.at = "idle"
  BY TitleNames DEF Title!End
<1> HIDE DEF s
<1>. QED BY <1>1, TitleOneCallStep

LEMMA TitleFailedStep ==
  ASSUME TitleInv, NEW U, NEW F, NEW c \in AllCalls, Title(U, F)!Failed(c)
  PROVE  TitleInv'
<1>1. /\ call[c].at = "failed" /\ Title(U, F)!End(c)
      /\ UNCHANGED <<entry, review, writes, button, dialog, readsAsked, reads, latest,
                     key, cardLoads, card, form, stale>>
  BY DEF Title!Failed, Title!rows, Title!buttonUI, Title!cardUI
<1>2. form \in [{"card form", "button form"} -> SUBSET Numbers] /\ dialog \in BOOLEAN
  BY DEF TitleInv, TitleTyped
<1>. QED BY <1>1, <1>2, TitleEndStep

\* A request is sent by a caller that is idle, of the button's when all of them are.
LEMMA TitleSendStep ==
  ASSUME TitleInv, NEW U, NEW F, NEW c \in AllCalls, NEW id \in Numbers,
         Title(U, F)!Send(c, id), call[c].at = "idle",
         c \in ButtonCalls => ~Title(U, F)!Busy,
         dialog' \in BOOLEAN,
         UNCHANGED <<entry, review, writes, button, readsAsked, reads, latest,
                     key, cardLoads, card, form, stale>>
  PROVE  TitleInv'
<1> DEFINE s == [at |-> "sent", id |-> id, reply |-> 0]
<1>1. call' = [call EXCEPT ![c] = s]
  BY DEF Title!Send
<1>2. s \in CallStates
  BY TitleNames DEF CallStates
<1>3. ~Title(U, F)!Busy => \A d \in ButtonCalls : call[d].at = "idle"
  BY TitleNames DEF Title!Busy, Title!Idle, ButtonCalls
<1>4. form' \in [{"card form", "button form"} -> SUBSET Numbers]
  BY DEF TitleInv, TitleTyped
<1> HIDE DEF s
<1>. QED BY <1>1, <1>2, <1>3, <1>4, TitleOneCallStep

LEMMA TitleQuietStep ==
  ASSUME TitleInv, form' \in [{"card form", "button form"} -> SUBSET Numbers],
         dialog' \in BOOLEAN,
         UNCHANGED <<entry, review, writes, button, readsAsked, reads, latest,
                     key, cardLoads, card, call, stale>>
  PROVE  TitleInv'
<1>1. CallsTyped'
  BY DEF TitleInv, TitleTyped, CallsTyped
<1>. QED BY <1>1, TitleCallStep

-----------------------------------------------------------------------------
(* The server and its answers.                                              *)

LEMMA TitleEffect ==
  ASSUME RowsTyped, NEW U, NEW F, NEW c, writes < TitleWrites,
         Title(U, F)!Allowed(c), Title(U, F)!Effect(c)
  PROVE  /\ RowsTyped' /\ c \in Changers \cup {"delete"}
         /\ c = "delete" => entry' = entry
<1> DEFINE fresh == writes + 1
           watched2 == [id |-> IF entry.id = 0 THEN fresh ELSE entry.id, status |-> "watched"]
<1>1. c \in Changers \cup {"delete"}
  BY TitleNames DEF Title!Allowed, Changers
<1>2. fresh \in Numbers /\ Title(U, F)!Fresh = fresh /\ entry.id \in Numbers /\ review.id \in Numbers
  BY TitleAssumption DEF RowsTyped, Numbers, Title!Fresh, Entries, ReviewRows
<1>3. Title(U, F)!Watched = watched2 /\ watched2 \in Entries /\ watched2.status = "watched"
  BY <1>2 DEF Title!Watched, Entries
<1>8. /\ Title(U, F)!Forms = {"card form", "button form"}
      /\ Title(U, F)!Removals = {"remove", "remove both"}
      /\ Title(U, F)!NoReview = [id |-> 0, text |-> 0]
  BY TitleNames
<1> HIDE DEF fresh
<1>4. CASE c = "add"
  <2>5. c \notin Title(U, F)!Forms /\ c \notin Title(U, F)!Removals /\ c # "delete"
    BY <1>4, <1>8
  <2>6. Title(U, F)!Stored([Title(U, F)!Watched EXCEPT !.status = "want_to_watch"], review)
    BY <2>5 DEF Title!Effect
  <2>1. Title(U, F)!Stored([watched2 EXCEPT !.status = "want_to_watch"], review)
    BY <1>3, <2>6
  <2>2. [watched2 EXCEPT !.status = "want_to_watch"] \in Entries
    BY <1>3 DEF Entries
  <2>3. review = [id |-> 0, text |-> 0]
    BY <1>8, <2>5 DEF Title!Allowed
  <2> HIDE DEF watched2
  <2>4. entry' \in Entries /\ review' = review /\ writes' \in Numbers
    BY <1>2, <2>1, <2>2 DEF Title!Stored
  <2>. QED BY <1>1, <1>4, <2>3, <2>4 DEF RowsTyped
<1>5. CASE c \in {"remove", "remove both"}
  <2>1. Title(U, F)!Stored(Title(U, F)!NoEntry, Title(U, F)!NoReview)
    BY <1>5, TitleNames DEF Title!Effect
  <2>2. /\ entry' \in Entries /\ review' = [id |-> 0, text |-> 0] /\ review' \in ReviewRows
        /\ writes' \in Numbers
    BY <1>2, <2>1, TitleNames DEF Title!Stored
  <2>. QED BY <1>1, <1>5, <2>2 DEF RowsTyped
<1>6. CASE c = "delete"
  <2>1. Title(U, F)!Stored(entry, Title(U, F)!NoReview)
    <3>1. c \notin Title(U, F)!Forms /\ c \notin Title(U, F)!Removals /\ c # "add"
      BY <1>6, <1>8
    <3>. QED BY <3>1 DEF Title!Effect
  <2>2. /\ entry' = entry /\ review' = [id |-> 0, text |-> 0] /\ review' \in ReviewRows
        /\ writes' \in Numbers
    BY <1>2, <2>1, TitleNames DEF Title!Stored
  <2>. QED BY <1>1, <2>2 DEF RowsTyped
<1>7. CASE c \in {"card form", "button form"}
  <2> DEFINE r == [id |-> IF review.id = 0 THEN fresh ELSE review.id, text |-> fresh]
  <2>1. Title(U, F)!Stored(watched2, r)
    BY <1>2, <1>3, <1>7, TitleNames DEF Title!Effect
  <2>2. r \in ReviewRows
    BY <1>2 DEF ReviewRows
  <2> HIDE DEF watched2, r
  <2>3. entry' = watched2 /\ review' = r /\ writes' \in Numbers
    BY <1>2, <2>1 DEF Title!Stored
  <2>. QED BY <1>1, <1>3, <1>7, <2>2, <2>3 DEF RowsTyped
<1>. QED BY <1>1, <1>4, <1>5, <1>6, <1>7 DEF Changers

LEMMA TitleAcceptStep ==
  ASSUME TitleInv, NEW U, NEW F, NEW c \in AllCalls, Title(U, F)!Accept(c)
  PROVE  TitleInv'
<1>1. /\ call[c].at = "sent" /\ writes < TitleWrites
      /\ Title(U, F)!Allowed(c) /\ Title(U, F)!Effect(c)
      /\ UNCHANGED <<button, dialog, readsAsked, reads, latest, key, cardLoads, card, form>>
  BY DEF Title!Accept, Title!buttonUI, Title!cardUI
<1>2. /\ RowsTyped' /\ c \in Changers \cup {"delete"}
      /\ c = "delete" => entry' = entry
  BY <1>1, TitleEffect DEF TitleInv, TitleTyped
<1>3. entry'.id \in Numbers /\ 0 \in Numbers
  BY <1>2, TitleNames DEF RowsTyped, Entries
<1>4. PICK at \in {"done", "failed"}, value \in Numbers :
        /\ Title(U, F)!Reply(c, at, value)
        /\ at = "done" => UNCHANGED stale
        /\ at = "failed" => stale' = [button |-> TRUE, card |-> TRUE]
  <2>1. CASE Title(U, F)!Reply(c, "done", entry'.id) /\ UNCHANGED stale
    BY <1>3, <2>1
  <2>2. CASE Title(U, F)!Reply(c, "failed", 0) /\ stale' = [button |-> TRUE, card |-> TRUE]
    BY <1>3, <2>2
  <2>. QED BY <2>1, <2>2, Title(U, F)!Accept(c) DEF Title!Accept
<1> DEFINE s == [at |-> at, id |-> call[c].id, reply |-> value]
<1>5. CallsTyped
  BY DEF TitleInv, TitleTyped
<1>6. call' = [call EXCEPT ![c] = s] /\ s \in CallStates /\ s.at = at
  BY <1>4, <1>5, ReplyIs
<1>7. c \in ButtonCalls => \A d \in ButtonCalls \ {c} : call[d].at = "idle"
  BY <1>1, <1>5 DEF CallsTyped
<1> HIDE DEF s
<1>8. /\ CallsTyped' /\ call'[c].at = at
      /\ \A d \in AllCalls \ {c} : call'[d] = call[d]
  BY <1>5, <1>6, <1>7, OneCall
<1>9. TitleTyped'
  <2>1. stale' \in [button : BOOLEAN, card : BOOLEAN]
    <3>1. CASE at = "done"
      BY <1>4, <3>1 DEF TitleInv, TitleTyped
    <3>2. CASE at = "failed"
      <4>1. stale' = [button |-> TRUE, card |-> TRUE]
        BY <1>4, <3>2
      <4>2. [button |-> TRUE, card |-> TRUE] \in [button : BOOLEAN, card : BOOLEAN]
        OBVIOUS
      <4>. QED BY <4>1, <4>2
    <3>. QED BY <3>1, <3>2
  <2>. QED BY <1>1, <1>2, <1>8, <2>1 DEF TitleInv, TitleTyped, ReadsTyped, LoadsTyped
<1>10. at = "failed" => stale'.card /\ stale'.button
  BY <1>4
<1>11. CardFresh'
  BY <1>2, <1>8, <1>10 DEF CardFresh
<1>12. ButtonFresh'
  <2>1. CASE at = "done" /\ c = "delete"
    <3>1. Changers \subseteq AllCalls \ {c}
      BY <2>1 DEF Changers, AllCalls
    <3>2. (\A d \in Changers : call'[d].at # "done") => \A d \in Changers : call[d].at # "done"
      BY <1>8, <3>1
    <3>. QED BY <1>1, <1>2, <1>4, <2>1, <3>2 DEF TitleInv, ButtonFresh
  <2>2. CASE at = "done" /\ c # "delete"
    BY <1>2, <1>8, <2>2 DEF ButtonFresh
  <2>. QED BY <1>10, <2>1, <2>2 DEF ButtonFresh
<1>. QED BY <1>9, <1>11, <1>12 DEF TitleInv

LEMMA TitleServeReadStep ==
  ASSUME TitleInv, NEW U, NEW F, NEW q \in reads, Title(U, F)!ServeRead(q)
  PROVE  TitleInv'
<1> DEFINE new == [q EXCEPT !.served = TRUE, !.got = entry]
<1>1. /\ reads' = (reads \ {q}) \cup {new}
      /\ UNCHANGED <<entry, review, writes, button, dialog, readsAsked, latest,
                     key, cardLoads, card, call, form, stale>>
  BY DEF Title!ServeRead, Title!rows, Title!cardUI
<1>2. q \in [n : Nat \ {0}, served : BOOLEAN, got : Entries] /\ entry \in Entries
  BY DEF TitleInv, TitleTyped, ReadsTyped, RowsTyped
<1>3. /\ new \in [n : Nat \ {0}, served : BOOLEAN, got : Entries]
      /\ new.n = q.n /\ new.got = entry
  BY <1>2
<1> HIDE DEF new
<1>4. ReadsTyped'
  BY <1>1, <1>3 DEF TitleInv, TitleTyped, ReadsTyped
<1>5. TitleTyped'
  BY <1>1, <1>4 DEF TitleInv, TitleTyped, RowsTyped, CallsTyped, LoadsTyped
<1>6. CardFresh'
  BY <1>1 DEF TitleInv, CardFresh
<1>7. ButtonFresh'
  BY <1>1, <1>3 DEF TitleInv, ButtonFresh
<1>. QED BY <1>5, <1>6, <1>7 DEF TitleInv

LEMMA TitleStatusReadStep ==
  ASSUME TitleInv, NEW U, NEW F, NEW q \in reads, Title(U, F)!StatusRead(q)
  PROVE  TitleInv'
<1>1. /\ q.served /\ reads' = reads \ {q} /\ button' = q.got /\ latest' = q.n
      /\ UNCHANGED <<entry, review, writes, dialog, readsAsked, key, cardLoads, card, call,
                     form, stale>>
  BY DEF Title!StatusRead, Title!rows, Title!cardUI
<1>2. /\ q \in [n : Nat \ {0}, served : BOOLEAN, got : Entries]
      /\ q.n <= readsAsked /\ q.n # latest /\ readsAsked \in Nat /\ latest \in Nat
      /\ latest <= readsAsked
  <2>1. ReadsTyped
    BY DEF TitleInv, TitleTyped
  <2>2. /\ q \in [n : Nat \ {0}, served : BOOLEAN, got : Entries]
        /\ q.n <= readsAsked /\ q.n # latest
    BY <2>1 DEF ReadsTyped
  <2>3. readsAsked \in Nat /\ latest \in 0 .. readsAsked
    BY <2>1 DEF ReadsTyped
  <2>. QED BY <2>2, <2>3
<1>7. \A r, p \in reads : r.n = p.n => r = p
  BY DEF TitleInv, TitleTyped, ReadsTyped
<1>3. ReadsTyped'
  <2>1. latest' \in 0 .. readsAsked'
    BY <1>1, <1>2
  <2>2. \A r \in reads' : r.n <= readsAsked' /\ r.n # latest'
    BY <1>1, <1>7 DEF TitleInv, TitleTyped, ReadsTyped
  <2>. QED BY <1>1, <1>2, <1>7, <2>1, <2>2 DEF TitleInv, TitleTyped, ReadsTyped
<1>4. TitleTyped'
  BY <1>1, <1>2, <1>3 DEF TitleInv, TitleTyped, RowsTyped, CallsTyped, LoadsTyped
<1>5. CardFresh'
  BY <1>1 DEF TitleInv, CardFresh
<1>6. ButtonFresh'
  <2>1. SUFFICES ASSUME ~stale.button, \A c \in Changers : call[c].at # "done"
                 PROVE  /\ \A r \in reads \ {q} : r.served /\ r.n = readsAsked => r.got = entry
                        /\ q.n = readsAsked => q.got = entry
    BY <1>1 DEF ButtonFresh
  <2>. QED BY <1>1, <2>1 DEF TitleInv, ButtonFresh
<1>. QED BY <1>4, <1>5, <1>6 DEF TitleInv

LEMMA TitleReadFailsStep ==
  ASSUME TitleInv, NEW U, NEW F, NEW q \in reads, Title(U, F)!StatusReadFails(q)
  PROVE  TitleInv'
<1>1. /\ reads' = reads \ {q} /\ stale' = [stale EXCEPT !.button = TRUE]
      /\ UNCHANGED <<entry, review, writes, button, dialog, readsAsked, latest,
                     key, cardLoads, card, call, form>>
  BY DEF Title!StatusReadFails, Title!rows, Title!cardUI
<1>2. /\ stale' \in [button : BOOLEAN, card : BOOLEAN]
      /\ stale'.button /\ stale'.card = stale.card
  BY <1>1 DEF TitleInv, TitleTyped
<1>3. TitleTyped'
  BY <1>1, <1>2 DEF TitleInv, TitleTyped, RowsTyped, CallsTyped, LoadsTyped, ReadsTyped
<1>. QED BY <1>1, <1>2, <1>3 DEF TitleInv, CardFresh, ButtonFresh

LEMMA TitleServeLoadStep ==
  ASSUME TitleInv, NEW U, NEW F, NEW q \in cardLoads, Title(U, F)!ServeLoad(q)
  PROVE  TitleInv'
<1> DEFINE new == [q EXCEPT !.served = TRUE, !.got = review]
<1>1. /\ cardLoads' = (cardLoads \ {q}) \cup {new}
      /\ UNCHANGED <<entry, review, writes, button, dialog, readsAsked, reads, latest,
                     key, card, call, form, stale>>
  BY DEF Title!ServeLoad, Title!rows, Title!buttonUI
<1>2. q \in [key : Nat \ {0}, served : BOOLEAN, got : ReviewRows] /\ review \in ReviewRows
  BY DEF TitleInv, TitleTyped, LoadsTyped, RowsTyped
<1>3. /\ new \in [key : Nat \ {0}, served : BOOLEAN, got : ReviewRows]
      /\ new.key = q.key /\ new.got = review
  BY <1>2
<1> HIDE DEF new
<1>4. LoadsTyped'
  BY <1>1, <1>3 DEF TitleInv, TitleTyped, LoadsTyped
<1>5. TitleTyped'
  BY <1>1, <1>4 DEF TitleInv, TitleTyped, RowsTyped, CallsTyped, ReadsTyped
<1>6. ButtonFresh'
  BY <1>1 DEF TitleInv, ButtonFresh
<1>7. CardFresh'
  BY <1>1, <1>3 DEF TitleInv, CardFresh
<1>. QED BY <1>5, <1>6, <1>7 DEF TitleInv

\* A load ends and is shown, or is too late.
LEMMA TitleLoadedStep ==
  ASSUME TitleInv, NEW U, NEW F, NEW q \in cardLoads, NEW r \in ReviewRows,
         Title(U, F)!Loaded(q, r), cardLoads' = cardLoads \ {q},
         stale' \in [button : BOOLEAN, card : BOOLEAN], stale'.button = stale.button,
         ~stale'.card => ~stale.card /\ (q.key = key => q.served /\ r = q.got),
         UNCHANGED <<entry, review, writes, button, dialog, readsAsked, reads, latest,
                     key, call, form>>
  PROVE  TitleInv'
<1>1. card' = IF q.key = key THEN [key |-> key, review |-> r] ELSE card
  BY DEF Title!Loaded
<1>2. card' \in [key : Nat, review : ReviewRows] /\ card'.key <= key
  BY <1>1 DEF TitleInv, TitleTyped, LoadsTyped
<1>3. LoadsTyped'
  BY <1>2 DEF TitleInv, TitleTyped, LoadsTyped
<1>4. TitleTyped'
  BY <1>3 DEF TitleInv, TitleTyped, RowsTyped, CallsTyped, ReadsTyped
<1>5. ButtonFresh'
  BY DEF TitleInv, ButtonFresh
<1>6. CardFresh'
  BY <1>1 DEF TitleInv, CardFresh
<1>. QED BY <1>4, <1>5, <1>6 DEF TitleInv

LEMMA TitleCardLoadedStep ==
  ASSUME TitleInv, NEW U, NEW F, NEW q \in cardLoads,
         Title(U, F)!CardLoaded(q) \/ Title(U, F)!CardLoadFails(q)
  PROVE  TitleInv'
<1>1. q.got \in ReviewRows /\ Title(U, F)!NoReview \in ReviewRows
  BY TitleNames DEF TitleInv, TitleTyped, LoadsTyped
<1>2. cardLoads' = cardLoads \ {q}
      /\ UNCHANGED <<entry, review, writes, button, dialog, readsAsked, reads, latest,
                     key, call, form>>
  BY DEF Title!CardLoaded, Title!CardLoadFails, Title!rows, Title!buttonUI
<1>3. CASE Title(U, F)!CardLoaded(q)
  <2>1. Title(U, F)!Loaded(q, q.got) /\ UNCHANGED stale /\ q.served
    BY <1>3 DEF Title!CardLoaded
  <2>2. stale' \in [button : BOOLEAN, card : BOOLEAN]
    BY <2>1 DEF TitleInv, TitleTyped
  <2>. QED BY <1>1, <1>2, <2>1, <2>2, TitleLoadedStep
<1>4. CASE Title(U, F)!CardLoadFails(q)
  <2>1. /\ Title(U, F)!Loaded(q, Title(U, F)!NoReview)
        /\ stale' = [stale EXCEPT !.card = @ \/ q.key = key]
    BY <1>4 DEF Title!CardLoadFails
  <2>2. /\ stale' \in [button : BOOLEAN, card : BOOLEAN] /\ stale'.button = stale.button
        /\ ~stale'.card => ~stale.card /\ q.key # key
    BY <2>1 DEF TitleInv, TitleTyped
  <2>. QED BY <1>1, <1>2, <2>1, <2>2, TitleLoadedStep
<1>. QED BY <1>3, <1>4

-----------------------------------------------------------------------------
(* The button, the card and the forms.                                      *)

\* A new key: the card is hidden until a load that has just been sent ends.
LEMMA TitleReload ==
  ASSUME LoadsTyped, NEW U, NEW F, Title(U, F)!Reload
  PROVE  /\ LoadsTyped' /\ card'.key # key'
         /\ \A q \in cardLoads' : q.key = key' => ~q.served
<1> DEFINE new == Title(U, F)!LoadOf(key + 1)
<1>1. key' = key + 1 /\ cardLoads' = cardLoads \cup {new} /\ card' = card
  BY DEF Title!Reload
<1>2. key \in Nat /\ key + 1 \in Nat \ {0}
  BY DEF LoadsTyped
<1>3. /\ new \in [key : Nat \ {0}, served : BOOLEAN, got : ReviewRows]
      /\ new.key = key + 1 /\ ~new.served
  BY <1>2, TitleSent
<1> HIDE DEF new
<1>4. /\ cardLoads \subseteq [key : Nat \ {0}, served : BOOLEAN, got : ReviewRows]
      /\ \A q \in cardLoads : q.key \in Nat /\ q.key <= key
      /\ card \in [key : Nat, review : ReviewRows] /\ card.key \in Nat /\ card.key <= key
  BY DEF LoadsTyped
<1>5. \A q \in cardLoads' : q.key <= key'
  BY <1>1, <1>2, <1>3, <1>4
<1>6. card'.key # key' /\ card'.key <= key'
  BY <1>1, <1>2, <1>4
<1>7. \A q \in cardLoads' : q.key = key' => ~q.served
  BY <1>1, <1>2, <1>3, <1>4
<1>. QED BY <1>1, <1>2, <1>3, <1>4, <1>5, <1>6, <1>7 DEF LoadsTyped

\* A new status read, which is the newest.
LEMMA TitleRead ==
  ASSUME ReadsTyped, NEW U, NEW F, Title(U, F)!ReadStatus, latest' = latest
  PROVE  /\ ReadsTyped'
         /\ \A q \in reads' : q.n = readsAsked' => ~q.served
         /\ latest # readsAsked'
<1> DEFINE new == Title(U, F)!StatusOf(readsAsked + 1)
<1>1. readsAsked' = readsAsked + 1 /\ reads' = reads \cup {new}
  BY DEF Title!ReadStatus
<1>2. /\ readsAsked \in Nat /\ readsAsked + 1 \in Nat \ {0}
      /\ latest \in Nat /\ latest <= readsAsked
  BY DEF ReadsTyped
<1>3. /\ new \in [n : Nat \ {0}, served : BOOLEAN, got : Entries]
      /\ new.n = readsAsked + 1 /\ ~new.served
  BY <1>2, TitleSent
<1> HIDE DEF new
<1>4. /\ reads \subseteq [n : Nat \ {0}, served : BOOLEAN, got : Entries]
      /\ \A q \in reads : q.n \in Nat /\ q.n <= readsAsked /\ q.n # latest
      /\ \A q, r \in reads : q.n = r.n => q = r
  BY DEF ReadsTyped
<1>5. \A q \in reads' : q.n <= readsAsked' /\ q.n # latest'
  BY <1>1, <1>2, <1>3, <1>4
<1>6. \A q, r \in reads' : q.n = r.n => q = r
  BY <1>1, <1>2, <1>3, <1>4
<1>7. latest' \in 0 .. readsAsked' /\ readsAsked' \in Nat
  BY <1>1, <1>2
<1>8. \A q \in reads' : q.n = readsAsked' => ~q.served
  BY <1>1, <1>2, <1>3, <1>4
<1>9. latest # readsAsked'
  BY <1>1, <1>2
<1>. QED BY <1>1, <1>3, <1>4, <1>5, <1>6, <1>7, <1>8, <1>9 DEF ReadsTyped

LEMMA TitleUpdatedStep ==
  ASSUME TitleInv, NEW U, NEW F, Title(U, F)!Updated, CallsTyped', button' \in Entries,
         form' \in [{"card form", "button form"} -> SUBSET Numbers], dialog' \in BOOLEAN,
         UNCHANGED <<entry, review, writes, latest>>
  PROVE  TitleInv'
<1>1. RowsTyped' /\ LoadsTyped /\ ReadsTyped
  BY DEF TitleInv, TitleTyped, RowsTyped
<1>2. /\ Title(U, F)!Reload /\ Title(U, F)!ReadStatus
      /\ stale' = [button |-> FALSE, card |-> FALSE]
  BY DEF Title!Updated
<1>3. /\ LoadsTyped' /\ card'.key # key'
      /\ \A q \in cardLoads' : q.key = key' => ~q.served
  BY <1>1, <1>2, TitleReload
<1>4. /\ ReadsTyped'
      /\ \A q \in reads' : q.n = readsAsked' => ~q.served
      /\ latest # readsAsked'
  BY <1>1, <1>2, TitleRead
<1>5. stale' \in [button : BOOLEAN, card : BOOLEAN]
  <2>1. [button |-> FALSE, card |-> FALSE] \in [button : BOOLEAN, card : BOOLEAN]
    OBVIOUS
  <2>. QED BY <1>2, <2>1
<1>6. TitleTyped'
  BY <1>1, <1>3, <1>4, <1>5 DEF TitleInv, TitleTyped
<1>7. CardFresh'
  BY <1>3 DEF CardFresh
<1>8. ButtonFresh'
  BY <1>4 DEF ButtonFresh
<1>. QED BY <1>6, <1>7, <1>8 DEF TitleInv

\* A caller whose request is over is idle again.
LEMMA TitleEnds ==
  ASSUME CallsTyped, NEW U, NEW F, NEW c \in AllCalls, Title(U, F)!End(c)
  PROVE  /\ CallsTyped'
         /\ \A d \in AllCalls \ {c} : call'[d] = call[d]
<1> DEFINE s == [at |-> "idle", id |-> 0, reply |-> 0]
<1>1. call' = [call EXCEPT ![c] = s] /\ s \in CallStates /\ s.at = "idle"
  BY TitleNames DEF Title!End
<1> HIDE DEF s
<1>. QED BY <1>1, OneCall

LEMMA TitleForms ==
  ASSUME form \in [{"card form", "button form"} -> SUBSET Numbers], NEW U, NEW F
  PROVE  /\ Title(U, F)!Cleared \in [{"card form", "button form"} -> SUBSET Numbers]
         /\ \A f \in {"card form", "button form"} :
              /\ [form EXCEPT ![f] = Title(U, F)!Closed]
                   \in [{"card form", "button form"} -> SUBSET Numbers]
              /\ [Title(U, F)!Cleared EXCEPT ![f] = Title(U, F)!Closed]
                   \in [{"card form", "button form"} -> SUBSET Numbers]
<1>1. Title(U, F)!Closed \in SUBSET Numbers
  BY DEF Title!Closed
<1>2. Title(U, F)!Cleared \in [{"card form", "button form"} -> SUBSET Numbers]
  BY <1>1 DEF Title!Cleared
<1>. QED BY <1>1, <1>2

LEMMA TitleChangedStep ==
  ASSUME TitleInv, NEW U, NEW F, NEW c \in AllCalls, Title(U, F)!Changed(c)
  PROVE  TitleInv'
<1>1. /\ Title(U, F)!End(c) /\ Title(U, F)!Updated /\ form' = Title(U, F)!Cleared
      /\ dialog' = (dialog /\ c # "remove both")
      /\ button' = IF c = "add" THEN [id |-> call[c].reply, status |-> "want_to_watch"]
                                ELSE Title(U, F)!NoEntry
      /\ UNCHANGED <<entry, review, writes, latest>>
  BY DEF Title!Changed, Title!rows
<1>2. CallsTyped /\ form \in [{"card form", "button form"} -> SUBSET Numbers]
  BY DEF TitleInv, TitleTyped
<1>3. CallsTyped'
  BY <1>1, <1>2, TitleEnds
<1>4. form' \in [{"card form", "button form"} -> SUBSET Numbers]
  BY <1>1, <1>2, TitleForms
<1>5. button' \in Entries
  <2>1. call[c].reply \in Numbers
    BY <1>2 DEF CallsTyped, CallStates
  <2>2. [id |-> call[c].reply, status |-> "want_to_watch"] \in Entries
    BY <2>1 DEF Entries
  <2>. QED BY <1>1, <2>2, TitleNames
<1>6. dialog' \in BOOLEAN
  BY <1>1
<1>. QED BY <1>1, <1>3, <1>4, <1>5, <1>6, TitleUpdatedStep

LEMMA TitleSubmittedStep ==
  ASSUME TitleInv, NEW U, NEW F, NEW f \in {"card form", "button form"},
         Title(U, F)!Submitted(f)
  PROVE  TitleInv'
<1>1. /\ Title(U, F)!End(f) /\ Title(U, F)!Updated
      /\ form' = [Title(U, F)!Cleared EXCEPT ![f] = Title(U, F)!Closed]
      /\ UNCHANGED <<entry, review, writes, button, dialog, latest>>
  BY DEF Title!Submitted, Title!rows
<1>2. /\ CallsTyped /\ form \in [{"card form", "button form"} -> SUBSET Numbers]
      /\ button' \in Entries /\ dialog' \in BOOLEAN
  BY <1>1 DEF TitleInv, TitleTyped
<1>3. f \in AllCalls
  BY DEF AllCalls, Changers
<1>4. CallsTyped'
  BY <1>1, <1>2, <1>3, TitleEnds
<1>5. form' \in [{"card form", "button form"} -> SUBSET Numbers]
  BY <1>1, <1>2, TitleForms
<1>. QED BY <1>1, <1>2, <1>4, <1>5, TitleUpdatedStep

LEMMA TitleDeletedStep ==
  ASSUME TitleInv, NEW U, NEW F, Title(U, F)!Deleted
  PROVE  TitleInv'
<1>1. /\ Title(U, F)!End("delete") /\ Title(U, F)!Reload
      /\ stale' = [stale EXCEPT !.card = FALSE] /\ form' = Title(U, F)!Cleared
      /\ UNCHANGED <<entry, review, writes, button, dialog, readsAsked, reads, latest>>
  BY DEF Title!Deleted, Title!rows, Title!buttonUI
<1>2. /\ CallsTyped /\ LoadsTyped
      /\ form \in [{"card form", "button form"} -> SUBSET Numbers]
      /\ stale \in [button : BOOLEAN, card : BOOLEAN]
  BY DEF TitleInv, TitleTyped
<1>3. "delete" \in AllCalls /\ Changers \subseteq AllCalls \ {"delete"}
  BY DEF AllCalls, Changers
<1>4. CallsTyped' /\ \A d \in AllCalls \ {"delete"} : call'[d] = call[d]
  BY <1>1, <1>2, <1>3, TitleEnds
<1>5. form' \in [{"card form", "button form"} -> SUBSET Numbers]
  BY <1>1, <1>2, TitleForms
<1>6. /\ LoadsTyped' /\ card'.key # key'
      /\ \A q \in cardLoads' : q.key = key' => ~q.served
  BY <1>1, <1>2, TitleReload
<1>7. stale' \in [button : BOOLEAN, card : BOOLEAN] /\ stale'.button = stale.button
  BY <1>1, <1>2
<1>8. TitleTyped'
  BY <1>1, <1>4, <1>5, <1>6, <1>7 DEF TitleInv, TitleTyped, RowsTyped, ReadsTyped
<1>9. CardFresh'
  BY <1>6 DEF CardFresh
<1>10. ButtonFresh'
  BY <1>1, <1>3, <1>4, <1>7 DEF TitleInv, ButtonFresh
<1>. QED BY <1>8, <1>9, <1>10 DEF TitleInv

LEMMA TitleClickStep ==
  ASSUME TitleInv, NEW U, NEW F, Title(U, F)!Click
  PROVE  TitleInv'
<1>1. /\ ~Title(U, F)!Busy
      /\ \/ Title(U, F)!Send("add", 0)
         \/ Title(U, F)!Send("open", 0)
         \/ Title(U, F)!Send("check", button.id)
      /\ UNCHANGED <<entry, review, writes, button, dialog, readsAsked, reads, latest,
                     key, cardLoads, card, form, stale>>
  BY DEF Title!Click, Title!rows, Title!buttonUI, Title!cardUI
<1>2. PICK c \in {"add", "open", "check"}, id \in {0, button.id} : Title(U, F)!Send(c, id)
  BY <1>1
<1>3. c \in AllCalls /\ c \in ButtonCalls
  BY DEF AllCalls, ButtonCalls
<1>4. id \in Numbers /\ dialog' \in BOOLEAN
  BY <1>1, TitleNames DEF TitleInv, TitleTyped, Entries
<1>5. call[c].at = "idle"
  BY <1>1, <1>3, TitleNames DEF Title!Busy, Title!Idle, ButtonCalls
<1>. QED BY <1>1, <1>2, <1>3, <1>4, <1>5, TitleSendStep

LEMMA TitleConfirmStep ==
  ASSUME TitleInv, NEW U, NEW F, Title(U, F)!Confirm
  PROVE  TitleInv'
<1>1. /\ ~Title(U, F)!Busy
      /\ UNCHANGED <<entry, review, writes, button, readsAsked, reads, latest,
                     key, cardLoads, card, form, stale>>
      /\ \/ Title(U, F)!Send("remove both", button.id) /\ UNCHANGED dialog
         \/ dialog' = FALSE /\ UNCHANGED call
  BY DEF Title!Confirm, Title!rows, Title!cardUI
<1>2. /\ dialog \in BOOLEAN /\ button.id \in Numbers
      /\ form \in [{"card form", "button form"} -> SUBSET Numbers]
  BY DEF TitleInv, TitleTyped, Entries
<1>3. CASE Title(U, F)!Send("remove both", button.id) /\ UNCHANGED dialog
  <2>1. "remove both" \in AllCalls /\ "remove both" \in ButtonCalls
    BY DEF AllCalls, ButtonCalls
  <2>2. call["remove both"].at = "idle"
    BY <1>1, TitleNames DEF Title!Busy, Title!Idle
  <2>. QED BY <1>1, <1>2, <1>3, <2>1, <2>2, TitleSendStep
<1>4. CASE dialog' = FALSE /\ UNCHANGED call
  BY <1>1, <1>2, <1>4, TitleQuietStep
<1>. QED BY <1>1, <1>3, <1>4

LEMMA TitleCheckedStep ==
  ASSUME TitleInv, NEW U, NEW F, Title(U, F)!Checked
  PROVE  TitleInv'
<1>1. /\ call["check"].at \in {"done", "failed"}
      /\ UNCHANGED <<entry, review, writes, button, readsAsked, reads, latest,
                     key, cardLoads, card, form, stale>>
      /\ \/ dialog' = TRUE /\ Title(U, F)!End("check")
         \/ /\ call' = [call EXCEPT !["check"] = Title(U, F)!Unused,
                          !["remove"] = [at |-> "sent", id |-> button.id, reply |-> 0]]
            /\ UNCHANGED dialog
  BY DEF Title!Checked, Title!rows, Title!cardUI
<1>2. /\ dialog \in BOOLEAN /\ button.id \in Numbers /\ CallsTyped
      /\ form \in [{"card form", "button form"} -> SUBSET Numbers]
  BY DEF TitleInv, TitleTyped, Entries
<1>3. /\ "check" \in AllCalls /\ "check" \in ButtonCalls
      /\ "remove" \in AllCalls /\ "remove" \in ButtonCalls
      /\ ButtonCalls \subseteq AllCalls
      /\ "check" \notin Changers \cup {"delete"}
      /\ Changers \cup {"delete"} \subseteq AllCalls
  BY DEF AllCalls, ButtonCalls, Changers
<1>4. CASE dialog' = TRUE /\ Title(U, F)!End("check")
  BY <1>1, <1>2, <1>3, <1>4, TitleEndStep
<1>5. CASE /\ call' = [call EXCEPT !["check"] = Title(U, F)!Unused,
                         !["remove"] = [at |-> "sent", id |-> button.id, reply |-> 0]]
           /\ UNCHANGED dialog
  <2> DEFINE unused == [at |-> "idle", id |-> 0, reply |-> 0]
             s == [at |-> "sent", id |-> button.id, reply |-> 0]
  <2>1. /\ unused \in CallStates /\ s \in CallStates /\ unused.at = "idle"
        /\ Title(U, F)!Unused = unused
    BY <1>2, TitleNames DEF CallStates
  <2>2. \A d \in ButtonCalls \ {"check"} : call[d].at = "idle"
    BY <1>1, <1>2, <1>3 DEF CallsTyped
  <2>3. call["remove"].at = "idle"
    BY <1>3, <2>2
  <2>4. call' = [call EXCEPT !["check"] = unused, !["remove"] = s]
    BY <1>5, <2>1
  <2> HIDE DEF unused, s
  <2>5. /\ call' \in [AllCalls -> CallStates]
        /\ call'["check"].at = "idle"
        /\ \A d \in AllCalls \ {"check", "remove"} : call'[d] = call[d]
    BY <1>2, <1>3, <2>1, <2>4 DEF CallsTyped
  <2>6. \A d \in ButtonCalls : call'[d].at # "idle" => d = "remove"
    BY <1>3, <2>2, <2>5
  <2>7. CallsTyped'
    BY <2>5, <2>6 DEF CallsTyped
  <2>8. \A d \in Changers \cup {"delete"} : call[d].at = "done" => call'[d].at = "done"
    BY <1>3, <2>3, <2>5
  <2>. QED BY <1>1, <1>2, <1>5, <2>7, <2>8, TitleCallStep
<1>. QED BY <1>1, <1>4, <1>5

LEMMA TitleOpenedStep ==
  ASSUME TitleInv, NEW U, NEW F, Title(U, F)!Opened
  PROVE  TitleInv'
<1>1. /\ form' = [form EXCEPT !["button form"] = {call["open"].reply}]
      /\ Title(U, F)!End("open")
      /\ UNCHANGED <<entry, review, writes, button, dialog, readsAsked, reads, latest,
                     key, cardLoads, card, stale>>
  BY DEF Title!Opened, Title!rows, Title!buttonUI, Title!cardUI
<1>2. /\ "open" \in AllCalls /\ "open" \notin Changers \cup {"delete"}
  BY DEF AllCalls, ButtonCalls, Changers
<1>3. /\ CallsTyped /\ dialog' \in BOOLEAN
      /\ form \in [{"card form", "button form"} -> SUBSET Numbers]
  BY <1>1 DEF TitleInv, TitleTyped
<1>4. call["open"].reply \in Numbers
  BY <1>2, <1>3 DEF CallsTyped, CallStates
<1>5. form' \in [{"card form", "button form"} -> SUBSET Numbers]
  BY <1>1, <1>3, <1>4
<1>. QED BY <1>1, <1>2, <1>3, <1>5, TitleEndStep

LEMMA TitleFormStep ==
  ASSUME TitleInv, NEW U, NEW F,
         \/ Title(U, F)!OpenCardForm
         \/ \E f \in {"card form", "button form"} : Title(U, F)!CloseForm(f)
  PROVE  TitleInv'
<1>1. /\ form \in [{"card form", "button form"} -> SUBSET Numbers] /\ dialog \in BOOLEAN
      /\ card.review.id \in Numbers
  BY DEF TitleInv, TitleTyped, LoadsTyped, ReviewRows
<1>2. UNCHANGED <<entry, review, writes, button, dialog, readsAsked, reads, latest,
                  key, cardLoads, card, call, stale>>
  BY DEF Title!OpenCardForm, Title!CloseForm, Title!rows, Title!buttonUI, Title!cardUI
<1>3. CASE Title(U, F)!OpenCardForm
  <2>1. form' = [form EXCEPT !["card form"] = {card.review.id}]
    BY <1>3 DEF Title!OpenCardForm
  <2>2. form' \in [{"card form", "button form"} -> SUBSET Numbers]
    BY <1>1, <2>1
  <2>. QED BY <1>1, <1>2, <2>2, TitleQuietStep
<1>4. CASE \E f \in {"card form", "button form"} : Title(U, F)!CloseForm(f)
  <2>1. PICK f \in {"card form", "button form"} : form' = [form EXCEPT ![f] = Title(U, F)!Closed]
    BY <1>4 DEF Title!CloseForm
  <2>2. form' \in [{"card form", "button form"} -> SUBSET Numbers]
    BY <1>1, <2>1, TitleForms
  <2>. QED BY <1>1, <1>2, <2>2, TitleQuietStep
<1>. QED BY <1>3, <1>4

LEMMA TitleSubmitStep ==
  ASSUME TitleInv, NEW U, NEW F,
         \/ \E f \in {"card form", "button form"} : Title(U, F)!Submit(f)
         \/ Title(U, F)!Delete
  PROVE  TitleInv'
<1>1. UNCHANGED <<entry, review, writes, button, dialog, readsAsked, reads, latest,
                  key, cardLoads, card, form, stale>>
  BY DEF Title!Submit, Title!Delete, Title!rows, Title!buttonUI, Title!cardUI
<1>2. /\ form \in [{"card form", "button form"} -> SUBSET Numbers] /\ dialog' \in BOOLEAN
      /\ card.review.id \in Numbers
  BY <1>1 DEF TitleInv, TitleTyped, LoadsTyped, ReviewRows
<1>3. PICK c \in {"card form", "button form", "delete"}, id \in Numbers :
        call[c].at = "idle" /\ Title(U, F)!Send(c, id)
  <2>1. CASE Title(U, F)!Delete
    BY <1>2, <2>1 DEF Title!Delete, Title!Idle
  <2>2. CASE \E f \in {"card form", "button form"} : Title(U, F)!Submit(f)
    <3>1. PICK f \in {"card form", "button form"} : Title(U, F)!Submit(f)
      BY <2>2
    <3>2. PICK id \in form[f] : call[f].at = "idle" /\ Title(U, F)!Send(f, id)
      BY <3>1 DEF Title!Submit, Title!Idle
    <3>3. id \in Numbers
      BY <1>2, <3>2
    <3>. QED BY <3>2, <3>3
  <2>. QED BY <2>1, <2>2
<1>4. c \in AllCalls /\ c \notin ButtonCalls
  BY DEF AllCalls, ButtonCalls, Changers
<1>. QED BY <1>1, <1>2, <1>3, <1>4, TitleSendStep

\* TitleInv is inductive.
LEMMA TitleStep ==
  ASSUME TitleInv, NEW U, NEW F, Title(U, F)!Next
  PROVE  TitleInv'
<1>1. /\ Title(U, F)!Calls = AllCalls
      /\ Title(U, F)!Forms = {"card form", "button form"}
  BY TitleNames
<1>2. CASE \E c \in AllCalls :
             \/ Title(U, F)!Accept(c) \/ Title(U, F)!Refuse(c) \/ Title(U, F)!FindReview(c)
             \/ Title(U, F)!Changed(c) \/ Title(U, F)!Failed(c)
  BY <1>2, TitleAcceptStep, TitleRefuseStep, TitleFindReviewStep, TitleChangedStep,
     TitleFailedStep
<1>3. CASE \E q \in reads :
             \/ Title(U, F)!ServeRead(q) \/ Title(U, F)!StatusRead(q)
             \/ Title(U, F)!StatusReadFails(q)
  BY <1>3, TitleServeReadStep, TitleStatusReadStep, TitleReadFailsStep
<1>4. CASE \E q \in cardLoads :
             \/ Title(U, F)!ServeLoad(q) \/ Title(U, F)!CardLoaded(q)
             \/ Title(U, F)!CardLoadFails(q)
  BY <1>4, TitleServeLoadStep, TitleCardLoadedStep
<1>5. CASE \/ Title(U, F)!Click \/ Title(U, F)!Confirm \/ Title(U, F)!Checked
           \/ Title(U, F)!Opened \/ Title(U, F)!OpenCardForm \/ Title(U, F)!Delete
           \/ Title(U, F)!Deleted
  BY <1>5, TitleClickStep, TitleConfirmStep, TitleCheckedStep, TitleOpenedStep, TitleFormStep,
     TitleSubmitStep, TitleDeletedStep
<1>6. CASE \E f \in {"card form", "button form"} :
             \/ Title(U, F)!CloseForm(f) \/ Title(U, F)!Submit(f) \/ Title(U, F)!Submitted(f)
  BY <1>6, TitleFormStep, TitleSubmitStep, TitleSubmittedStep
<1>. QED BY <1>1, <1>2, <1>3, <1>4, <1>5, <1>6 DEF Title!Next

LEMMA TitleShows ==
  ASSUME TitleInv, NEW U, NEW F
  PROVE  /\ Title(U, F)!TypeOK /\ Title(U, F)!CardShowsSaved
         /\ Title(U, F)!ButtonShowsSaved
<1>1. /\ Title(U, F)!Numbers = Numbers /\ Title(U, F)!Entries = Entries
      /\ Title(U, F)!Reviews = ReviewRows /\ Title(U, F)!Calls = AllCalls
      /\ Title(U, F)!Forms = {"card form", "button form"}
      /\ Title(U, F)!NoReview = [id |-> 0, text |-> 0]
  BY TitleNames
<1>2. RowsTyped /\ CallsTyped /\ ReadsTyped /\ LoadsTyped
  BY DEF TitleInv, TitleTyped
<1>3. Title(U, F)!TypeOK
  <2>1. \A c \in AllCalls : /\ call[c].at \in {"idle", "sent", "done", "failed"}
                            /\ call[c].id \in Numbers /\ call[c].reply \in Numbers
    BY <1>2 DEF CallsTyped, CallStates
  <2>2. \A q \in reads : q.n \in 1 .. readsAsked /\ q.got \in Entries
    BY <1>2 DEF ReadsTyped
  <2>3. \A q \in cardLoads : q.key \in 1 .. key /\ q.got \in ReviewRows
    BY <1>2 DEF LoadsTyped
  <2>4. card.key \in 0 .. key /\ card.review \in ReviewRows
    BY <1>2 DEF LoadsTyped
  <2>5. /\ button \in Entries /\ dialog \in BOOLEAN
        /\ form \in [{"card form", "button form"} -> SUBSET Numbers]
    BY DEF TitleInv, TitleTyped
  <2>. QED BY <1>1, <1>2, <2>1, <2>2, <2>3, <2>4, <2>5 DEF Title!TypeOK, RowsTyped
<1>4. Title(U, F)!Quiet => \A c \in Changers \cup {"delete"} : call[c].at = "idle"
  <2>1. Changers \cup {"delete"} \subseteq AllCalls \ {"check", "open"}
    BY DEF AllCalls, Changers
  <2>. QED BY <1>1, <2>1 DEF Title!Quiet, Title!Idle
<1>5. Title(U, F)!CardShowsSaved
  BY <1>4 DEF Title!CardShowsSaved, Title!CardShown, TitleInv, CardFresh
<1>6. Title(U, F)!ButtonShowsSaved
  <2>1. SUFFICES ASSUME Title(U, F)!Quiet, reads = {}, ~stale.button, latest = readsAsked
                 PROVE  button = entry
    BY DEF Title!ButtonShowsSaved
  <2>2. \A c \in Changers : call[c].at # "done"
    BY <1>4, <2>1
  <2>. QED BY <2>1, <2>2 DEF TitleInv, ButtonFresh
<1>. QED BY <1>3, <1>5, <1>6

-----------------------------------------------------------------------------
(* WatchlistPage: once every answer is in, the page shows the year of its   *)
(* URL, and a beginning of the list of titles to watch.                    *)

ShelfKinds == {"years", "data", "wants", "more"}
ShelfYears == Years \cup {0}
ShelfUrls  == [tab : {"watched", "want_to_watch"}, year : ShelfYears]
ShelfGots  == [years : SUBSET Years, items : Seq(Wanted), more : BOOLEAN]

ShelfRequestTypes ==
    [n : Nat \ {0}, kind : ShelfKinds, arg : Nat, served : BOOLEAN, got : ShelfGots,
     old : BOOLEAN]

ShelfTyped ==
    /\ watched \in SUBSET Years /\ wants \in Shelf!Arrangements(Wanted)
    /\ url \in ShelfUrls /\ nav \in ShelfUrls
    /\ years \in SUBSET Years /\ selected \in ShelfYears /\ data \in ShelfYears
    /\ items \in Seq(Wanted)
    /\ more \in BOOLEAN /\ loading \in BOOLEAN /\ muddled \in BOOLEAN

WireTyped ==
    /\ pageAsked \in Nat
    /\ sent \in [ShelfKinds -> Nat] /\ last \in [ShelfKinds -> Nat]
    /\ \A k \in ShelfKinds : sent[k] <= pageAsked /\ last[k] <= pageAsked
    /\ requests \subseteq ShelfRequestTypes
    /\ \A q \in requests : q.n <= pageAsked /\ (q.kind = "data" => q.arg \in ShelfYears)

\* What ends the loading is under way, or will be asked for.
ShelfWaits ==
    loading => \/ \E q \in requests : q.kind \in {"data", "wants"}
               \/ /\ url.tab = "watched" /\ selected = 0
                  /\ \E q \in requests : q.kind = "years"

\* The newest request for the years is about the URL's year, and so is its answer.
YearsFollow ==
    url.tab = "watched" =>
        /\ sent["years"] # 0
        /\ \A q \in requests : q.kind = "years" /\ q.n = sent["years"] => q.arg = url.year
        /\ last["years"] = sent["years"] =>
             /\ selected \in years <=> years # {}
             /\ nav = url /\ url.year \in years => selected = url.year

\* The newest request for titles is about the year that is selected.
DataFollow ==
    url.tab = "watched" /\ selected # 0 =>
        /\ sent["data"] # 0
        /\ \A q \in requests : q.kind = "data" /\ q.n = sent["data"] => q.arg = selected
        /\ last["data"] = sent["data"] => data = selected

\* A piece that was read since the list has changed is one of the list.
PieceRead(q) ==
    q.served /\ ~q.old =>
        /\ q.kind = "wants" => q.got = Shelf!GetWantToWatchAll(0)
        /\ q.kind = "more" => q.got = Shelf!GetWantToWatchAll(q.arg)

WantsFollow ==
    /\ \A q \in requests : PieceRead(q)
    /\ url.tab = "want_to_watch" => sent["wants"] # 0
    /\ last["wants"] = sent["wants"] /\ sent["wants"] # 0 /\ ~muddled =>
         Shelf!IsBeginning(items, wants) /\ more = (Len(items) < Len(wants))

ShelfInv ==
    ShelfTyped /\ WireTyped /\ ShelfWaits /\ YearsFollow /\ DataFollow /\ WantsFollow

\* The names of the module stand for these values.
LEMMA ShelfNames ==
  /\ Shelf!Kinds = ShelfKinds /\ Shelf!None = 0
  /\ Shelf!ActiveStatuses = {"watched", "want_to_watch"}
  /\ Shelf!Nothing \in ShelfGots
  /\ 0 \in ShelfYears /\ ShelfYears \subseteq Nat /\ 0 \notin Years /\ Years \subseteq ShelfYears
<1>1. /\ Shelf!Kinds = ShelfKinds /\ Shelf!None = 0
      /\ Shelf!ActiveStatuses = {"watched", "want_to_watch"}
  BY DEF Shelf!Kinds, Shelf!None, Shelf!ActiveStatuses, ShelfKinds
<1>2. Shelf!Nothing \in ShelfGots
  <2>1. {} \in SUBSET Years /\ <<>> \in Seq(Wanted) /\ FALSE \in BOOLEAN
    OBVIOUS
  <2>. QED BY <2>1 DEF Shelf!Nothing, ShelfGots
<1>3. /\ 0 \in ShelfYears /\ ShelfYears \subseteq Nat /\ 0 \notin Years
      /\ Years \subseteq ShelfYears
  BY ShelfAssumption DEF ShelfYears
<1>. QED BY <1>1, <1>2, <1>3

\* The lists there may be are lists of titles.
LEMMA WantsAreTitles ==
  ASSUME NEW s \in Shelf!Arrangements(Wanted)
  PROVE  s \in Seq(Wanted)
<1>1. PICK t \in SUBSET Wanted : s \in Shelf!Orderings(t)
  BY DEF Shelf!Arrangements
<1>2. Shelf!Cardinality(t) = Cardinality(t)
  BY DEF Shelf!Cardinality, Cardinality
<1>3. s \in [1 .. Cardinality(t) -> t]
  BY <1>1, <1>2 DEF Shelf!Orderings
<1>4. Cardinality(t) \in Nat
  BY ShelfAssumption, FS_Subset, FS_CardinalityType
<1>5. s \in [1 .. Cardinality(t) -> Wanted]
  BY <1>3
<1>. QED BY <1>4, <1>5

\* A finite set of numbers that is not empty has a greatest one.
LEMMA HasNewest ==
  ASSUME NEW s \in SUBSET Nat, IsFiniteSet(s), s # {}
  PROVE  \E y \in s : \A z \in s : z <= y
<1> DEFINE S == {n \in Nat : \A t \in SUBSET Nat : IsFiniteSet(t) /\ Cardinality(t) = n /\ t # {}
                               => \E y \in t : \A z \in t : z <= y}
<1>1. 0 \in S
  BY FS_EmptySet
<1>2. ASSUME NEW n \in Nat, n \in S PROVE n + 1 \in S
  <2>1. SUFFICES ASSUME NEW t \in SUBSET Nat, IsFiniteSet(t), Cardinality(t) = n + 1, t # {}
                 PROVE  \E y \in t : \A z \in t : z <= y
    OBVIOUS
  <2>2. PICK x \in t : TRUE
    BY <2>1
  <2>3. IsFiniteSet(t \ {x}) /\ Cardinality(t \ {x}) = n
    <3>1. IsFiniteSet(t \ {x}) /\ Cardinality(t \ {x}) = Cardinality(t) - 1
      BY <2>1, <2>2, FS_RemoveElement
    <3>. QED BY <2>1, <3>1
  <2>4. CASE t \ {x} = {}
    BY <2>2, <2>4
  <2>5. CASE t \ {x} # {}
    <3>1. PICK y \in t \ {x} : \A z \in t \ {x} : z <= y
      BY <1>2, <2>3, <2>5
    <3>2. x \in Nat /\ y \in Nat /\ \A z \in t : z \in Nat
      OBVIOUS
    <3>3. CASE x <= y
      BY <3>1, <3>3
    <3>4. CASE ~(x <= y)
      <4>1. \A z \in t : z <= x
        BY <3>1, <3>2, <3>4
      <4>. QED BY <4>1
    <3>. QED BY <3>3, <3>4
  <2>. QED BY <2>4, <2>5
<1>3. Cardinality(s) \in S
  <2> HIDE DEF S
  <2>. QED BY <1>1, <1>2, SetInduction, FS_CardinalityType
<1>. QED BY <1>3

\* The year that is chosen is one there is, and the one asked for if there is that.
LEMMA ChosenIs ==
  ASSUME NEW ys \in SUBSET Years, NEW param
  PROVE  /\ Shelf!Chosen(param, ys) \in ShelfYears
         /\ Shelf!Chosen(param, ys) \in ys <=> ys # {}
         /\ param \in ys => Shelf!Chosen(param, ys) = param
<1>1. ys # {} => Shelf!Newest(ys) \in ys
  <2>1. ys \in SUBSET Nat /\ IsFiniteSet(ys)
    BY ShelfAssumption, FS_Subset
  <2>. QED BY <2>1, HasNewest DEF Shelf!Newest
<1>2. Shelf!None = 0 /\ 0 \notin Years /\ 0 \in ShelfYears /\ Years \subseteq ShelfYears
  BY ShelfNames
<1>3. CASE param \in ys
  BY <1>2, <1>3 DEF Shelf!Chosen
<1>4. CASE param \notin ys
  <2>1. Shelf!Chosen(param, ys)
          = IF ThisYear \in ys THEN ThisYear ELSE IF ys = {} THEN 0 ELSE Shelf!Newest(ys)
    BY <1>2, <1>4 DEF Shelf!Chosen
  <2>. QED BY <1>1, <1>2, <1>4, <2>1
<1>. QED BY <1>3, <1>4

\* A piece of the list.
LEMMA PieceTyped ==
  ASSUME wants \in Seq(Wanted), NEW offset \in Nat
  PROVE  Shelf!GetWantToWatchAll(offset) \in ShelfGots
<1> DEFINE end == IF offset + PieceLimit < Len(wants) THEN offset + PieceLimit ELSE Len(wants)
           piece == SubSeq(wants, offset + 1, end)
<1>1. Shelf!GetWantToWatchAll(offset)
        = [years |-> {}, items |-> piece, more |-> offset + Len(piece) < Len(wants)]
  BY DEF Shelf!GetWantToWatchAll, Shelf!HasMore
<1>2. offset + 1 \in Int /\ end \in Int
  BY ShelfAssumption
<1>3. piece \in Seq(Wanted)
  BY <1>2, SubSeqProperties
<1>4. (offset + Len(piece) < Len(wants)) \in BOOLEAN
  OBVIOUS
<1> HIDE DEF piece
<1>5. {} \in SUBSET Years
  OBVIOUS
<1>. QED BY <1>1, <1>3, <1>4, <1>5 DEF ShelfGots

\* A piece that continues a beginning of the list gives a longer one.
LEMMA PieceExtends ==
  ASSUME wants \in Seq(Wanted), NEW s \in Seq(Wanted), Shelf!IsBeginning(s, wants),
         NEW g, g = Shelf!GetWantToWatchAll(Len(s))
  PROVE  /\ s \o g.items \in Seq(Wanted) /\ Shelf!IsBeginning(s \o g.items, wants)
         /\ g.more = (Len(s \o g.items) < Len(wants))
<1> DEFINE n == Len(s)
           end == IF n + PieceLimit < Len(wants) THEN n + PieceLimit ELSE Len(wants)
           piece == SubSeq(wants, n + 1, end)
<1>1. g.items = piece /\ g.more = (n + Len(piece) < Len(wants))
  BY DEF Shelf!GetWantToWatchAll, Shelf!HasMore
<1>2. n \in Nat /\ n <= Len(wants) /\ Len(wants) \in Nat /\ end \in Nat /\ n <= end /\ end <= Len(wants)
  BY ShelfAssumption DEF Shelf!IsBeginning
<1>3. /\ piece \in Seq(Wanted) /\ Len(piece) = end - n
      /\ \A i \in 1 .. end - n : piece[i] = wants[n + i]
  <2>1. n + 1 \in Int /\ end \in Int /\ \A i \in (n + 1) .. end : i \in DOMAIN wants
    BY <1>2
  <2>2. /\ piece \in Seq(Wanted)
        /\ Len(piece) = IF n + 1 <= end THEN end - (n + 1) + 1 ELSE 0
        /\ \A i \in 1 .. Len(piece) : piece[i] = wants[n + 1 + i - 1]
    BY <2>1, SubSeqProperties
  <2>3. Len(piece) = end - n
    BY <1>2, <2>2
  <2>. QED BY <1>2, <2>2, <2>3
<1>4. \A i \in 1 .. n : s[i] = wants[i]
  <2>1. SubSeq(s, 1, n) = SubSeq(wants, 1, n) /\ n <= Len(wants)
    BY DEF Shelf!IsBeginning
  <2>2. \A i \in 1 .. n : SubSeq(s, 1, n)[i] = s[i]
    BY <1>2
  <2>3. \A i \in 1 .. n : SubSeq(wants, 1, n)[i] = wants[i]
    BY <1>2
  <2>. QED BY <2>1, <2>2, <2>3
<1> HIDE DEF piece, end
<1>5. /\ s \o piece \in Seq(Wanted) /\ Len(s \o piece) = end
      /\ \A i \in 1 .. end : (s \o piece)[i] = wants[i]
  <2>1. s \o piece \in Seq(Wanted) /\ Len(s \o piece) = end
    BY <1>2, <1>3
  <2>2. ASSUME NEW i \in 1 .. end PROVE (s \o piece)[i] = wants[i]
    <3>1. CASE i <= n
      BY <1>2, <1>3, <1>4, <3>1
    <3>2. CASE ~(i <= n)
      <4>1. i - n \in 1 .. end - n /\ (s \o piece)[i] = piece[i - n]
        BY <1>2, <1>3, <3>2
      <4>. QED BY <1>2, <1>3, <4>1
    <3>. QED BY <3>1, <3>2
  <2>. QED BY <2>1, <2>2
<1>6. SubSeq(s \o piece, 1, end) = SubSeq(wants, 1, end)
  <2> DEFINE t == s \o piece
  <2>1. /\ t \in Seq(Wanted) /\ Len(t) = end /\ wants \in Seq(Wanted)
        /\ \A i \in 1 .. end : t[i] = wants[i]
    BY <1>5
  <2> HIDE DEF t
  <2>2. \A i \in 1 .. end : t[i] \in Wanted /\ wants[i] \in Wanted
    BY <1>2, <2>1
  <2>3. /\ SubSeq(t, 1, end) \in Seq(Wanted) /\ Len(SubSeq(t, 1, end)) = end
        /\ \A i \in 1 .. end : SubSeq(t, 1, end)[i] = wants[i]
    BY <1>2, <2>1, <2>2
  <2>4. /\ SubSeq(wants, 1, end) \in Seq(Wanted) /\ Len(SubSeq(wants, 1, end)) = end
        /\ \A i \in 1 .. end : SubSeq(wants, 1, end)[i] = wants[i]
    BY <1>2, <2>1, <2>2
  <2>5. SubSeq(t, 1, end) = SubSeq(wants, 1, end)
    BY <2>3, <2>4, SeqEqual
  <2>. QED BY <2>5 DEF t
<1>. QED BY <1>1, <1>2, <1>3, <1>5, <1>6 DEF Shelf!IsBeginning

LEMMA EmptyPrefix ==
  ASSUME wants \in Seq(Wanted)
  PROVE  Shelf!IsBeginning(<<>>, wants) /\ <<>> \in Seq(Wanted) /\ Len(<<>>) = 0
BY DEF Shelf!IsBeginning

\* A request that has just been sent.
LEMMA ShelfRequestIs ==
  ASSUME NEW n \in Nat \ {0}, NEW k \in ShelfKinds, NEW a \in Nat
  PROVE  /\ Shelf!Request(n, k, a) \in ShelfRequestTypes
         /\ Shelf!Request(n, k, a).n = n /\ Shelf!Request(n, k, a).kind = k
         /\ Shelf!Request(n, k, a).arg = a /\ ~Shelf!Request(n, k, a).served
<1>1. Shelf!Nothing \in ShelfGots
  BY ShelfNames
<1>2. Shelf!Request(n, k, a)
        = [n |-> n, kind |-> k, arg |-> a, served |-> FALSE, got |-> Shelf!Nothing,
           old |-> FALSE]
  BY DEF Shelf!Request
<1>. QED BY <1>1, <1>2 DEF ShelfRequestTypes

\* What is known of the requests once one more is sent: it is the newest of its kind.
IsNewest(k, a) ==
    /\ sent'[k] # 0 /\ last'[k] # sent'[k]
    /\ \A q \in requests' : q.kind = k /\ q.n = sent'[k] => q.arg = a
    /\ \E q \in requests' : q.kind = k

Sends(k, a, rest) ==
    /\ WireTyped' /\ IsNewest(k, a)
    /\ \A j \in ShelfKinds \ {k} : sent'[j] = sent[j]
    /\ \A q \in requests' : q \in rest \/ (q.kind = k /\ ~q.served)
    /\ rest \subseteq requests'

LastTyped ==
    last' \in [ShelfKinds -> Nat] /\ \A k \in ShelfKinds : last'[k] <= pageAsked

LEMMA AskSends ==
  ASSUME WireTyped, NEW rest \in SUBSET requests, NEW k \in ShelfKinds, NEW a \in Nat,
         k = "data" => a \in ShelfYears, Shelf!Ask(rest, k, a), LastTyped
  PROVE  Sends(k, a, rest)
<1> DEFINE new == Shelf!Request(pageAsked + 1, k, a)
<1>1. /\ pageAsked' = pageAsked + 1 /\ sent' = [sent EXCEPT ![k] = pageAsked + 1]
      /\ requests' = rest \cup {new}
  BY DEF Shelf!Ask
<1>2. pageAsked \in Nat /\ pageAsked + 1 \in Nat \ {0} /\ sent \in [ShelfKinds -> Nat]
  BY DEF WireTyped
<1>3. new \in ShelfRequestTypes /\ new.n = pageAsked + 1 /\ new.kind = k /\ new.arg = a /\ ~new.served
  BY <1>2, ShelfRequestIs
<1> HIDE DEF new
<1>4. /\ sent' \in [ShelfKinds -> Nat] /\ sent'[k] = pageAsked + 1
      /\ \A j \in ShelfKinds \ {k} : sent'[j] = sent[j]
  BY <1>1, <1>2
<1>5. \A j \in ShelfKinds : sent'[j] <= pageAsked' /\ last'[j] <= pageAsked'
  BY <1>1, <1>2, <1>4 DEF WireTyped, LastTyped
<1>6. \A q \in requests : /\ q.n \in Nat /\ q.n <= pageAsked
                          /\ q.kind = "data" => q.arg \in ShelfYears
  BY DEF WireTyped, ShelfRequestTypes
<1>7. \A q \in requests' : q.n <= pageAsked' /\ (q.kind = "data" => q.arg \in ShelfYears)
  <2>1. new.n <= pageAsked' /\ (new.kind = "data" => new.arg \in ShelfYears)
    BY <1>1, <1>2, <1>3
  <2>2. \A q \in rest : q.n <= pageAsked'
    BY <1>1, <1>2, <1>6
  <2>. QED BY <1>1, <1>6, <2>1, <2>2
<1>8. requests' \subseteq ShelfRequestTypes
  BY <1>1, <1>3 DEF WireTyped
<1>9. WireTyped'
  BY <1>1, <1>2, <1>4, <1>5, <1>7, <1>8 DEF WireTyped, LastTyped
<1>10. IsNewest(k, a)
  <2>1. sent'[k] # 0 /\ last'[k] # sent'[k]
    BY <1>2, <1>4 DEF LastTyped
  <2>2. \A q \in rest : q.n # sent'[k]
    BY <1>2, <1>4, <1>6
  <2>. QED BY <1>1, <1>3, <2>1, <2>2 DEF IsNewest
<1>. QED BY <1>1, <1>3, <1>4, <1>9, <1>10 DEF Sends

LEMMA AskBothSends ==
  ASSUME WireTyped, NEW a \in Nat, NEW b \in ShelfYears, Shelf!AskBoth(a, b), LastTyped
  PROVE  /\ WireTyped' /\ IsNewest("years", a) /\ IsNewest("data", b)
         /\ sent'["wants"] = sent["wants"]
         /\ \A q \in requests' : q \in requests \/ ~q.served
<1> DEFINE new1 == Shelf!Request(pageAsked + 1, "years", a)
           new2 == Shelf!Request(pageAsked + 2, "data", b)
<1>1. /\ pageAsked' = pageAsked + 2
      /\ sent' = [sent EXCEPT !["years"] = pageAsked + 1, !["data"] = pageAsked + 2]
      /\ requests' = requests \cup {new1, new2}
  BY DEF Shelf!AskBoth
<1>2. /\ pageAsked \in Nat /\ pageAsked + 1 \in Nat \ {0} /\ pageAsked + 2 \in Nat \ {0}
      /\ sent \in [ShelfKinds -> Nat]
  BY DEF WireTyped
<1>3. "years" \in ShelfKinds /\ "data" \in ShelfKinds /\ "wants" \in ShelfKinds
  BY DEF ShelfKinds
<1>4. b \in Nat
  BY ShelfNames
<1>5. /\ new1 \in ShelfRequestTypes /\ new1.n = pageAsked + 1 /\ new1.kind = "years"
      /\ new1.arg = a /\ ~new1.served
  BY <1>2, <1>3, ShelfRequestIs
<1>6. /\ new2 \in ShelfRequestTypes /\ new2.n = pageAsked + 2 /\ new2.kind = "data"
      /\ new2.arg = b /\ ~new2.served
  BY <1>2, <1>3, <1>4, ShelfRequestIs
<1> HIDE DEF new1, new2
<1>7. /\ sent' \in [ShelfKinds -> Nat]
      /\ sent'["years"] = pageAsked + 1 /\ sent'["data"] = pageAsked + 2
      /\ \A j \in ShelfKinds \ {"years", "data"} : sent'[j] = sent[j]
  BY <1>1, <1>2, <1>3
<1>8. \A j \in ShelfKinds : sent'[j] <= pageAsked' /\ last'[j] <= pageAsked'
  BY <1>1, <1>2, <1>7 DEF WireTyped, LastTyped
<1>9. \A q \in requests : /\ q.n \in Nat /\ q.n <= pageAsked
                          /\ q.kind = "data" => q.arg \in ShelfYears
  BY DEF WireTyped, ShelfRequestTypes
<1>10. \A q \in requests' : q.n <= pageAsked' /\ (q.kind = "data" => q.arg \in ShelfYears)
  <2>1. /\ new1.n <= pageAsked' /\ (new1.kind = "data" => new1.arg \in ShelfYears)
        /\ new2.n <= pageAsked' /\ (new2.kind = "data" => new2.arg \in ShelfYears)
    BY <1>1, <1>2, <1>5, <1>6
  <2>2. \A q \in requests : q.n <= pageAsked'
    BY <1>1, <1>2, <1>9
  <2>. QED BY <1>1, <1>9, <2>1, <2>2
<1>11. requests' \subseteq ShelfRequestTypes
  BY <1>1, <1>5, <1>6 DEF WireTyped
<1>12. WireTyped'
  BY <1>1, <1>2, <1>7, <1>8, <1>10, <1>11 DEF WireTyped, LastTyped
<1>13. /\ sent'["years"] # 0 /\ last'["years"] # sent'["years"]
       /\ sent'["data"] # 0 /\ last'["data"] # sent'["data"]
  BY <1>2, <1>3, <1>7 DEF LastTyped
<1>14. \A q \in requests : q.n # sent'["years"] /\ q.n # sent'["data"]
  BY <1>2, <1>7, <1>9
<1>15. IsNewest("years", a) /\ IsNewest("data", b)
  BY <1>1, <1>5, <1>6, <1>13, <1>14 DEF IsNewest
<1>. QED BY <1>1, <1>3, <1>5, <1>6, <1>7, <1>12, <1>15

LEMMA ShelfInit ==
  ASSUME Shelf!Init
  PROVE  ShelfInv
<1>1. /\ Shelf!Kinds = ShelfKinds /\ Shelf!None = 0 /\ 0 \in ShelfYears /\ 0 \notin Years
      /\ Shelf!ActiveStatuses = {"watched", "want_to_watch"} /\ ShelfYears \subseteq Nat
      /\ Years \subseteq ShelfYears
  BY ShelfNames
<1>2. PICK k \in {"years", "wants"}, a \in ShelfYears :
        /\ k = IF url.tab = "watched" THEN "years" ELSE "wants"
        /\ k = "years" => a = url.year
        /\ requests = {Shelf!Request(1, k, a)}
        /\ sent = [j \in ShelfKinds |-> IF j = k THEN 1 ELSE 0]
  <2>1. url.year \in ShelfYears
    BY <1>1 DEF Shelf!Init, ShelfYears
  <2>2. CASE url.tab = "watched"
    <3>1. /\ requests = {Shelf!Request(1, "years", url.year)}
          /\ sent = [j \in ShelfKinds |-> IF j = "years" THEN 1 ELSE 0]
      BY <1>1, <2>2 DEF Shelf!Init
    <3>. QED BY <2>1, <2>2, <3>1
  <2>3. CASE url.tab # "watched"
    <3>1. /\ requests = {Shelf!Request(1, "wants", 0)}
          /\ sent = [j \in ShelfKinds |-> IF j = "wants" THEN 1 ELSE 0]
      BY <1>1, <2>3 DEF Shelf!Init
    <3>. QED BY <1>1, <2>3, <3>1
  <2>. QED BY <2>2, <2>3
<1> DEFINE new == Shelf!Request(1, k, a)
<1>3. k \in ShelfKinds /\ a \in Nat
  BY <1>1 DEF ShelfKinds
<1>4. new \in ShelfRequestTypes /\ new.n = 1 /\ new.kind = k /\ new.arg = a /\ ~new.served
  BY <1>3, ShelfRequestIs
<1>5. requests = {new}
  BY <1>2
<1> HIDE DEF new
<1>6. ShelfTyped
  <2>1. /\ watched \in SUBSET Years /\ wants \in Shelf!Arrangements(Wanted)
        /\ url \in ShelfUrls /\ nav \in ShelfUrls
    BY <1>1 DEF Shelf!Init, ShelfUrls, ShelfYears
  <2>2. years = {} /\ selected = 0 /\ data = 0 /\ items = <<>>
    BY <1>1 DEF Shelf!Init
  <2>3. more \in BOOLEAN /\ loading \in BOOLEAN /\ muddled \in BOOLEAN
    BY DEF Shelf!Init
  <2>4. items \in Seq(Wanted)
    BY <2>2
  <2>. QED BY <1>1, <2>1, <2>2, <2>3, <2>4 DEF ShelfTyped
<1>7. pageAsked = 1 /\ last = [j \in ShelfKinds |-> 0]
  BY <1>1 DEF Shelf!Init
<1>8. /\ sent \in [ShelfKinds -> Nat] /\ sent[k] = 1
      /\ \A j \in ShelfKinds : sent[j] <= 1 /\ (j # k => sent[j] = 0)
  BY <1>2, <1>3
<1>9. WireTyped
  BY <1>2, <1>4, <1>5, <1>7, <1>8 DEF WireTyped
<1>10. url.tab \in {"watched", "want_to_watch"}
  BY <1>6 DEF ShelfTyped, ShelfUrls
<1>11. ShelfWaits
  <2>1. selected = 0
    BY <1>1 DEF Shelf!Init
  <2>. QED BY <1>2, <1>4, <1>5, <1>10, <2>1 DEF ShelfWaits
<1>12. YearsFollow
  <2>1. url.tab = "watched" => /\ sent["years"] = 1 /\ last["years"] = 0
                               /\ new.arg = url.year
    BY <1>2, <1>3, <1>4, <1>7, <1>8 DEF ShelfKinds
  <2>. QED BY <1>5, <2>1 DEF YearsFollow
<1>13. DataFollow
  BY <1>1 DEF Shelf!Init, DataFollow
<1>14. WantsFollow
  <2>1. url.tab = "want_to_watch" => sent["wants"] # 0
    BY <1>2, <1>8
  <2>2. last["wants"] = 0
    BY <1>7 DEF ShelfKinds
  <2>. QED BY <1>4, <1>5, <2>1, <2>2 DEF WantsFollow, PieceRead
<1>. QED BY <1>6, <1>9, <1>11, <1>12, <1>13, <1>14 DEF ShelfInv

\* The list has not changed, and what is in flight has been or has just been sent.
LEMMA WantsKept ==
  ASSUME WantsFollow, UNCHANGED <<wants, items, more, muddled, url>>,
         \A q \in requests' : q \in requests \/ ~q.served,
         sent'["wants"] = sent["wants"], last'["wants"] \in {last["wants"], 0}
  PROVE  WantsFollow'
<1>1. Shelf!IsBeginning(items, wants)' <=> Shelf!IsBeginning(items, wants)
  BY DEF Shelf!IsBeginning
<1>2. \A q \in requests' : PieceRead(q)'
  BY DEF WantsFollow, PieceRead, Shelf!GetWantToWatchAll, Shelf!HasMore
<1>. QED BY <1>1, <1>2 DEF WantsFollow

LEMMA SetTabStep ==
  ASSUME ShelfInv, NEW t \in Shelf!ActiveStatuses, Shelf!SetTab(t)
  PROVE  ShelfInv'
<1>1. /\ nav' = [tab |-> t, year |-> 0] /\ t \in {"watched", "want_to_watch"}
      /\ 0 \in ShelfYears /\ 0 \notin Years
  BY ShelfNames DEF Shelf!SetTab
<1>2. UNCHANGED <<watched, wants, changes, url, years, selected, data, items, more, loading,
                  pageAsked, sent, requests, last, muddled>>
  BY DEF Shelf!SetTab, Shelf!server, Shelf!shelf, Shelf!wire
<1>3. nav' \in ShelfUrls /\ nav'.year = 0
  BY <1>1 DEF ShelfUrls
<1>4. ShelfTyped'
  BY <1>2, <1>3 DEF ShelfInv, ShelfTyped
<1>5. WireTyped' /\ ShelfWaits' /\ DataFollow'
  BY <1>2 DEF ShelfInv, WireTyped, ShelfWaits, DataFollow
<1>6. YearsFollow'
  <2>1. nav' = url' => url'.year \notin years'
    BY <1>1, <1>2, <1>3 DEF ShelfInv, ShelfTyped
  <2>. QED BY <1>2, <2>1 DEF ShelfInv, YearsFollow
<1>7. WantsFollow'
  BY <1>2, WantsKept DEF ShelfInv
<1>. QED BY <1>4, <1>5, <1>6, <1>7 DEF ShelfInv

\* The titles of a year are asked for, the year that is now selected.
LEMMA AskDataStep ==
  ASSUME ShelfInv, NEW y \in Years, Shelf!Ask(requests, "data", y),
         y = selected \/ (y \in years /\ nav' = [tab |-> "watched", year |-> y]),
         selected' = y, loading' = TRUE, nav' \in ShelfUrls,
         nav' = nav \/ nav'.year = y,
         UNCHANGED <<watched, wants, url, years, data, items, more, last, muddled>>
  PROVE  ShelfInv'
<1>1. "data" \in ShelfKinds /\ y \in ShelfYears /\ y \in Nat /\ Years \subseteq ShelfYears
  BY ShelfNames DEF ShelfKinds
<1>2. LastTyped /\ WireTyped
  BY DEF ShelfInv, WireTyped, LastTyped
<1>3. Sends("data", y, requests)
  BY <1>1, <1>2, AskSends
<1>4. ShelfTyped'
  BY <1>1 DEF ShelfInv, ShelfTyped
<1>5. WireTyped' /\ ShelfWaits'
  BY <1>3 DEF Sends, IsNewest, ShelfWaits
<1>6. DataFollow'
  BY <1>3 DEF Sends, IsNewest, DataFollow
<1>7. /\ sent'["years"] = sent["years"] /\ sent'["wants"] = sent["wants"]
      /\ \A q \in requests' : q \in requests \/ (q.kind = "data" /\ ~q.served)
  BY <1>3 DEF Sends, ShelfKinds
<1>8. YearsFollow'
  BY <1>7 DEF ShelfInv, YearsFollow
<1>9. WantsFollow'
  BY <1>7, WantsKept DEF ShelfInv
<1>. QED BY <1>4, <1>5, <1>6, <1>8, <1>9 DEF ShelfInv

LEMMA HandleYearChangeStep ==
  ASSUME ShelfInv, NEW y \in Years, Shelf!HandleYearChange(y)
  PROVE  ShelfInv'
<1>1. /\ y \in years /\ selected' = y /\ nav' = [tab |-> "watched", year |-> y]
      /\ Shelf!Ask(requests, "data", y) /\ loading' = TRUE
      /\ UNCHANGED <<watched, wants, url, years, data, items, more, last, muddled>>
  BY DEF Shelf!HandleYearChange, Shelf!server
<1>2. nav' \in ShelfUrls /\ nav'.year = y
  BY <1>1, ShelfNames DEF ShelfUrls
<1>. QED BY <1>1, <1>2, AskDataStep

LEMMA MutateStep ==
  ASSUME ShelfInv, Shelf!Mutate
  PROVE  ShelfInv'
<1>1. /\ selected # 0 /\ Shelf!Ask(requests, "data", selected) /\ loading' = TRUE
      /\ UNCHANGED <<watched, wants, url, nav, years, selected, data, items, more, last,
                     muddled>>
  BY ShelfNames DEF Shelf!Mutate, Shelf!server
<1>2. selected \in Years /\ nav' \in ShelfUrls
  BY <1>1 DEF ShelfInv, ShelfTyped, ShelfYears
<1>. QED BY <1>1, <1>2, AskDataStep

LEMMA MoreAskedStep ==
  ASSUME ShelfInv, Shelf!LoadMore
  PROVE  ShelfInv'
<1>1. /\ Shelf!Ask(requests, "more", Len(items))
      /\ UNCHANGED <<watched, wants, url, nav, years, selected, data, items, more, loading,
                     last, muddled>>
  BY DEF Shelf!LoadMore, Shelf!server, Shelf!shelf
<1>2. Len(items) \in Nat /\ "more" \in ShelfKinds
  BY DEF ShelfInv, ShelfTyped, ShelfKinds
<1>3. LastTyped /\ WireTyped
  BY <1>1 DEF ShelfInv, WireTyped, LastTyped
<1>4. Sends("more", Len(items), requests)
  BY <1>1, <1>2, <1>3, AskSends
<1>5. /\ sent'["years"] = sent["years"] /\ sent'["wants"] = sent["wants"]
      /\ sent'["data"] = sent["data"] /\ WireTyped' /\ requests \subseteq requests'
      /\ \A q \in requests' : q \in requests \/ (q.kind = "more" /\ ~q.served)
  BY <1>4 DEF Sends, ShelfKinds
<1>6. ShelfTyped' /\ ShelfWaits'
  BY <1>1, <1>5 DEF ShelfInv, ShelfTyped, ShelfWaits
<1>7. YearsFollow' /\ DataFollow'
  BY <1>1, <1>5 DEF ShelfInv, YearsFollow, DataFollow
<1>8. WantsFollow'
  BY <1>1, <1>5, WantsKept DEF ShelfInv
<1>. QED BY <1>5, <1>6, <1>7, <1>8 DEF ShelfInv

LEMMA NavigateStep ==
  ASSUME ShelfInv, Shelf!Navigate
  PROVE  ShelfInv'
<1>1. /\ nav # url /\ url' = nav
      /\ UNCHANGED <<watched, wants, nav, years, selected, data, items, more, last, muddled>>
  BY DEF Shelf!Navigate, Shelf!server
<1>2. LastTyped /\ WireTyped
  BY <1>1 DEF ShelfInv, WireTyped, LastTyped
<1>3. /\ nav \in ShelfUrls /\ nav.tab \in {"watched", "want_to_watch"}
      /\ nav.year \in ShelfYears /\ nav.year \in Nat /\ 0 \in Nat /\ selected \in ShelfYears
      /\ "years" \in ShelfKinds /\ "wants" \in ShelfKinds /\ "data" \in ShelfKinds
  BY ShelfNames DEF ShelfInv, ShelfTyped, ShelfUrls, ShelfKinds
<1>5. CASE nav.tab = "want_to_watch"
  <2>1. Shelf!Ask(requests, "wants", 0) /\ loading' = TRUE
    BY <1>5, ShelfNames DEF Shelf!Navigate
  <2>2. Sends("wants", 0, requests)
    BY <1>2, <1>3, <2>1, AskSends
  <2>3. ShelfTyped'
    BY <1>1, <1>3, <2>1 DEF ShelfInv, ShelfTyped
  <2>4. WireTyped' /\ ShelfWaits'
    BY <2>2 DEF Sends, IsNewest, ShelfWaits
  <2>5. YearsFollow' /\ DataFollow'
    BY <1>1, <1>5 DEF YearsFollow, DataFollow
  <2>6. WantsFollow'
    <3>1. \A q \in requests' : PieceRead(q)'
      BY <1>1, <2>2 DEF ShelfInv, WantsFollow, PieceRead, Sends, Shelf!GetWantToWatchAll,
         Shelf!HasMore
    <3>. QED BY <2>2, <3>1 DEF Sends, IsNewest, WantsFollow
  <2>. QED BY <2>3, <2>4, <2>5, <2>6 DEF ShelfInv
<1>6. CASE nav.tab = "watched" /\ ~(url.tab # "watched" /\ selected # 0)
  <2>1. Shelf!Ask(requests, "years", nav.year) /\ UNCHANGED loading
    BY <1>6, ShelfNames DEF Shelf!Navigate
  <2>2. Sends("years", nav.year, requests)
    BY <1>2, <1>3, <2>1, AskSends
  <2>3. ShelfTyped'
    BY <1>1, <1>3, <2>1 DEF ShelfInv, ShelfTyped
  <2>4. /\ WireTyped' /\ requests \subseteq requests'
        /\ sent'["data"] = sent["data"] /\ sent'["wants"] = sent["wants"]
        /\ \A q \in requests' : q \in requests \/ (q.kind = "years" /\ ~q.served)
    BY <2>2 DEF Sends, ShelfKinds
  <2>5. ShelfWaits'
    BY <1>1, <1>6, <2>1, <2>4 DEF ShelfInv, ShelfWaits
  <2>6. YearsFollow'
    BY <1>1, <2>2 DEF Sends, IsNewest, YearsFollow
  <2>7. DataFollow'
    BY <1>1, <1>6, <2>4 DEF ShelfInv, DataFollow
  <2>8. WantsFollow'
    <3>1. \A q \in requests' : PieceRead(q)'
      BY <1>1, <2>4 DEF ShelfInv, WantsFollow, PieceRead, Shelf!GetWantToWatchAll,
         Shelf!HasMore
    <3>2. Shelf!IsBeginning(items, wants)' = Shelf!IsBeginning(items, wants)
      BY <1>1 DEF Shelf!IsBeginning
    <3>. QED BY <1>1, <1>6, <2>4, <3>1, <3>2 DEF ShelfInv, WantsFollow
  <2>. QED BY <2>3, <2>4, <2>5, <2>6, <2>7, <2>8 DEF ShelfInv
<1>7. CASE nav.tab = "watched" /\ url.tab # "watched" /\ selected # 0
  <2>1. Shelf!AskBoth(nav.year, selected) /\ loading' = TRUE
    BY <1>7, ShelfNames DEF Shelf!Navigate
  <2>2. /\ WireTyped' /\ IsNewest("years", nav.year) /\ IsNewest("data", selected)
        /\ sent'["wants"] = sent["wants"]
        /\ \A q \in requests' : q \in requests \/ ~q.served
    BY <1>2, <1>3, <2>1, AskBothSends
  <2>3. ShelfTyped'
    BY <1>1, <1>3, <2>1 DEF ShelfInv, ShelfTyped
  <2>4. ShelfWaits'
    BY <2>2 DEF IsNewest, ShelfWaits
  <2>5. YearsFollow' /\ DataFollow'
    BY <1>1, <2>2 DEF IsNewest, YearsFollow, DataFollow
  <2>6. WantsFollow'
    <3>1. \A q \in requests' : PieceRead(q)'
      BY <1>1, <2>2 DEF ShelfInv, WantsFollow, PieceRead, Shelf!GetWantToWatchAll,
         Shelf!HasMore
    <3>2. Shelf!IsBeginning(items, wants)' = Shelf!IsBeginning(items, wants)
      BY <1>1 DEF Shelf!IsBeginning
    <3>. QED BY <1>1, <1>7, <2>2, <3>1, <3>2 DEF ShelfInv, WantsFollow
  <2>. QED BY <2>2, <2>3, <2>4, <2>5, <2>6 DEF ShelfInv
<1>. QED BY <1>3, <1>5, <1>6, <1>7

\* The requests that are left, each of them one that was there but for being served or old.
LEMMA WireLeft ==
  ASSUME WireTyped, LastTyped, UNCHANGED <<pageAsked, sent>>,
         requests' \subseteq ShelfRequestTypes,
         \A q \in requests' : \E r \in requests : q.n = r.n /\ q.kind = r.kind /\ q.arg = r.arg
  PROVE  WireTyped'
<1>1. \A q \in requests' : q.n <= pageAsked' /\ (q.kind = "data" => q.arg \in ShelfYears)
  BY DEF WireTyped
<1>. QED BY <1>1 DEF WireTyped, LastTyped

LEMMA PieceServeStep ==
  ASSUME ShelfInv, NEW q \in requests, Shelf!Serve(q)
  PROVE  ShelfInv'
<1> DEFINE new == [q EXCEPT !.served = TRUE, !.got = Shelf!Answer(q)]
<1>1. /\ ~q.served /\ requests' = (requests \ {q}) \cup {new}
      /\ UNCHANGED <<watched, wants, changes, url, nav, years, selected, data, items, more,
                     loading, pageAsked, sent, last, muddled>>
  BY DEF Shelf!Serve, Shelf!server, Shelf!shelf
<1>2. q \in ShelfRequestTypes /\ wants \in Seq(Wanted)
  BY WantsAreTitles DEF ShelfInv, WireTyped, ShelfTyped
<1>3. /\ Shelf!Answer(q) \in ShelfGots
      /\ q.kind = "wants" => Shelf!Answer(q) = Shelf!GetWantToWatchAll(0)
      /\ q.kind = "more" => Shelf!Answer(q) = Shelf!GetWantToWatchAll(q.arg)
  <2>1. q.kind \in {"years", "data", "wants", "more"} /\ q.arg \in Nat
    BY <1>2 DEF ShelfRequestTypes, ShelfKinds
  <2>2. [Shelf!Nothing EXCEPT !.years = watched] \in ShelfGots
    BY ShelfNames DEF ShelfInv, ShelfTyped, ShelfGots
  <2>3. Shelf!Nothing \in ShelfGots
    BY ShelfNames
  <2>4. /\ Shelf!GetWantToWatchAll(0) \in ShelfGots
        /\ Shelf!GetWantToWatchAll(q.arg) \in ShelfGots
    BY <1>2, <2>1, PieceTyped
  <2>5. /\ q.kind = "years" => Shelf!Answer(q) = [Shelf!Nothing EXCEPT !.years = watched]
        /\ q.kind = "data" => Shelf!Answer(q) = Shelf!Nothing
        /\ q.kind = "wants" => Shelf!Answer(q) = Shelf!GetWantToWatchAll(0)
        /\ q.kind = "more" => Shelf!Answer(q) = Shelf!GetWantToWatchAll(q.arg)
    BY DEF Shelf!Answer
  <2>. QED BY <2>1, <2>2, <2>3, <2>4, <2>5
<1>4. /\ new \in ShelfRequestTypes /\ new.n = q.n /\ new.kind = q.kind /\ new.arg = q.arg
      /\ new.got = Shelf!Answer(q)
  BY <1>2, <1>3 DEF ShelfRequestTypes
<1> HIDE DEF new
<1>5. WireTyped'
  <2>1. LastTyped /\ WireTyped /\ requests' \subseteq ShelfRequestTypes
    BY <1>1, <1>4 DEF ShelfInv, WireTyped, LastTyped
  <2>2. \A p \in requests' : \E r \in requests : p.n = r.n /\ p.kind = r.kind /\ p.arg = r.arg
    BY <1>1, <1>4
  <2>. QED BY <1>1, <2>1, <2>2, WireLeft
<1>6. ShelfTyped' /\ ShelfWaits'
  BY <1>1, <1>4 DEF ShelfInv, ShelfTyped, ShelfWaits
<1>7. YearsFollow' /\ DataFollow'
  BY <1>1, <1>4 DEF ShelfInv, YearsFollow, DataFollow
<1>8. WantsFollow'
  <2>4. /\ Shelf!GetWantToWatchAll(0)' = Shelf!GetWantToWatchAll(0)
        /\ Shelf!GetWantToWatchAll(q.arg)' = Shelf!GetWantToWatchAll(q.arg)
    BY <1>1 DEF Shelf!GetWantToWatchAll, Shelf!HasMore
  <2>1. ASSUME NEW p, p = new PROVE PieceRead(p)'
    BY <1>3, <1>4, <2>1, <2>4 DEF PieceRead
  <2>2. \A p \in requests : PieceRead(p)'
    BY <1>1 DEF ShelfInv, WantsFollow, PieceRead, Shelf!GetWantToWatchAll, Shelf!HasMore
  <2>3. Shelf!IsBeginning(items, wants)' = Shelf!IsBeginning(items, wants)
    BY <1>1 DEF Shelf!IsBeginning
  <2>. QED BY <1>1, <2>1, <2>2, <2>3 DEF ShelfInv, WantsFollow
<1>. QED BY <1>5, <1>6, <1>7, <1>8 DEF ShelfInv

LEMMA ShelfElsewhereStep ==
  ASSUME ShelfInv, Shelf!Elsewhere
  PROVE  ShelfInv'
<1>1. UNCHANGED <<url, nav, years, selected, data, items, more, loading, pageAsked, sent, last>>
  BY DEF Shelf!Elsewhere, Shelf!shelf
<1>2. CASE watched' \in SUBSET Years /\ UNCHANGED <<wants, requests, muddled>>
  <2>1. ShelfTyped' /\ WireTyped' /\ ShelfWaits'
    BY <1>1, <1>2 DEF ShelfInv, ShelfTyped, WireTyped, ShelfWaits
  <2>2. YearsFollow' /\ DataFollow'
    BY <1>1, <1>2 DEF ShelfInv, YearsFollow, DataFollow
  <2>3. WantsFollow'
    BY <1>1, <1>2, WantsKept DEF ShelfInv
  <2>. QED BY <2>1, <2>2, <2>3 DEF ShelfInv
<1>3. CASE /\ wants' \in Shelf!Arrangements(Wanted) /\ UNCHANGED watched
           /\ requests' = {[q EXCEPT !.old = @ \/ q.served] : q \in requests}
           /\ muddled' = TRUE
  <2> DEFINE Aged(q) == [q EXCEPT !.old = @ \/ q.served]
  <2>8. requests' = {Aged(q) : q \in requests}
    BY <1>3
  <2>1. ASSUME NEW q \in requests
        PROVE  /\ Aged(q) \in ShelfRequestTypes /\ Aged(q).n = q.n /\ Aged(q).kind = q.kind
               /\ Aged(q).arg = q.arg /\ ~(Aged(q).served /\ ~Aged(q).old)
    <3>1. q \in ShelfRequestTypes
      BY DEF ShelfInv, WireTyped
    <3>2. (q.old \/ q.served) \in BOOLEAN
      BY <3>1 DEF ShelfRequestTypes
    <3>. QED BY <3>1, <3>2 DEF ShelfRequestTypes
  <2> HIDE DEF Aged
  <2>2. ASSUME NEW p \in requests'
        PROVE  /\ p \in ShelfRequestTypes /\ ~(p.served /\ ~p.old)
               /\ \E r \in requests : p.n = r.n /\ p.kind = r.kind /\ p.arg = r.arg
    BY <2>1, <2>8
  <2>3. \A q \in requests : \E p \in requests' : p.kind = q.kind
    BY <2>1, <2>8
  <2>4. ShelfTyped' /\ ShelfWaits'
    BY <1>1, <1>3, <2>3 DEF ShelfInv, ShelfTyped, ShelfWaits
  <2>5. WireTyped'
    <3>1. LastTyped /\ WireTyped /\ requests' \subseteq ShelfRequestTypes
      BY <1>1, <2>2 DEF ShelfInv, WireTyped, LastTyped
    <3>. QED BY <1>1, <2>2, <3>1, WireLeft
  <2>6. YearsFollow' /\ DataFollow'
    BY <1>1, <2>2 DEF ShelfInv, YearsFollow, DataFollow
  <2>7. WantsFollow'
    BY <1>1, <1>3, <2>2 DEF ShelfInv, WantsFollow, PieceRead
  <2>. QED BY <2>4, <2>5, <2>6, <2>7 DEF ShelfInv
<1>. QED BY <1>2, <1>3 DEF Shelf!Elsewhere

\* An answer leaves its number, a failure none.
LEMMA CameIs ==
  ASSUME WireTyped, NEW q \in requests, NEW ok \in BOOLEAN, Shelf!Came(q, ok)
  PROVE  /\ LastTyped /\ q.kind \in ShelfKinds /\ q.n \in Nat \ {0}
         /\ last'[q.kind] = IF ok THEN q.n ELSE 0
         /\ \A k \in ShelfKinds \ {q.kind} : last'[k] = last[k]
<1>1. q.n \in Nat \ {0} /\ q.n <= pageAsked /\ q.kind \in ShelfKinds /\ pageAsked \in Nat
  BY DEF WireTyped, ShelfRequestTypes
<1>2. last \in [ShelfKinds -> Nat] /\ \A k \in ShelfKinds : last[k] <= pageAsked
  BY DEF WireTyped
<1> DEFINE v == IF ok THEN q.n ELSE 0
<1>3. last' = [last EXCEPT ![q.kind] = v]
  BY DEF Shelf!Came
<1>4. v \in Nat /\ v <= pageAsked
  BY <1>1
<1> HIDE DEF v
<1>5. /\ last' \in [ShelfKinds -> Nat] /\ last'[q.kind] = v
      /\ \A k \in ShelfKinds \ {q.kind} : last'[k] = last[k]
  BY <1>1, <1>2, <1>3, <1>4
<1>6. LastTyped
  BY <1>2, <1>4, <1>5 DEF LastTyped
<1>. QED BY <1>1, <1>5, <1>6 DEF v

\* The years are set, with the one that is selected then.
LEMMA YearsSetStep ==
  ASSUME ShelfInv, NEW q \in requests, q.kind = "years", NEW ok \in BOOLEAN,
         Shelf!Came(q, ok), NEW ys \in SUBSET Years, NEW y \in ShelfYears,
         Shelf!YearsSet(q, ys, y),
         y \in ys <=> ys # {},
         ok /\ q.arg \in ys => y = q.arg
  PROVE  ShelfInv'
<1>1. /\ years' = ys /\ selected' = y
      /\ UNCHANGED <<watched, wants, url, nav, data, items, more, muddled>>
  BY DEF Shelf!YearsSet, Shelf!server
<1>2. WireTyped
  BY DEF ShelfInv
<1>3. /\ LastTyped /\ "years" \in ShelfKinds /\ q.n \in Nat \ {0}
      /\ last'["years"] = IF ok THEN q.n ELSE 0
      /\ \A k \in ShelfKinds \ {"years"} : last'[k] = last[k]
  BY <1>2, CameIs
<1>4. /\ last'["data"] = last["data"] /\ last'["wants"] = last["wants"]
      /\ "data" \in ShelfKinds /\ "wants" \in ShelfKinds
  BY <1>3 DEF ShelfKinds
<1>5. /\ WireTyped' /\ (\A p \in requests' : p \in requests \/ (p.kind = "data" /\ ~p.served))
      /\ sent'["years"] = sent["years"] /\ sent'["wants"] = sent["wants"]
      /\ loading' \in BOOLEAN /\ ShelfWaits' /\ DataFollow'
  <2>1. CASE /\ y \notin {selected, 0} /\ url.tab = "watched"
             /\ Shelf!Ask(requests \ {q}, "data", y) /\ loading' = TRUE
    <3>1. y \in Nat
      BY ShelfNames
    <3>2. Sends("data", y, requests \ {q})
      BY <1>2, <1>3, <1>4, <2>1, <3>1, AskSends
    <3>3. ShelfWaits' /\ DataFollow'
      BY <1>1, <3>2 DEF Sends, IsNewest, ShelfWaits, DataFollow
    <3>. QED BY <1>3, <1>4, <2>1, <3>2, <3>3 DEF Sends
  <2>2. CASE /\ y \in {selected, 0} \/ url.tab # "watched"
             /\ requests' = requests \ {q} /\ UNCHANGED <<pageAsked, sent>>
             /\ loading' = (loading /\ y # 0)
    <3>1. WireTyped'
      BY <1>2, <1>3, <2>2, WireLeft DEF WireTyped
    <3>2. loading' \in BOOLEAN
      BY <2>2
    <3>3. ShelfWaits'
      BY <1>1, <2>2 DEF ShelfInv, ShelfWaits
    <3>4. DataFollow'
      BY <1>1, <1>4, <2>2 DEF ShelfInv, DataFollow
    <3>. QED BY <2>2, <3>1, <3>2, <3>3, <3>4
  <2>. QED BY <2>1, <2>2, ShelfNames DEF Shelf!YearsSet
<1>6. ShelfTyped'
  BY <1>1, <1>5 DEF ShelfInv, ShelfTyped
<1>7. YearsFollow'
  <2>1. SUFFICES ASSUME url.tab = "watched"
                 PROVE  YearsFollow'
    BY <1>1 DEF YearsFollow
  <2>2. sent["years"] # 0 /\ (q.n = sent["years"] => q.arg = url.year)
    BY <2>1 DEF ShelfInv, YearsFollow
  <2>3. last'["years"] = sent'["years"] => ok /\ q.n = sent["years"]
    BY <1>3, <1>5, <2>2
  <2>4. \A p \in requests' : p.kind = "years" /\ p.n = sent'["years"] => p.arg = url'.year
    BY <1>1, <1>5, <2>1 DEF ShelfInv, YearsFollow
  <2>. QED BY <1>1, <1>5, <2>2, <2>3, <2>4 DEF YearsFollow
<1>8. WantsFollow'
  BY <1>1, <1>4, <1>5, WantsKept DEF ShelfInv
<1>. QED BY <1>5, <1>6, <1>7, <1>8 DEF ShelfInv

LEMMA YearsAnswerStep ==
  ASSUME ShelfInv, NEW q \in requests, Shelf!YearsCome(q) \/ Shelf!YearsFail(q)
  PROVE  ShelfInv'
<1>1. q.got.years \in SUBSET Years /\ {} \in SUBSET Years
  BY DEF ShelfInv, WireTyped, ShelfRequestTypes, ShelfGots
<1>2. CASE Shelf!YearsCome(q)
  <2> DEFINE ys == q.got.years
             y == Shelf!Chosen(q.arg, ys)
  <2>1. q.kind = "years" /\ Shelf!YearsSet(q, ys, y) /\ Shelf!Came(q, TRUE)
    BY <1>2 DEF Shelf!YearsCome
  <2>2. y \in ShelfYears /\ (y \in ys <=> ys # {}) /\ (q.arg \in ys => y = q.arg)
    BY <1>1, ChosenIs
  <2> HIDE DEF y
  <2>. QED BY <1>1, <2>1, <2>2, YearsSetStep
<1>3. CASE Shelf!YearsFail(q)
  <2>1. q.kind = "years" /\ Shelf!YearsSet(q, {}, 0) /\ Shelf!Came(q, FALSE)
    BY <1>3, ShelfNames DEF Shelf!YearsFail
  <2>2. 0 \in ShelfYears
    BY ShelfNames
  <2>. QED BY <1>1, <2>1, <2>2, YearsSetStep
<1>. QED BY <1>2, <1>3

\* A request is over, and nothing but what it has brought changes.
LEMMA WireRemoved ==
  ASSUME WireTyped, LastTyped, NEW q \in requests, requests' = requests \ {q},
         UNCHANGED <<pageAsked, sent>>
  PROVE  WireTyped'
<1>1. requests' \subseteq ShelfRequestTypes
  BY DEF WireTyped
<1>. QED BY <1>1, WireLeft

LEMMA DataAnswerStep ==
  ASSUME ShelfInv, NEW q \in requests, Shelf!DataComes(q)
  PROVE  ShelfInv'
<1>1. /\ q.kind = "data" /\ loading' = FALSE /\ requests' = requests \ {q}
      /\ UNCHANGED <<watched, wants, url, nav, years, selected, items, more, pageAsked, sent,
                     muddled>>
  BY DEF Shelf!DataComes, Shelf!server
<1>2. WireTyped /\ q.arg \in ShelfYears /\ "years" \in ShelfKinds /\ "wants" \in ShelfKinds
  BY <1>1 DEF ShelfInv, WireTyped, ShelfKinds
<1>3. PICK ok \in BOOLEAN : Shelf!Came(q, ok) /\ data' = IF ok THEN q.arg ELSE 0
  BY ShelfNames DEF Shelf!DataComes
<1>4. /\ LastTyped /\ q.n \in Nat \ {0}
      /\ last'["data"] = IF ok THEN q.n ELSE 0
      /\ last'["years"] = last["years"] /\ last'["wants"] = last["wants"]
  <2>1. \A k \in ShelfKinds \ {q.kind} : last'[k] = last[k]
    BY <1>2, <1>3, CameIs
  <2>2. LastTyped /\ q.n \in Nat \ {0} /\ last'[q.kind] = IF ok THEN q.n ELSE 0
    BY <1>2, <1>3, CameIs
  <2>. QED BY <1>1, <1>2, <2>1, <2>2
<1>5. WireTyped'
  BY <1>1, <1>2, <1>4, WireRemoved
<1>6. ShelfTyped' /\ ShelfWaits'
  BY <1>1, <1>2, <1>3, ShelfNames DEF ShelfInv, ShelfTyped, ShelfWaits
<1>7. YearsFollow'
  BY <1>1, <1>4 DEF ShelfInv, YearsFollow
<1>8. DataFollow'
  <2>1. SUFFICES ASSUME url.tab = "watched", selected # 0
                 PROVE  DataFollow'
    BY <1>1 DEF DataFollow
  <2>2. sent["data"] # 0 /\ (q.n = sent["data"] => q.arg = selected)
    BY <1>1, <2>1 DEF ShelfInv, DataFollow
  <2>3. last'["data"] = sent["data"] => data' = selected
    BY <1>3, <1>4, <2>2
  <2>. QED BY <1>1, <2>1, <2>2, <2>3 DEF ShelfInv, DataFollow
<1>9. WantsFollow'
  BY <1>1, <1>4, WantsKept DEF ShelfInv
<1>. QED BY <1>5, <1>6, <1>7, <1>8, <1>9 DEF ShelfInv

LEMMA WantsAnswerStep ==
  ASSUME ShelfInv, NEW q \in requests, Shelf!WantsCome(q)
  PROVE  ShelfInv'
<1>1. /\ q.kind = "wants" /\ loading' = FALSE /\ requests' = requests \ {q}
      /\ UNCHANGED <<watched, wants, url, nav, years, selected, data, pageAsked, sent>>
  BY DEF Shelf!WantsCome, Shelf!server
<1>2. /\ WireTyped /\ "years" \in ShelfKinds /\ "data" \in ShelfKinds /\ wants \in Seq(Wanted)
      /\ q.got \in ShelfGots /\ q.old \in BOOLEAN
  BY WantsAreTitles DEF ShelfInv, WireTyped, ShelfTyped, ShelfKinds, ShelfRequestTypes
<1>3. PICK ok \in BOOLEAN :
        /\ Shelf!Came(q, ok)
        /\ ok => /\ q.served /\ items' = q.got.items /\ more' = q.got.more
                 /\ muddled' = q.old
        /\ ~ok => UNCHANGED <<items, more, muddled>>
  BY DEF Shelf!WantsCome
<1>4. /\ LastTyped /\ q.n \in Nat \ {0}
      /\ last'["wants"] = IF ok THEN q.n ELSE 0
      /\ last'["years"] = last["years"] /\ last'["data"] = last["data"]
  <2>1. \A k \in ShelfKinds \ {q.kind} : last'[k] = last[k]
    BY <1>2, <1>3, CameIs
  <2>2. LastTyped /\ q.n \in Nat \ {0} /\ last'[q.kind] = IF ok THEN q.n ELSE 0
    BY <1>2, <1>3, CameIs
  <2>. QED BY <1>1, <1>2, <2>1, <2>2
<1>5. WireTyped'
  BY <1>1, <1>2, <1>4, WireRemoved
<1>6. items' \in Seq(Wanted) /\ more' \in BOOLEAN /\ muddled' \in BOOLEAN
  <2>1. CASE ok
    BY <1>2, <1>3, <2>1 DEF ShelfGots
  <2>2. CASE ~ok
    BY <1>3, <2>2 DEF ShelfInv, ShelfTyped
  <2>. QED BY <2>1, <2>2
<1>7. ShelfTyped' /\ ShelfWaits'
  BY <1>1, <1>6 DEF ShelfInv, ShelfTyped, ShelfWaits
<1>8. YearsFollow' /\ DataFollow'
  BY <1>1, <1>4 DEF ShelfInv, YearsFollow, DataFollow
<1>9. WantsFollow'
  <2>1. \A p \in requests' : PieceRead(p)'
    BY <1>1 DEF ShelfInv, WantsFollow, PieceRead, Shelf!GetWantToWatchAll, Shelf!HasMore
  <2>2. CASE ok /\ ~q.old
    <3>1. q.got = Shelf!GetWantToWatchAll(0)
      BY <1>1, <1>3, <2>2 DEF ShelfInv, WantsFollow, PieceRead
    <3>2. Shelf!IsBeginning(<<>>, wants) /\ <<>> \in Seq(Wanted) /\ Len(<<>>) = 0
      BY <1>2, EmptyPrefix
    <3>3. /\ Shelf!IsBeginning(<<>> \o q.got.items, wants)
          /\ q.got.more = (Len(<<>> \o q.got.items) < Len(wants))
      BY <1>2, <3>1, <3>2, PieceExtends
    <3>4. <<>> \o q.got.items = q.got.items
      BY <1>2, ConcatEmptySeq DEF ShelfGots
    <3>5. Shelf!IsBeginning(q.got.items, wants) /\ q.got.more = (Len(q.got.items) < Len(wants))
      BY <3>3, <3>4
    <3>6. Shelf!IsBeginning(items, wants)'
      BY <1>1, <1>3, <2>2, <3>5 DEF Shelf!IsBeginning
    <3>7. more' = (Len(items') < Len(wants'))
      BY <1>1, <1>3, <2>2, <3>5
    <3>. QED BY <1>1, <2>1, <3>6, <3>7 DEF ShelfInv, WantsFollow
  <2>3. CASE ok /\ q.old
    BY <1>1, <1>3, <2>1, <2>3 DEF ShelfInv, WantsFollow
  <2>4. CASE ~ok
    BY <1>1, <1>4, <2>1, <2>4 DEF ShelfInv, WantsFollow
  <2>. QED BY <2>2, <2>3, <2>4
<1>. QED BY <1>5, <1>7, <1>8, <1>9 DEF ShelfInv

LEMMA MoreAnswerStep ==
  ASSUME ShelfInv, NEW q \in requests, Shelf!MoreCome(q)
  PROVE  ShelfInv'
<1>1. /\ q.kind = "more" /\ requests' = requests \ {q}
      /\ UNCHANGED <<watched, wants, url, nav, years, selected, data, loading, pageAsked, sent>>
  BY DEF Shelf!MoreCome, Shelf!server
<1>2. /\ WireTyped /\ wants \in Seq(Wanted) /\ items \in Seq(Wanted)
      /\ "years" \in ShelfKinds /\ "data" \in ShelfKinds /\ "wants" \in ShelfKinds
      /\ q.got \in ShelfGots /\ q.old \in BOOLEAN
  BY WantsAreTitles DEF ShelfInv, WireTyped, ShelfTyped, ShelfKinds, ShelfRequestTypes
<1>3. PICK ok \in BOOLEAN :
        /\ Shelf!Came(q, ok)
        /\ ok => /\ q.served /\ items' = items \o q.got.items /\ more' = q.got.more
                 /\ muddled' = (muddled \/ q.old \/ Shelf!Overtaken(q))
        /\ ~ok => UNCHANGED <<items, more, muddled>>
  BY DEF Shelf!MoreCome
<1>4. /\ LastTyped /\ last'["years"] = last["years"] /\ last'["data"] = last["data"]
      /\ last'["wants"] = last["wants"]
  <2>1. LastTyped /\ \A k \in ShelfKinds \ {q.kind} : last'[k] = last[k]
    BY <1>2, <1>3, CameIs
  <2>. QED BY <1>1, <1>2, <2>1
<1>5. WireTyped'
  BY <1>1, <1>2, <1>4, WireRemoved
<1>6. items' \in Seq(Wanted) /\ more' \in BOOLEAN /\ muddled' \in BOOLEAN
  <2>1. CASE ok
    <3>1. q.got.items \in Seq(Wanted) /\ q.got.more \in BOOLEAN
      BY <1>2 DEF ShelfGots
    <3>2. items \o q.got.items \in Seq(Wanted)
      BY <1>2, <3>1
    <3>. QED BY <1>3, <2>1, <3>1, <3>2
  <2>2. CASE ~ok
    BY <1>3, <2>2 DEF ShelfInv, ShelfTyped
  <2>. QED BY <2>1, <2>2
<1>7. ShelfTyped' /\ ShelfWaits'
  BY <1>1, <1>6 DEF ShelfInv, ShelfTyped, ShelfWaits
<1>8. YearsFollow' /\ DataFollow'
  BY <1>1, <1>4 DEF ShelfInv, YearsFollow, DataFollow
<1>9. WantsFollow'
  <2>1. \A p \in requests' : PieceRead(p)'
    BY <1>1 DEF ShelfInv, WantsFollow, PieceRead, Shelf!GetWantToWatchAll, Shelf!HasMore
  <2>2. CASE ok
    <3>1. SUFFICES ASSUME last'["wants"] = sent'["wants"], sent'["wants"] # 0, ~muddled'
                   PROVE  Shelf!IsBeginning(items, wants)' /\ (more = (Len(items) < Len(wants)))'
      BY <1>1, <2>1 DEF ShelfInv, WantsFollow
    <3>2. ~muddled /\ ~q.old /\ Len(items) = q.arg
      BY <1>3, <2>2, <3>1 DEF Shelf!Overtaken
    <3>3. Shelf!IsBeginning(items, wants)
      BY <1>1, <1>4, <3>1, <3>2 DEF ShelfInv, WantsFollow
    <3>4. q.got = Shelf!GetWantToWatchAll(Len(items))
      BY <1>1, <1>3, <2>2, <3>2 DEF ShelfInv, WantsFollow, PieceRead
    <3>5. /\ Shelf!IsBeginning(items \o q.got.items, wants)
          /\ q.got.more = (Len(items \o q.got.items) < Len(wants))
      BY <1>2, <3>3, <3>4, PieceExtends
    <3>6. Shelf!IsBeginning(items, wants)'
      BY <1>1, <1>3, <2>2, <3>5 DEF Shelf!IsBeginning
    <3>. QED BY <1>1, <1>3, <2>2, <3>5, <3>6
  <2>3. CASE ~ok
    <3>1. UNCHANGED <<wants, items, more, muddled, url>>
      BY <1>1, <1>3, <2>3
    <3>. QED BY <1>1, <1>4, <3>1, WantsKept DEF ShelfInv
  <2>. QED BY <2>2, <2>3
<1>. QED BY <1>5, <1>7, <1>8, <1>9 DEF ShelfInv

\* ShelfInv is inductive.
LEMMA ShelfStep ==
  ASSUME ShelfInv, Shelf!Next
  PROVE  ShelfInv'
<1>1. CASE \E t \in Shelf!ActiveStatuses : Shelf!SetTab(t)
  BY <1>1, SetTabStep
<1>2. CASE \E y \in Years : Shelf!HandleYearChange(y)
  BY <1>2, HandleYearChangeStep
<1>3. CASE Shelf!Navigate
  BY <1>3, NavigateStep
<1>4. CASE Shelf!Mutate
  BY <1>4, MutateStep
<1>5. CASE Shelf!LoadMore
  BY <1>5, MoreAskedStep
<1>6. CASE Shelf!Elsewhere
  BY <1>6, ShelfElsewhereStep
<1>7. CASE \E q \in requests : \/ Shelf!Serve(q) \/ Shelf!YearsCome(q) \/ Shelf!YearsFail(q)
                               \/ Shelf!DataComes(q) \/ Shelf!WantsCome(q) \/ Shelf!MoreCome(q)
  BY <1>7, PieceServeStep, YearsAnswerStep, DataAnswerStep, WantsAnswerStep, MoreAnswerStep
<1>. QED BY <1>1, <1>2, <1>3, <1>4, <1>5, <1>6, <1>7 DEF Shelf!Next

LEMMA ShelfShows ==
  ASSUME ShelfInv
  PROVE  Shelf!TypeOK /\ Shelf!PageSettles
<1>1. /\ Shelf!Kinds = ShelfKinds /\ Shelf!None = 0
      /\ Shelf!ActiveStatuses = {"watched", "want_to_watch"} /\ 0 \notin Years
  BY ShelfNames
<1>2. Shelf!TypeOK
  <2>1. Shelf!Elements(items) \subseteq Wanted
    BY DEF ShelfInv, ShelfTyped, Shelf!Elements
  <2>2. \A q \in requests : q.n \in 1 .. pageAsked /\ q.kind \in ShelfKinds
    BY DEF ShelfInv, WireTyped, ShelfRequestTypes
  <2>3. {url, nav} \subseteq [tab : {"watched", "want_to_watch"}, year : Years \cup {0}]
    BY DEF ShelfInv, ShelfTyped, ShelfUrls, ShelfYears
  <2>4. {selected, data} \subseteq Years \cup {0} /\ {more, loading, muddled} \subseteq BOOLEAN
    BY DEF ShelfInv, ShelfTyped, ShelfYears
  <2>5. /\ watched \subseteq Years /\ wants \in Shelf!Arrangements(Wanted)
        /\ years \subseteq Years
    BY DEF ShelfInv, ShelfTyped
  <2>. QED BY <1>1, <2>1, <2>2, <2>3, <2>4, <2>5 DEF Shelf!TypeOK
<1>3. SUFFICES ASSUME Shelf!AtRest
               PROVE  ~loading /\ Shelf!YearAgrees /\ Shelf!WantsAgree
  BY <1>2 DEF Shelf!PageSettles
<1>4. nav = url /\ requests = {}
  BY <1>3 DEF Shelf!AtRest
<1>5. ~loading
  BY <1>4 DEF ShelfInv, ShelfWaits
<1>6. Shelf!YearAgrees
  <2>1. SUFFICES ASSUME url.tab = "watched", last["years"] = sent["years"],
                        last["data"] = sent["data"]
                 PROVE  /\ url.year \in years => selected = url.year
                        /\ selected \in years => data = selected
                        /\ selected \in years <=> years # {}
    BY DEF Shelf!YearAgrees, Shelf!InOrder
  <2>2. /\ selected \in years <=> years # {}
        /\ url.year \in years => selected = url.year
    BY <1>4, <2>1 DEF ShelfInv, YearsFollow
  <2>3. selected \in years => selected # 0
    BY <1>1 DEF ShelfInv, ShelfTyped
  <2>4. selected \in years => data = selected
    BY <2>1, <2>3 DEF ShelfInv, DataFollow
  <2>. QED BY <2>2, <2>4
<1>7. Shelf!WantsAgree
  BY DEF ShelfInv, WantsFollow, Shelf!WantsAgree, Shelf!InOrder
<1>. QED BY <1>5, <1>6, <1>7

\* What is kept of the first positions depends on no other.
LEMMA KeepAgrees ==
  ASSUME NEW s, NEW t, Len(s) \in Nat, Len(t) \in Nat, NEW I, NEW J, NEW g, NEW h,
         IsKept(g, s, I), IsKept(h, t, J), NEW n \in Nat, n <= Len(s), n <= Len(t),
         \A i \in 1 .. n : s[i] = t[i] /\ (i \in I <=> i \in J)
  PROVE  g[n] = h[n]
<1> DEFINE S == {m \in Nat : m <= n => g[m] = h[m]}
<1>1. \A i \in 0 .. n : /\ i # 0 => i \in 1 .. n
                        /\ g[i] = IF i = 0 THEN <<>>
                             ELSE IF i \in I THEN Append(g[i - 1], s[i]) ELSE g[i - 1]
                        /\ h[i] = IF i = 0 THEN <<>>
                             ELSE IF i \in J THEN Append(h[i - 1], t[i]) ELSE h[i - 1]
  <2>1. \A i \in 0 .. Len(s) : g[i] = IF i = 0 THEN <<>>
                  ELSE IF i \in I THEN Append(g[i - 1], s[i]) ELSE g[i - 1]
    BY DEF IsKept
  <2>2. \A i \in 0 .. Len(t) : h[i] = IF i = 0 THEN <<>>
                  ELSE IF i \in J THEN Append(h[i - 1], t[i]) ELSE h[i - 1]
    BY DEF IsKept
  <2>3. \A i \in 0 .. n : i \in 0 .. Len(s) /\ i \in 0 .. Len(t) /\ (i # 0 => i \in 1 .. n)
    OBVIOUS
  <2>. QED BY <2>1, <2>2, <2>3
<1>2. 0 \in S
  <2>1. g[0] = <<>> /\ h[0] = <<>>
    BY <1>1
  <2>. QED BY <2>1
<1>3. ASSUME NEW m \in Nat, m \in S PROVE m + 1 \in S
  <2>1. SUFFICES ASSUME m + 1 <= n PROVE g[m + 1] = h[m + 1]
    OBVIOUS
  <2>2. m + 1 \in 0 .. n /\ m + 1 # 0 /\ (m + 1) - 1 = m /\ g[m] = h[m]
    BY <1>3, <2>1
  <2>3. s[m + 1] = t[m + 1] /\ (m + 1 \in I <=> m + 1 \in J)
    BY <2>2
  <2>4. /\ g[m + 1] = IF m + 1 \in I THEN Append(g[m], s[m + 1]) ELSE g[m]
        /\ h[m + 1] = IF m + 1 \in J THEN Append(h[m], t[m + 1]) ELSE h[m]
    BY <1>1, <2>2
  <2>. QED BY <2>2, <2>3, <2>4
<1>4. n \in S
  <2> HIDE DEF S
  <2>. QED BY <1>2, <1>3, SetInduction
<1>. QED BY <1>4

\* A filter sees one element after the other.
LEMMA WithoutAppend ==
  ASSUME NEW X, NEW s \in Seq(X), NEW x \in X, NEW E
  PROVE  Without(Append(s, x), E) = IF x \in E THEN Without(s, E) ELSE Append(Without(s, E), x)
<1> DEFINE t == Append(s, x)
           n == Len(s)
           I == {i \in DOMAIN t : t[i] \notin E}
           J == {i \in DOMAIN s : s[i] \notin E}
<1>1. /\ t \in Seq(X) /\ Len(t) = n + 1 /\ n \in Nat /\ t[n + 1] = x
      /\ \A i \in 1 .. n : t[i] = s[i]
  OBVIOUS
<1>2. PICK g : IsKept(g, t, I) /\ Keep(t, I) = g[n + 1]
  <2> HIDE DEF t, I
  <2>1. \E g : IsKept(g, t, I) /\ Keep(t, I) = g[Len(t)]
    BY <1>1, KeepRuns
  <2>. QED BY <1>1, <2>1
<1>3. PICK h : IsKept(h, s, J) /\ Keep(s, J) = h[n]
  BY <1>1, KeepRuns
<1>4. \A i \in 1 .. n : s[i] = t[i] /\ (i \in J <=> i \in I)
  BY <1>1
<1>5. g[n] = h[n]
  <2> HIDE DEF t, I, J
  <2>1. n <= Len(t) /\ n <= Len(s) /\ Len(t) \in Nat /\ Len(s) \in Nat
    BY <1>1
  <2>. QED BY <1>1, <1>2, <1>3, <1>4, <2>1, KeepAgrees
<1>6. n + 1 \in I <=> x \notin E
  BY <1>1
<1>7. g[n + 1] = IF n + 1 \in I THEN Append(g[n], x) ELSE g[n]
  <2> HIDE DEF I, t
  <2>1. n + 1 \in 0 .. Len(t) /\ n + 1 # 0 /\ (n + 1) - 1 = n
    BY <1>1
  <2>2. \A i \in 0 .. Len(t) : g[i] = IF i = 0 THEN <<>>
                  ELSE IF i \in I THEN Append(g[i - 1], t[i]) ELSE g[i - 1]
    BY <1>2 DEF IsKept
  <2>. QED BY <1>1, <2>1, <2>2
<1>8. Without(t, E) = Keep(t, I) /\ Without(s, E) = Keep(s, J)
  BY DEF Without
<1> HIDE DEF t, I, J
<1>9. Without(t, E) = IF x \in E THEN Without(s, E) ELSE Append(Without(s, E), x)
  BY <1>2, <1>3, <1>5, <1>6, <1>7, <1>8
<1>. QED BY <1>9 DEF t

LEMMA WithoutEmpty ==
  ASSUME NEW E
  PROVE  Without(<<>>, E) = <<>>
<1> DEFINE I == {i \in DOMAIN <<>> : <<>>[i] \notin E}
<1>1. Len(<<>>) = 0
  OBVIOUS
<1>2. PICK g : IsKept(g, <<>>, I) /\ Keep(<<>>, I) = g[Len(<<>>)]
  BY <1>1, KeepRuns
<1>3. g[0] = <<>>
  <2> HIDE DEF I
  <2>. QED BY <1>1, <1>2 DEF IsKept
<1>4. Without(<<>>, E) = Keep(<<>>, I)
  BY DEF Without
<1> HIDE DEF I
<1>. QED BY <1>1, <1>2, <1>3, <1>4

\* A list is its last element after the others.
LEMMA LastOf ==
  ASSUME NEW X, NEW n \in Nat, NEW s \in Seq(X), Len(s) = n + 1
  PROVE  \E f \in Seq(X), x \in X : Len(f) = n /\ s = Append(f, x)
<1> DEFINE f == SubSeq(s, 1, n)
           x == s[n + 1]
<1>1. f \in Seq(X) /\ x \in X /\ Len(f) = n /\ \A i \in 1 .. n : f[i] = s[i]
  OBVIOUS
<1> HIDE DEF f, x
<1>2. Append(f, x) \in Seq(X) /\ Len(Append(f, x)) = Len(s)
  BY <1>1
<1>3. \A i \in 1 .. Len(s) : Append(f, x)[i] = s[i]
  <2>1. Append(f, x)[n + 1] = x /\ \A i \in 1 .. n : Append(f, x)[i] = f[i]
    BY <1>1
  <2>2. x = s[n + 1]
    BY DEF x
  <2>3. \A i \in 1 .. n + 1 : i \in 1 .. n \/ i = n + 1
    OBVIOUS
  <2>. QED BY <1>1, <2>1, <2>2, <2>3
<1>4. Append(f, x) = s
  BY <1>2, <1>3, SeqEqual
<1>. QED BY <1>1, <1>4

\* Induction over lists, for a set.
LEMMA ListInduction ==
  ASSUME NEW X, NEW S, <<>> \in S,
         \A f \in Seq(X), x \in X : f \in S => Append(f, x) \in S
  PROVE  Seq(X) \subseteq S
<1> DEFINE T == {n \in Nat : \A t \in Seq(X) : Len(t) = n => t \in S}
<1>1. 0 \in T
  <2>1. \A t \in Seq(X) : Len(t) = 0 => t = <<>>
    OBVIOUS
  <2>. QED BY <2>1
<1>2. ASSUME NEW n \in Nat, n \in T PROVE n + 1 \in T
  <2>1. ASSUME NEW t \in Seq(X), Len(t) = n + 1 PROVE t \in S
    <3>1. PICK f \in Seq(X), x \in X : Len(f) = n /\ t = Append(f, x)
      <4> HIDE DEF T
      <4>. QED BY <2>1, LastOf
    <3>. QED BY <1>2, <3>1
  <2>. QED BY <2>1
<1>3. Nat \subseteq T
  <2> HIDE DEF T
  <2>. QED BY <1>1, <1>2, SetInduction
<1>. QED BY <1>3

LEMMA WithoutTyped ==
  ASSUME NEW X, NEW s \in Seq(X), NEW E
  PROVE  /\ Without(s, E) \in Seq(X)
         /\ \A i \in 1 .. Len(Without(s, E)) :
              \E p \in 1 .. Len(s) : Without(s, E)[i] = s[p] /\ s[p] \notin E
<1> DEFINE I == {i \in DOMAIN s : s[i] \notin E}
           k == Keep(s, I)
<1>1. Without(s, E) = k
  BY DEF Without
<1>2. \A i \in I : i \in 1 .. Len(s) /\ s[i] \notin E
  OBVIOUS
<1>3. k \in Seq(X) /\ \E f : Picks(f, k, s, I, Len(s))
  <2> HIDE DEF I
  <2>. QED BY KeepPicks
<1> HIDE DEF k, I
<1>4. \A i \in 1 .. Len(k) : \E p \in 1 .. Len(s) : k[i] = s[p] /\ s[p] \notin E
  BY <1>2, <1>3 DEF Picks
<1>. QED BY <1>1, <1>3, <1>4

\* A filter that finds nothing leaves the list as it is.
LEMMA WithoutNone ==
  ASSUME NEW X, NEW s \in Seq(X), NEW E, \A i \in 1 .. Len(s) : s[i] \notin E
  PROVE  Without(s, E) = s
<1> DEFINE S == {t \in Seq(X) : (\A i \in 1 .. Len(t) : t[i] \notin E) => Without(t, E) = t}
<1>1. <<>> \in S
  BY WithoutEmpty
<1>2. ASSUME NEW f \in Seq(X), NEW x \in X, f \in S PROVE Append(f, x) \in S
  <2>1. Append(f, x) \in Seq(X)
    OBVIOUS
  <2>2. /\ Len(Append(f, x)) = Len(f) + 1 /\ Append(f, x)[Len(f) + 1] = x
        /\ \A i \in 1 .. Len(f) : Append(f, x)[i] = f[i] /\ i \in 1 .. Len(f) + 1
        /\ Len(f) + 1 \in 1 .. Len(f) + 1
    OBVIOUS
  <2>3. (\A i \in 1 .. Len(f) : f[i] \notin E) => Without(f, E) = f
    BY <1>2
  <2>5. Without(Append(f, x), E) = IF x \in E THEN Without(f, E) ELSE Append(Without(f, E), x)
    <3> HIDE DEF S
    <3>. QED BY WithoutAppend
  <2>6. ASSUME \A i \in 1 .. Len(Append(f, x)) : Append(f, x)[i] \notin E
        PROVE  Without(Append(f, x), E) = Append(f, x)
    <3> HIDE DEF S
    <3>1. x \notin E /\ \A i \in 1 .. Len(f) : f[i] \notin E
      BY <2>2, <2>6
    <3>. QED BY <2>3, <2>5, <3>1
  <2>. QED BY <2>1, <2>6
<1>3. s \in S
  <2> HIDE DEF S
  <2>. QED BY <1>1, <1>2, ListInduction
<1>. QED BY <1>3

\* Two filters after each other.
LEMMA WithoutBoth ==
  ASSUME NEW X, NEW s \in Seq(X), NEW A, NEW B
  PROVE  Without(Without(s, A), B) = Without(s, A \cup B)
<1> DEFINE S == {t \in Seq(X) : Without(Without(t, A), B) = Without(t, A \cup B)}
<1>1. <<>> \in S
  BY WithoutEmpty
<1>2. ASSUME NEW f \in Seq(X), NEW x \in X, f \in S PROVE Append(f, x) \in S
  <2>1. Without(Without(f, A), B) = Without(f, A \cup B) /\ Append(f, x) \in Seq(X)
    BY <1>2
  <2> HIDE DEF S
  <2>2. Without(f, A) \in Seq(X)
    BY WithoutTyped
  <2>3. Without(Append(f, x), A) = IF x \in A THEN Without(f, A) ELSE Append(Without(f, A), x)
    BY WithoutAppend
  <2>4. Without(Append(f, x), A \cup B) = IF x \in A \cup B THEN Without(f, A \cup B)
                                                   ELSE Append(Without(f, A \cup B), x)
    BY WithoutAppend
  <2>5. Without(Append(Without(f, A), x), B)
             = IF x \in B THEN Without(Without(f, A), B) ELSE Append(Without(Without(f, A), B), x)
    BY <2>2, WithoutAppend
  <2>6. Without(Without(Append(f, x), A), B) = Without(Append(f, x), A \cup B)
    <3>1. CASE x \in A
      BY <2>1, <2>3, <2>4, <3>1
    <3>2. CASE x \notin A /\ x \in B
      BY <2>1, <2>3, <2>4, <2>5, <3>2
    <3>3. CASE x \notin A /\ x \notin B
      BY <2>1, <2>3, <2>4, <2>5, <3>3
    <3>. QED BY <3>1, <3>2, <3>3
  <2>. QED BY <2>1, <2>6 DEF S
<1>3. s \in S
  <2> HIDE DEF S
  <2>. QED BY <1>1, <1>2, ListInduction
<1>. QED BY <1>3

\* a is a beginning of b.
Begins(a, b) == Len(a) <= Len(b) /\ \A i \in 1 .. Len(a) : a[i] = b[i]

\* A beginning of a list stays one through a filter.
LEMMA WithoutBegins ==
  ASSUME NEW X, NEW a \in Seq(X), NEW b \in Seq(X), NEW E, Begins(a, b)
  PROVE  Begins(Without(a, E), Without(b, E))
<1> DEFINE S == {t \in Seq(X) : Begins(a, t) => Begins(Without(a, E), Without(t, E))}
<1>0. Without(a, E) \in Seq(X)
  BY WithoutTyped
<1>3. ASSUME NEW t \in Seq(X), Len(t) = Len(a), Begins(a, t)
      PROVE  Begins(Without(a, E), Without(t, E))
  <2>1. a = t
    BY <1>3, SeqEqual DEF Begins
  <2>2. Begins(Without(a, E), Without(a, E))
    BY <1>0 DEF Begins
  <2>. QED BY <2>1, <2>2
<1>1. <<>> \in S
  <2>1. Begins(a, <<>>) => Len(a) = Len(<<>>)
    BY DEF Begins
  <2>2. Begins(a, <<>>) => Begins(Without(a, E), Without(<<>>, E))
    <3> HIDE DEF S
    <3>1. <<>> \in Seq(X)
      OBVIOUS
    <3>. QED BY <1>3, <2>1, <3>1
  <2>. QED BY <2>2
<1>2. ASSUME NEW f \in Seq(X), NEW x \in X, f \in S PROVE Append(f, x) \in S
  <2> DEFINE t == Append(f, x)
  <2>0. t \in Seq(X) /\ Len(t) = Len(f) + 1 /\ \A i \in 1 .. Len(f) : t[i] = f[i]
    OBVIOUS
  <2>1. ASSUME Begins(a, t) PROVE Begins(Without(a, E), Without(t, E))
    <3>1. Without(t, E) = IF x \in E THEN Without(f, E) ELSE Append(Without(f, E), x)
      <4> HIDE DEF S
      <4>. QED BY WithoutAppend
    <3>2. CASE Len(a) = Len(t)
      <4> HIDE DEF S, t
      <4>. QED BY <1>3, <2>0, <2>1, <3>2
    <3>3. CASE Len(a) # Len(t)
      <4>1. Len(a) \in Nat /\ Len(a) <= Len(f)
        <5> HIDE DEF S, t
        <5>. QED BY <2>0, <2>1, <3>3 DEF Begins
      <4>2. Begins(a, f)
        <5> HIDE DEF S, t
        <5>. QED BY <2>0, <2>1, <4>1 DEF Begins
      <4>3. Begins(Without(a, E), Without(f, E))
        BY <1>2, <4>2
      <4> DEFINE w == Without(f, E)
                 v == Without(a, E)
      <4>4. w \in Seq(X)
        <5> HIDE DEF S
        <5>. QED BY WithoutTyped
      <4>5. w \in Seq(X) /\ v \in Seq(X) /\ Begins(v, w)
        BY <1>0, <4>3, <4>4
      <4>6. Without(t, E) = IF x \in E THEN w ELSE Append(w, x)
        BY <3>1
      <4> HIDE DEF w, v, S, t
      <4>7. Begins(v, Append(w, x))
        BY <4>5 DEF Begins
      <4>8. Begins(v, Without(t, E))
        BY <4>5, <4>6, <4>7
      <4>. QED BY <4>8 DEF v
    <3>. QED BY <3>2, <3>3
  <2>. QED BY <2>0, <2>1
<1>4. b \in S
  <2> HIDE DEF S
  <2>. QED BY <1>1, <1>2, ListInduction
<1>. QED BY <1>4

\* A list without repetition.
Distinct(s) == \A i, j \in 1 .. Len(s) : s[i] = s[j] => i = j

\* What is there once is gone once.
LEMMA WithoutOne ==
  ASSUME NEW X, NEW s \in Seq(X), Distinct(s), NEW p \in 1 .. Len(s)
  PROVE  Len(Without(s, {s[p]})) = Len(s) - 1
<1> DEFINE y == s[p]
           S == {t \in Seq(X) : Distinct(t) /\ (\E i \in 1 .. Len(t) : t[i] = y)
                     => Len(Without(t, {y})) = Len(t) - 1}
<1>0. y \in X
  OBVIOUS
<1> HIDE DEF y
<1>1. <<>> \in S
  OBVIOUS
<1>2. ASSUME NEW f \in Seq(X), NEW x \in X, f \in S PROVE Append(f, x) \in S
  <2> DEFINE t == Append(f, x)
             n == Len(f)
  <2>0. /\ t \in Seq(X) /\ Len(t) = n + 1 /\ n \in Nat /\ t[n + 1] = x
        /\ \A i \in 1 .. n : t[i] = f[i]
    OBVIOUS
  <2>1. Without(t, {y}) = IF x \in {y} THEN Without(f, {y}) ELSE Append(Without(f, {y}), x)
    <3> HIDE DEF S
    <3>. QED BY WithoutAppend
  <2>2. Distinct(f) /\ (\E i \in 1 .. n : f[i] = y) => Len(Without(f, {y})) = n - 1
    BY <1>2
  <2>a. Without(f, {y}) \in Seq(X)
    <3> HIDE DEF S
    <3>. QED BY WithoutTyped
  <2>3. ASSUME Distinct(t), NEW i \in 1 .. Len(t), t[i] = y
        PROVE  Len(Without(t, {y})) = Len(t) - 1
    <3> HIDE DEF S, t
    <3>1. \A j \in 1 .. n : j \in 1 .. Len(t) /\ j # n + 1 /\ n + 1 \in 1 .. Len(t)
      BY <2>0
    <3>2. Distinct(f)
      BY <2>0, <2>3, <3>1 DEF Distinct
    <3>3. CASE x = y
      <4>1. \A j \in 1 .. n : f[j] \notin {y}
        <5>1. SUFFICES ASSUME NEW j \in 1 .. n, f[j] = y PROVE FALSE
          OBVIOUS
        <5>2. t[j] = t[n + 1]
          BY <2>0, <3>3, <5>1
        <5>. QED BY <2>3, <3>1, <5>2 DEF Distinct
      <4>2. Without(f, {y}) = f
        <5> HIDE DEF n
        <5>1. \A j \in 1 .. Len(f) : f[j] \notin {y}
          BY <4>1 DEF n
        <5>. QED BY <5>1, WithoutNone
      <4>. QED BY <2>0, <2>1, <3>3, <4>2
    <3>4. CASE x # y
      <4>1. i \in 1 .. n /\ f[i] = y
        BY <2>0, <2>3, <3>4
      <4>2. Len(Without(f, {y})) = n - 1
        BY <2>2, <3>2, <4>1
      <4> DEFINE w == Without(f, {y})
      <4>3. w \in Seq(X) /\ Len(w) = n - 1 /\ Without(t, {y}) = Append(w, x)
        BY <2>1, <2>a, <3>4, <4>2
      <4> HIDE DEF w
      <4>4. Len(Append(w, x)) = Len(w) + 1
        BY <4>3
      <4>. QED BY <2>0, <4>3, <4>4
    <3>. QED BY <3>3, <3>4
  <2>. QED BY <2>0, <2>3
<1>3. s \in S
  <2> HIDE DEF S
  <2>. QED BY <1>1, <1>2, ListInduction
<1>. QED BY <1>3 DEF y

\* A filter repeats nothing.
LEMMA WithoutDistinct ==
  ASSUME NEW X, NEW s \in Seq(X), Distinct(s), NEW E
  PROVE  Distinct(Without(s, E)) /\ Len(Without(s, E)) <= Len(s)
<1> DEFINE S == {t \in Seq(X) : Distinct(t)
                     => Distinct(Without(t, E)) /\ Len(Without(t, E)) <= Len(t)}
<1>1. <<>> \in S
  BY WithoutEmpty DEF Distinct
<1>2. ASSUME NEW f \in Seq(X), NEW y \in X, f \in S PROVE Append(f, y) \in S
  <2> DEFINE t == Append(f, y)
             n == Len(f)
             w == Without(f, E)
  <2>0. /\ t \in Seq(X) /\ Len(t) = n + 1 /\ n \in Nat /\ t[n + 1] = y
        /\ \A i \in 1 .. n : t[i] = f[i] /\ i # n + 1 /\ i \in 1 .. n + 1 /\ n + 1 \in 1 .. n + 1
    OBVIOUS
  <2>1. Distinct(f) => Distinct(w) /\ Len(w) <= n
    BY <1>2
  <2>2. /\ w \in Seq(X)
        /\ \A j \in 1 .. Len(w) : \E p \in 1 .. n : w[j] = f[p]
    <3> HIDE DEF S
    <3>. QED BY WithoutTyped
  <2>3. Without(t, E) = IF y \in E THEN w ELSE Append(w, y)
    <3> HIDE DEF S
    <3>. QED BY WithoutAppend
  <2>4. ASSUME Distinct(t) PROVE Distinct(Without(t, E)) /\ Len(Without(t, E)) <= Len(t)
    <3> HIDE DEF S, t, w
    <3>1. Distinct(f)
      BY <2>0, <2>4 DEF Distinct
    <3>2. \A j \in 1 .. Len(w) : w[j] # y
      <4>1. SUFFICES ASSUME NEW j \in 1 .. Len(w), w[j] = y PROVE FALSE
        OBVIOUS
      <4>2. PICK p \in 1 .. n : w[j] = f[p]
        BY <2>2
      <4>3. t[p] = t[n + 1]
        BY <2>0, <4>1, <4>2
      <4>. QED BY <2>0, <2>4, <4>2, <4>3 DEF Distinct
    <3>3. /\ Len(Append(w, y)) = Len(w) + 1 /\ Append(w, y)[Len(w) + 1] = y
          /\ \A j \in 1 .. Len(w) : Append(w, y)[j] = w[j]
      BY <2>2
    <3>4. ASSUME NEW j \in 1 .. Len(w) + 1, NEW k \in 1 .. Len(w) + 1,
                 Append(w, y)[j] = Append(w, y)[k]
          PROVE  j = k
      <4>1. CASE j \in 1 .. Len(w) /\ k \in 1 .. Len(w)
        BY <2>1, <3>1, <3>3, <3>4, <4>1 DEF Distinct
      <4>2. CASE j = Len(w) + 1 \/ k = Len(w) + 1
        BY <2>2, <3>2, <3>3, <3>4, <4>2
      <4>. QED BY <2>2, <4>1, <4>2
    <3>5. Distinct(Append(w, y)) /\ Len(Append(w, y)) <= n + 1
      BY <2>0, <2>1, <2>2, <3>1, <3>3, <3>4 DEF Distinct
    <3>. QED BY <2>0, <2>1, <2>2, <2>3, <3>1, <3>5
  <2>. QED BY <2>0, <2>4
<1>3. s \in S
  <2> HIDE DEF S
  <2>. QED BY <1>1, <1>2, ListInduction
<1>. QED BY <1>3
-----------------------------------------------------------------------------
(* CommentThread: a beginning of the list is shown, and its number.         *)

ThreadRequest ==
    [n : Nat, kind : {"load", "reload", "create", "delete"}, arg : Nat,
     phase : {"sent", "ok", "error"},
     got : [comments : Seq(Nat), total : Nat, pages : Nat], old : BOOLEAN, gone : BOOLEAN]

ThreadView ==
    [comments : Seq(Nat), total : Nat, page : Nat, pages : Nat, loading : BOOLEAN,
     failed : BOOLEAN]

\* The comments c of the server, of m written.
ServerTyped(c, m) ==
    m \in Nat /\ m <= MaxComments /\ c \in Seq(1 .. m) /\ Distinct(c) /\ Len(c) <= m

IsLoad(q)     == q.kind \in {"load", "reload"}
LiveLoad(q)   == IsLoad(q) /\ ~q.gone
Submits(q)    == q.kind \in {"create", "reload"} /\ ~q.gone
NewComment(q) == q.kind = "create" /\ q.phase = "ok"
WasRemoved(q)   == q.kind = "delete" /\ q.phase = "ok"

\* A request, when a were asked, m comments written, and the modal is open or not (o).
RequestFits(q, a, m, o) ==
    /\ q \in ThreadRequest /\ q.n <= a
    /\ IsLoad(q) => q.arg >= 1 /\ q.got.total <= m /\ q.got.comments \in Seq(1 .. m)
    /\ q.gone => q.phase = "sent"
    /\ o = FALSE => q.gone

ThreadAsks(R, a, m, o) ==
    /\ \A q \in R : RequestFits(q, a, m, o)
    /\ \A q, r \in R : q.n = r.n => q = r

\* There is a submission in flight, b, and there are never two.
SendsOnce(R, b) ==
    /\ b => \E q \in R : Submits(q)
    /\ \A q \in R : Submits(q) => b
    /\ \A q, r \in R : Submits(q) /\ Submits(r) => q = r

\* The deletions that were made and are not answered yet, and what they leave of what
\* is shown.
Removals(R) == {q \in R : WasRemoved(q)}
Gone(R)     == {q.arg : q \in Removals(R)}
Left(R, v)  == Without(v.comments, Gone(R))

\* The piece of the comments c, on page p.
PieceOf(c, p) ==
    SubSeq(c, (p - 1) * Take + 1, IF p * Take < Len(c) THEN p * Take ELSE Len(c))

\* What is read of them.
Found(c, p) ==
    [comments |-> PieceOf(c, p), total |-> Len(c), pages |-> (Len(c) + Take - 1) \div Take]

\* What was read of the list since its last change is what it is.
Fresh(R, c) ==
    \A q \in R : IsLoad(q) /\ q.phase = "ok" /\ ~q.old => q.got = Found(c, q.arg)

\* Nothing has crossed; and nothing is to come that changes what is shown but deletions.
Uncrossed(R, o, u) == o = TRUE /\ u = FALSE /\ \A q \in Removals(R) : ~q.old
Quiet(R, v, o, u)  ==
    Uncrossed(R, o, u) /\ ~v.failed /\ \A q \in R : ~LiveLoad(q) /\ ~NewComment(q)

Agreed(R, v, c, o, u) ==
    /\ Uncrossed(R, o, u) => Begins(Left(R, v), c)
    /\ Quiet(R, v, o, u) => /\ v.total = Len(c) + Cardinality(Removals(R))
                            /\ v.page < v.pages \/ Left(R, v) = c

\* A comment that is not counted yet.
Counted(R, v, m) == v.total <= m + 1 /\ \A q \in R : NewComment(q) => v.total <= m

ThreadTyped ==
    /\ ServerTyped(comments, made)
    /\ mine \subseteq 1 .. made /\ commenter \in Commenters
    /\ open \in BOOLEAN /\ submitting \in BOOLEAN /\ threadMuddled \in BOOLEAN
    /\ count \in 0 .. MaxComments + 1 /\ threadAsked \in Nat
    /\ view \in ThreadView /\ view.comments \in Seq(1 .. made)

ThreadInv ==
    /\ ThreadTyped
    /\ ThreadAsks(threadRequests, threadAsked, made, open)
    /\ IsFiniteSet(Removals(threadRequests))
    /\ SendsOnce(threadRequests, submitting)
    /\ view.loading => \E q \in threadRequests : LiveLoad(q)
    /\ Counted(threadRequests, view, made)
    /\ Fresh(threadRequests, comments)
    /\ Agreed(threadRequests, view, comments, open, threadMuddled)

\* s is the request r, but for what it has missed.
Same(r, s) ==
    /\ s.n = r.n /\ s.kind = r.kind /\ s.arg = r.arg /\ s.phase = r.phase
    /\ s.got = r.got /\ s.gone = r.gone /\ s \in ThreadRequest

\* S are the requests K, but for what they have missed.
Carried(K, S) ==
    /\ \A s \in S : \E r \in K : Same(r, s)
    /\ \A r \in K : \E s \in S : Same(r, s)
    /\ \A s, t \in S : s.n = t.n => s = t

LEMMA CarriedAsks ==
  ASSUME NEW R, NEW a \in Nat, NEW m \in Nat, NEW o, ThreadAsks(R, a, m, o),
         NEW K \in SUBSET R, NEW S, Carried(K, S),
         NEW b \in Nat, a <= b, NEW l \in Nat, m <= l
  PROVE  ThreadAsks(S, b, l, o)
<1>1. ASSUME NEW s \in S PROVE RequestFits(s, b, l, o)
  <2>1. PICK r \in K : Same(r, s)
    BY DEF Carried
  <2>2. RequestFits(r, a, m, o)
    BY DEF ThreadAsks
  <2>3. s \in ThreadRequest /\ s.n <= b
    <3>1. s \in ThreadRequest /\ s.n = r.n /\ r.n <= a /\ s.n \in Nat
      BY <2>1, <2>2 DEF Same, RequestFits, ThreadRequest
    <3>. QED BY <3>1
  <2>4. IsLoad(s) => s.arg >= 1 /\ s.got.total <= l /\ s.got.comments \in Seq(1 .. l)
    <3>1. SUFFICES ASSUME IsLoad(s)
                   PROVE  s.arg >= 1 /\ s.got.total <= l /\ s.got.comments \in Seq(1 .. l)
      OBVIOUS
    <3>2. s.arg >= 1 /\ s.got.total <= m /\ s.got.comments \in Seq(1 .. m)
      BY <2>1, <2>2, <3>1 DEF Same, RequestFits, IsLoad
    <3>3. s.got.total \in Nat
      BY <2>3 DEF ThreadRequest
    <3>4. Seq(1 .. m) \subseteq Seq(1 .. l)
      <4>1. \A i \in 1 .. m : i \in 1 .. l
        OBVIOUS
      <4>2. ASSUME NEW x \in Seq(1 .. m) PROVE x \in Seq(1 .. l)
        BY <4>1
      <4>. QED BY <4>2
    <3>. QED BY <3>2, <3>3, <3>4
  <2>5. (s.gone => s.phase = "sent") /\ (o = FALSE => s.gone)
    BY <2>1, <2>2 DEF Same, RequestFits
  <2>. QED BY <2>3, <2>4, <2>5 DEF RequestFits
<1>. QED BY <1>1 DEF ThreadAsks, Carried

LEMMA CarriedSends ==
  ASSUME NEW R, NEW b, SendsOnce(R, b), NEW x \in R, NEW S, Carried(R \ {x}, S)
  PROVE  /\ ~Submits(x) => SendsOnce(S, b)
         /\ Submits(x) => SendsOnce(S, FALSE)
<1>1. \A r, s : Same(r, s) => (Submits(r) <=> Submits(s)) /\ r.n = s.n
  BY DEF Same, Submits
<1>2. \A q \in S : Submits(q) => \E r \in R \ {x} : Submits(r) /\ r.n = q.n
  BY <1>1 DEF Carried
<1>3. \A q, r \in S : Submits(q) /\ Submits(r) => q = r
  <2>1. SUFFICES ASSUME NEW q \in S, NEW r \in S, Submits(q), Submits(r) PROVE q = r
    OBVIOUS
  <2>2. PICK i \in R \ {x} : Submits(i) /\ i.n = q.n
    BY <1>2, <2>1
  <2>3. PICK j \in R \ {x} : Submits(j) /\ j.n = r.n
    BY <1>2, <2>1
  <2>4. i = j
    BY <2>2, <2>3 DEF SendsOnce
  <2>. QED BY <2>2, <2>3, <2>4 DEF Carried
<1>4. ~Submits(x) /\ b => \E q \in S : Submits(q)
  <2>1. SUFFICES ASSUME ~Submits(x), b PROVE \E q \in S : Submits(q)
    OBVIOUS
  <2>2. PICK r \in R \ {x} : Submits(r)
    BY <2>1 DEF SendsOnce
  <2>. QED BY <1>1, <2>2 DEF Carried
<1>5. \A q \in S : Submits(q) => b
  BY <1>2 DEF SendsOnce
<1>6. Submits(x) => \A q \in S : ~Submits(q)
  BY <1>2 DEF SendsOnce
<1>. QED BY <1>3, <1>4, <1>5, <1>6 DEF SendsOnce

LEMMA CarriedSendsAll ==
  ASSUME NEW R, NEW b, SendsOnce(R, b), NEW S, Carried(R, S)
  PROVE  SendsOnce(S, b)
<1>1. \A r, s : Same(r, s) => (Submits(r) <=> Submits(s)) /\ r.n = s.n
  BY DEF Same, Submits
<1>2. \A q \in S : Submits(q) => \E r \in R : Submits(r) /\ r.n = q.n
  BY <1>1 DEF Carried
<1>3. \A q, r \in S : Submits(q) /\ Submits(r) => q = r
  BY <1>2 DEF Carried, SendsOnce
<1>4. b => \E q \in S : Submits(q)
  BY <1>1 DEF Carried, SendsOnce
<1>. QED BY <1>2, <1>3, <1>4 DEF SendsOnce

LEMMA AddedAsks ==
  ASSUME NEW S, NEW a, NEW m, NEW o, ThreadAsks(S, a, m, o),
         NEW x, RequestFits(x, a, m, o), \A s \in S : s.n # x.n
  PROVE  ThreadAsks(S \cup {x}, a, m, o)
BY DEF ThreadAsks

LEMMA AddedSends ==
  ASSUME NEW S, NEW b, SendsOnce(S, b), NEW x, ~Submits(x)
  PROVE  SendsOnce(S \cup {x}, b)
BY DEF SendsOnce

LEMMA AddedSubmission ==
  ASSUME NEW S, SendsOnce(S, FALSE), NEW x, Submits(x)
  PROVE  SendsOnce(S \cup {x}, TRUE)
BY DEF SendsOnce

\* Some of the requests as they are.
LEMMA CarriedAsIs ==
  ASSUME NEW R, NEW a, NEW m, NEW o, ThreadAsks(R, a, m, o), NEW K \in SUBSET R
  PROVE  Carried(K, K)
BY DEF Carried, Same, ThreadAsks, RequestFits

\* A request more that changes nothing of what is shown, or one less.
LEMMA AgreedSame ==
  ASSUME NEW R, NEW S, NEW v, NEW w, NEW c, NEW o, NEW u, NEW t, Agreed(R, v, c, o, u),
         Removals(S) = Removals(R), w.comments = v.comments, t = FALSE => u = FALSE,
         Quiet(S, w, o, t) => /\ Quiet(R, v, o, u)
                              /\ w.total = v.total /\ w.page = v.page /\ w.pages = v.pages
  PROVE  Agreed(S, w, c, o, t)
<1>1. Left(S, w) = Left(R, v)
  BY DEF Left, Gone
<1>2. Uncrossed(S, o, t) => Uncrossed(R, o, u)
  BY DEF Uncrossed
<1>. QED BY <1>1, <1>2 DEF Agreed

LEMMA ThreadPiece ==
  ASSUME NEW p
  PROVE  Thread!FindByReview(p) = Found(comments, p)
BY DEF Thread!FindByReview, Thread!Piece, Found, PieceOf

LEMMA ThreadWithout ==
  ASSUME NEW s, NEW E
  PROVE  Thread!Without(s, E) = Without(s, E)
BY DEF Thread!Without, Thread!Keep, Without, Keep

\* What is asked for.
LEMMA RequestFields ==
  ASSUME NEW k, NEW p
  PROVE  /\ Thread!Request(k, p).n = threadAsked + 1 /\ Thread!Request(k, p).kind = k
         /\ Thread!Request(k, p).arg = p /\ Thread!Request(k, p).phase = "sent"
         /\ Thread!Request(k, p).got = [comments |-> <<>>, total |-> 0, pages |-> 0]
         /\ Thread!Request(k, p).old = FALSE /\ Thread!Request(k, p).gone = FALSE
BY DEF Thread!Request, Thread!Nothing

LEMMA NewRequest ==
  ASSUME threadAsked \in Nat, NEW m \in Nat,
         NEW k \in {"load", "reload", "create", "delete"}, NEW p \in Nat,
         k \in {"load", "reload"} => p >= 1
  PROVE  RequestFits(Thread!Request(k, p), threadAsked + 1, m, TRUE)
<1> DEFINE x == Thread!Request(k, p)
           g == [comments |-> <<>>, total |-> 0, pages |-> 0]
<1>1. x = [n |-> threadAsked + 1, kind |-> k, arg |-> p, phase |-> "sent", got |-> g,
           old |-> FALSE, gone |-> FALSE]
  BY DEF Thread!Request, Thread!Nothing
<1>2. <<>> \in Seq(Nat) /\ <<>> \in Seq(1 .. m)
  OBVIOUS
<1>3. g \in [comments : Seq(Nat), total : Nat, pages : Nat] /\ g.total = 0 /\ g.comments = <<>>
  BY <1>2
<1> HIDE DEF x, g
<1>4. x \in ThreadRequest
  BY <1>1, <1>3 DEF ThreadRequest
<1>5. x.got = g /\ x.n = threadAsked + 1 /\ x.kind = k /\ x.arg = p /\ x.gone = FALSE
  BY <1>1
<1>6. x.n <= threadAsked + 1 /\ (IsLoad(x) => x.arg >= 1)
  BY <1>5 DEF IsLoad
<1>7. RequestFits(x, threadAsked + 1, m, TRUE)
  BY <1>2, <1>3, <1>4, <1>5, <1>6 DEF RequestFits
<1>. QED BY <1>7 DEF x

LEMMA LoadingView ==
  ASSUME NEW v \in ThreadView
  PROVE  /\ Thread!Loading(v) \in ThreadView
         /\ Thread!Loading(v).comments = v.comments /\ Thread!Loading(v).total = v.total
         /\ Thread!Loading(v).page = v.page /\ Thread!Loading(v).pages = v.pages
         /\ Thread!Loading(v).loading = TRUE /\ Thread!Loading(v).failed = FALSE
<1> DEFINE w == [comments |-> v.comments, total |-> v.total, page |-> v.page, pages |-> v.pages,
                 loading |-> TRUE, failed |-> FALSE]
<1>1. Thread!Loading(v) = w
  <2> DEFINE u == [v EXCEPT !.loading = TRUE]
  <2>1. DOMAIN v = {"comments", "total", "page", "pages", "loading", "failed"}
    BY DEF ThreadView
  <2>2. /\ DOMAIN u = DOMAIN v /\ u.loading = TRUE
        /\ \A f \in DOMAIN v : f # "loading" => u[f] = v[f]
    BY <2>1
  <2>3. Thread!Loading(v) = [u EXCEPT !.failed = FALSE]
    BY DEF Thread!Loading
  <2> HIDE DEF u
  <2>. QED BY <2>1, <2>2, <2>3
<1>2. w \in ThreadView
  BY DEF ThreadView
<1>. QED BY <1>1, <1>2

LEMMA ThreadInit ==
  ASSUME Thread!Init, ThreadAssumption
  PROVE  ThreadInv
<1> USE DEF Thread!Init
<1>1. PICK m \in 0 .. MaxComments : made = m /\ comments = [i \in 1 .. m |-> i]
  OBVIOUS
<1>2. m \in Nat /\ m <= MaxComments
  BY <1>1 DEF ThreadAssumption
<1>3. comments \in Seq(1 .. m) /\ Len(comments) = m /\ \A i \in 1 .. m : comments[i] = i
  BY <1>1, <1>2
<1>4. ServerTyped(comments, made)
  BY <1>1, <1>2, <1>3 DEF ServerTyped, Distinct
<1>5. view \in ThreadView /\ view.comments \in Seq(1 .. made) /\ view.total = 0 /\ ~view.loading
  <2>1. <<>> \in Seq(Nat) /\ <<>> \in Seq(1 .. made)
    OBVIOUS
  <2>2. view = [comments |-> <<>>, total |-> 0, page |-> 1, pages |-> 1,
                loading |-> FALSE, failed |-> FALSE]
    BY DEF Thread!Blank
  <2>. QED BY <2>1, <2>2 DEF ThreadView
<1>6. ThreadTyped
  <2>1. mine \subseteq 1 .. made
    BY <1>1
  <2>2. count \in 0 .. MaxComments + 1
    BY <1>1, <1>2 DEF ThreadAssumption
  <2>. QED BY <1>4, <1>5, <2>1, <2>2 DEF ThreadTyped
<1>7. threadRequests = {} /\ ~open /\ submitting = FALSE
  OBVIOUS
<1>8. IsFiniteSet(Removals(threadRequests))
  BY <1>7, FS_EmptySet DEF Removals
<1>9. Counted(threadRequests, view, made)
  BY <1>1, <1>2, <1>5, <1>7 DEF Counted
<1>10. ThreadAsks(threadRequests, threadAsked, made, open) /\ SendsOnce(threadRequests, submitting)
  BY <1>7 DEF ThreadAsks, SendsOnce
<1>11. Fresh(threadRequests, comments)
  BY <1>7 DEF Fresh
<1>12. Agreed(threadRequests, view, comments, open, threadMuddled)
  BY <1>7 DEF Agreed, Uncrossed, Quiet
<1>. QED BY <1>5, <1>6, <1>8, <1>9, <1>10, <1>11, <1>12 DEF ThreadInv

\* A request that was sent is no deletion that was made.
LEMMA SentRemoves ==
  ASSUME NEW R, NEW x, ~WasRemoved(x)
  PROVE  Removals(R \cup {x}) = Removals(R) /\ Removals(R \ {x}) = Removals(R)
BY DEF Removals

\* The viewer asks for something more.
LEMMA ThreadAskStep ==
  ASSUME ThreadInv, open, NEW k \in {"load", "create", "delete"}, NEW p \in Nat,
         k = "load" => p >= 1, k = "create" => ~submitting,
         threadRequests' = threadRequests \cup {Thread!Request(k, p)},
         threadAsked' = threadAsked + 1,
         UNCHANGED <<comments, made, mine, commenter, open, count, threadMuddled>>,
         submitting' = (submitting \/ k = "create"),
         view' \in ThreadView, view'.comments = view.comments, view'.total = view.total,
         k # "load" => view' = view
  PROVE  ThreadInv'
<1> DEFINE x == Thread!Request(k, p)
           R == threadRequests
           S == R \cup {x}
<1>1. threadAsked \in Nat /\ made \in Nat /\ open = TRUE /\ made' = made /\ comments' = comments
      /\ open' = open /\ threadMuddled' = threadMuddled
  BY DEF ThreadInv, ThreadTyped, ServerTyped
<1>2. /\ RequestFits(x, threadAsked + 1, made, open)
      /\ x.n = threadAsked + 1 /\ x.kind = k /\ x.arg = p /\ x.phase = "sent" /\ ~x.old /\ ~x.gone
  <2>1. k \in {"load", "reload", "create", "delete"} /\ (k \in {"load", "reload"} => p >= 1)
    OBVIOUS
  <2>2. RequestFits(x, threadAsked + 1, made, TRUE)
    BY <1>1, <2>1, NewRequest
  <2>3. x.n = threadAsked + 1 /\ x.kind = k /\ x.arg = p /\ x.phase = "sent" /\ ~x.old /\ ~x.gone
    BY RequestFields
  <2>. QED BY <1>1, <2>2, <2>3
<1>3. threadRequests' = S
  OBVIOUS
<1> HIDE DEF x
<1>4. ThreadTyped'
  BY <1>1 DEF ThreadInv, ThreadTyped
<1>5. ThreadAsks(S, threadAsked + 1, made, open)
  <2>1. ThreadAsks(R, threadAsked, made, open)
    BY DEF ThreadInv
  <2>2. Carried(R, R)
    BY <2>1, CarriedAsIs
  <2>3. threadAsked + 1 \in Nat /\ threadAsked <= threadAsked + 1 /\ made <= made
    BY <1>1
  <2>4. ThreadAsks(R, threadAsked + 1, made, open)
    BY <1>1, <2>1, <2>2, <2>3, CarriedAsks
  <2>5. \A s \in R : s.n # x.n
    BY <1>1, <1>2, <2>1 DEF ThreadAsks, RequestFits, ThreadRequest
  <2>. QED BY <1>2, <2>4, <2>5, AddedAsks
<1>6. Removals(S) = Removals(R)
  BY <1>2, SentRemoves DEF WasRemoved
<1>7. SendsOnce(S, submitting')
  <2>1. SendsOnce(R, submitting) /\ (Submits(x) <=> k = "create")
    BY <1>2 DEF ThreadInv, Submits
  <2>2. CASE k = "create"
    <3>1. submitting = FALSE
      BY <2>2 DEF ThreadInv, ThreadTyped
    <3>2. SendsOnce(R, FALSE) /\ Submits(x)
      BY <2>1, <2>2, <3>1
    <3>3. SendsOnce(S, TRUE)
      BY <3>2, AddedSubmission
    <3>. QED BY <2>2, <3>3
  <2>3. CASE k # "create"
    <3>1. SendsOnce(S, submitting)
      BY <2>1, <2>3, AddedSends
    <3>2. submitting' = submitting
      BY <2>3 DEF ThreadInv, ThreadTyped
    <3>. QED BY <3>1, <3>2
  <2>. QED BY <2>2, <2>3
<1>8. view'.loading => \E q \in S : LiveLoad(q)
  <2>1. CASE k = "load"
    BY <1>2, <2>1 DEF LiveLoad, IsLoad
  <2>2. CASE k # "load"
    BY <2>2 DEF ThreadInv
  <2>. QED BY <2>1, <2>2
<1>9. Counted(S, view', made)
  BY <1>2 DEF ThreadInv, Counted, NewComment
<1>10. Fresh(S, comments)
  BY <1>2 DEF ThreadInv, Fresh
<1>11. Agreed(S, view', comments, open, threadMuddled)
  <2>1. ASSUME Quiet(S, view', open, threadMuddled)
        PROVE  Quiet(R, view, open, threadMuddled) /\ view' = view
    <3>1. k # "load"
      BY <1>2, <2>1 DEF Quiet, LiveLoad, IsLoad
    <3>. QED BY <1>6, <2>1, <3>1 DEF Quiet, Uncrossed
  <2>2. Agreed(R, view, comments, open, threadMuddled)
    BY DEF ThreadInv
  <2>3. /\ Quiet(S, view', open, threadMuddled) => /\ Quiet(R, view, open, threadMuddled)
                              /\ view'.total = view.total /\ view'.page = view.page
                              /\ view'.pages = view.pages
        /\ view'.comments = view.comments /\ (threadMuddled = FALSE => threadMuddled = FALSE)
    BY <2>1
  <2> HIDE DEF S, R
  <2>. QED BY <1>6, <2>2, <2>3, AgreedSame
<1>12. IsFiniteSet(Removals(S))
  BY <1>6 DEF ThreadInv
<1> HIDE DEF S, R
<1>. QED BY <1>1, <1>3, <1>4, <1>5, <1>7, <1>8, <1>9, <1>10, <1>11, <1>12 DEF ThreadInv

\* A request of which one field is changed.
LEMMA GoneRequest ==
  ASSUME NEW q \in ThreadRequest
  PROVE  LET s == [q EXCEPT !.gone = TRUE]
         IN  /\ s \in ThreadRequest /\ s.gone = TRUE
             /\ s.n = q.n /\ s.kind = q.kind /\ s.arg = q.arg /\ s.phase = q.phase
             /\ s.got = q.got
BY DEF ThreadRequest

LEMMA OldRequest ==
  ASSUME NEW q \in ThreadRequest, NEW b \in BOOLEAN
  PROVE  LET s == [q EXCEPT !.old = b]
         IN  /\ Same(q, s) /\ s.old = b
             /\ b = q.old => s = q
<1> DEFINE s == [q EXCEPT !.old = b]
<1>1. /\ s \in ThreadRequest /\ s.old = b
      /\ s.n = q.n /\ s.kind = q.kind /\ s.arg = q.arg /\ s.phase = q.phase
      /\ s.got = q.got /\ s.gone = q.gone
  BY DEF ThreadRequest
<1>2. b = q.old => s = q
  BY DEF ThreadRequest
<1>. QED BY <1>1, <1>2 DEF Same

LEMMA OpenStep ==
  ASSUME ThreadInv, Thread!Open
  PROVE  ThreadInv'
<1> DEFINE x == Thread!Request("load", 1)
           R == threadRequests
           S == R \cup {x}
<1>1. /\ open = FALSE /\ open' = TRUE /\ view' = Thread!Loading(Thread!Blank)
      /\ submitting' = FALSE /\ threadMuddled' = FALSE
      /\ threadAsked' = threadAsked + 1 /\ threadRequests' = S
      /\ comments' = comments /\ made' = made /\ mine' = mine
      /\ commenter' = commenter /\ count' = count
  BY DEF Thread!Open, Thread!Ask, Thread!server, ThreadInv, ThreadTyped
<1>2. threadAsked \in Nat /\ made \in Nat
  BY DEF ThreadInv, ThreadTyped, ServerTyped
<1>3. /\ RequestFits(x, threadAsked + 1, made, TRUE)
      /\ x.n = threadAsked + 1 /\ x.kind = "load" /\ x.phase = "sent" /\ ~x.gone
  <2>1. \A k \in {"load", "reload", "create", "delete"}, p \in Nat :
          p >= 1 => RequestFits(Thread!Request(k, p), threadAsked + 1, made, TRUE)
    BY <1>2, NewRequest
  <2>2. "load" \in {"load", "reload", "create", "delete"} /\ 1 \in Nat /\ 1 >= 1
    OBVIOUS
  <2>3. RequestFits(x, threadAsked + 1, made, TRUE)
    BY <2>1, <2>2
  <2>4. x.n = threadAsked + 1 /\ x.kind = "load" /\ x.phase = "sent" /\ ~x.gone
    BY DEF Thread!Request
  <2>. QED BY <2>3, <2>4
<1> HIDE DEF x
<1>4. ThreadAsks(R, threadAsked, made, FALSE)
  BY <1>1 DEF ThreadInv
<1>5. \A q \in R : q.gone /\ q.phase = "sent"
  BY <1>4 DEF ThreadAsks, RequestFits
<1>6. view' \in ThreadView /\ view'.comments = <<>> /\ view'.total = 0 /\ view'.failed = FALSE
  <2>1. <<>> \in Seq(Nat)
    OBVIOUS
  <2>2. Thread!Blank \in ThreadView /\ Thread!Blank.comments = <<>> /\ Thread!Blank.total = 0
    BY <2>1 DEF Thread!Blank, ThreadView
  <2>. QED BY <1>1, <2>2, LoadingView
<1>7. ThreadTyped'
  <2>1. view'.comments \in Seq(1 .. made)
    BY <1>6
  <2>2. threadAsked' \in Nat
    BY <1>1, <1>2
  <2>3. open' \in BOOLEAN /\ submitting' \in BOOLEAN /\ threadMuddled' \in BOOLEAN
    BY <1>1
  <2>. QED BY <1>1, <1>6, <2>1, <2>2, <2>3 DEF ThreadInv, ThreadTyped
<1>8. ThreadAsks(S, threadAsked + 1, made, TRUE)
  <2>1. Carried(R, R)
    BY <1>4, CarriedAsIs
  <2>2. threadAsked + 1 \in Nat /\ threadAsked <= threadAsked + 1 /\ made <= made
    BY <1>2
  <2>3. ThreadAsks(R, threadAsked + 1, made, FALSE)
    BY <1>2, <1>4, <2>1, <2>2, CarriedAsks
  <2>4. ThreadAsks(R, threadAsked + 1, made, TRUE)
    BY <2>3 DEF ThreadAsks, RequestFits
  <2>5. \A s \in R : s.n # x.n
    BY <1>2, <1>3, <1>4 DEF ThreadAsks, RequestFits, ThreadRequest
  <2>. QED BY <1>3, <2>4, <2>5, AddedAsks
<1>9. Removals(S) = {}
  BY <1>3, <1>5 DEF Removals, WasRemoved
<1>10. SendsOnce(S, FALSE)
  BY <1>3, <1>5 DEF SendsOnce, Submits
<1>11. \E q \in S : LiveLoad(q)
  BY <1>3 DEF LiveLoad, IsLoad
<1>12. Counted(S, view', made)
  BY <1>2, <1>6 DEF Counted
<1>13. Fresh(S, comments)
  BY <1>3, <1>5 DEF Fresh
<1>14. Agreed(S, view', comments, TRUE, FALSE)
  <2>1. ~Quiet(S, view', TRUE, FALSE)
    BY <1>11 DEF Quiet
  <2>2. Left(S, view') = <<>>
    BY <1>6, WithoutEmpty DEF Left
  <2>3. Begins(<<>>, comments)
    BY DEF Begins, ThreadInv, ThreadTyped, ServerTyped
  <2>. QED BY <2>1, <2>2, <2>3 DEF Agreed
<1>15. IsFiniteSet(Removals(S))
  BY <1>9, FS_EmptySet
<1> HIDE DEF S, R
<1>. QED BY <1>1, <1>7, <1>8, <1>10, <1>11, <1>12, <1>13, <1>14, <1>15 DEF ThreadInv

LEMMA CloseStep ==
  ASSUME ThreadInv, Thread!Close, ThreadAssumption
  PROVE  ThreadInv'
<1> DEFINE R == threadRequests
           K == {r \in R : r.phase = "sent"}
           S == {[q EXCEPT !.gone = TRUE] : q \in K}
<1>1. /\ open' = FALSE /\ count' = view.total /\ view' = Thread!Blank /\ submitting' = FALSE
      /\ threadRequests' = S /\ threadAsked' = threadAsked /\ threadMuddled' = threadMuddled
      /\ comments' = comments /\ made' = made /\ mine' = mine /\ commenter' = commenter
  BY DEF Thread!Close, Thread!server
<1>2. threadAsked \in Nat /\ made \in Nat /\ made <= MaxComments /\ MaxComments \in Nat
  BY DEF ThreadInv, ThreadTyped, ServerTyped, ThreadAssumption
<1>3. ThreadAsks(R, threadAsked, made, open)
  BY DEF ThreadInv
<1> DEFINE Closed(q) == [q EXCEPT !.gone = TRUE]
<1>4. \A s \in S : \E q \in R : /\ q.phase = "sent" /\ s = Closed(q)
                                /\ s \in ThreadRequest /\ s.gone = TRUE /\ s.n = q.n
                                /\ s.kind = q.kind /\ s.arg = q.arg /\ s.phase = "sent"
                                /\ s.got = q.got
  <2>1. ASSUME NEW q \in K
        PROVE  /\ Closed(q) \in ThreadRequest /\ Closed(q).gone = TRUE
               /\ Closed(q).n = q.n /\ Closed(q).kind = q.kind /\ Closed(q).arg = q.arg
               /\ Closed(q).phase = q.phase /\ Closed(q).got = q.got
    <3>1. q \in ThreadRequest
      BY <1>3 DEF ThreadAsks, RequestFits
    <3>. QED BY <3>1, GoneRequest
  <2>2. \A s \in S : \E q \in K : s = Closed(q)
    OBVIOUS
  <2>3. \A q \in K : q \in R /\ q.phase = "sent"
    OBVIOUS
  <2> HIDE DEF Closed, S, K
  <2>4. ASSUME NEW s \in S
        PROVE  \E q \in R : /\ q.phase = "sent" /\ s = Closed(q)
                            /\ s \in ThreadRequest /\ s.gone = TRUE /\ s.n = q.n
                            /\ s.kind = q.kind /\ s.arg = q.arg /\ s.phase = "sent"
                            /\ s.got = q.got
    <3>1. PICK q \in K : s = Closed(q)
      BY <2>2
    <3>2. q \in R /\ q.phase = "sent"
      BY <2>3
    <3>. QED BY <2>1, <3>1, <3>2
  <2>. QED BY <2>4
<1> HIDE DEF Closed
<1> HIDE DEF S
<1>5. ThreadAsks(S, threadAsked, made, FALSE)
  <2>1. \A s \in S : RequestFits(s, threadAsked, made, FALSE)
    BY <1>3, <1>4 DEF ThreadAsks, RequestFits, IsLoad
  <2>2. \A s, t \in S : s.n = t.n => s = t
    BY <1>3, <1>4 DEF ThreadAsks
  <2>. QED BY <2>1, <2>2 DEF ThreadAsks
<1>6. view' \in ThreadView /\ view'.comments = <<>> /\ view'.total = 0 /\ ~view'.loading
  <2>1. <<>> \in Seq(Nat)
    OBVIOUS
  <2>. QED BY <1>1, <2>1 DEF Thread!Blank, ThreadView
<1>7. ThreadTyped'
  <2>1. view'.comments \in Seq(1 .. made)
    BY <1>6
  <2>2. view.total \in Nat /\ view.total <= made + 1
    BY DEF ThreadInv, ThreadTyped, ThreadView, Counted
  <2>3. view.total \in 0 .. MaxComments + 1
    BY <1>2, <2>2
  <2>. QED BY <1>1, <1>2, <1>6, <2>1, <2>3 DEF ThreadInv, ThreadTyped
<1>8. Removals(S) = {}
  BY <1>4 DEF Removals, WasRemoved
<1>9. SendsOnce(S, FALSE)
  BY <1>4 DEF SendsOnce, Submits
<1>10. Counted(S, view', made)
  BY <1>2, <1>6 DEF Counted
<1>11. Fresh(S, comments)
  BY <1>4 DEF Fresh
<1>12. Agreed(S, view', comments, FALSE, threadMuddled)
  BY DEF Agreed, Quiet, Uncrossed
<1>13. IsFiniteSet(Removals(S))
  BY <1>8, FS_EmptySet
<1> HIDE DEF R
<1>. QED BY <1>1, <1>5, <1>6, <1>7, <1>9, <1>10, <1>11, <1>12, <1>13 DEF ThreadInv

LEMMA ThreadAsksMoreStep ==
  ASSUME ThreadInv,
         Thread!LoadMore \/ Thread!Submit
           \/ \E c \in Thread!Elements(view.comments) : Thread!Delete(c)
  PROVE  ThreadInv'
<1> USE DEF Thread!Ask, Thread!server
<1>1. view \in ThreadView /\ view.comments \in Seq(1 .. made)
  BY DEF ThreadInv, ThreadTyped
<1>2. CASE Thread!LoadMore
  <2>1. /\ open /\ view' = Thread!Loading(view)
        /\ threadRequests' = threadRequests \cup {Thread!Request("load", view.page + 1)}
        /\ threadAsked' = threadAsked + 1 /\ submitting' = submitting
        /\ UNCHANGED <<comments, made, mine, commenter, open, count, threadMuddled>>
    BY <1>2 DEF Thread!LoadMore
  <2>2. view.page + 1 \in Nat /\ view.page + 1 >= 1
    BY <1>1 DEF ThreadView
  <2>3. view' \in ThreadView /\ view'.comments = view.comments /\ view'.total = view.total
    BY <1>1, <2>1, LoadingView
  <2>4. submitting' = (submitting \/ "load" = "create")
    BY <2>1 DEF ThreadInv, ThreadTyped
  <2> DEFINE p == view.page + 1
  <2> HIDE DEF p
  <2>5. /\ p \in Nat /\ p >= 1
        /\ threadRequests' = threadRequests \cup {Thread!Request("load", p)}
    BY <2>1, <2>2 DEF p
  <2>. QED BY <2>1, <2>3, <2>4, <2>5, ThreadAskStep
<1>3. CASE Thread!Submit
  <2>1. /\ open /\ view' = view /\ submitting = FALSE
        /\ threadRequests' = threadRequests \cup {Thread!Request("create", 0)}
        /\ threadAsked' = threadAsked + 1 /\ submitting' = TRUE
        /\ UNCHANGED <<comments, made, mine, commenter, open, count, threadMuddled>>
    BY <1>3 DEF Thread!Submit, ThreadInv, ThreadTyped
  <2>2. submitting' = (submitting \/ "create" = "create")
    BY <2>1
  <2>. QED BY <1>1, <2>1, <2>2, ThreadAskStep
<1>4. ASSUME NEW c \in Thread!Elements(view.comments), Thread!Delete(c) PROVE ThreadInv'
  <2>1. /\ open /\ view' = view
        /\ threadRequests' = threadRequests \cup {Thread!Request("delete", c)}
        /\ threadAsked' = threadAsked + 1 /\ submitting' = submitting
        /\ UNCHANGED <<comments, made, mine, commenter, open, count, threadMuddled>>
    BY <1>4 DEF Thread!Delete
  <2>2. c \in Nat
    <3>1. c \in {view.comments[i] : i \in DOMAIN view.comments}
      BY DEF Thread!Elements
    <3>2. view.comments \in Seq(Nat)
      BY <1>1 DEF ThreadView
    <3>. QED BY <3>1, <3>2
  <2>3. submitting' = (submitting \/ "delete" = "create")
    BY <2>1 DEF ThreadInv, ThreadTyped
  <2>. QED BY <1>1, <2>1, <2>2, <2>3, ThreadAskStep
<1>. QED BY <1>2, <1>3, <1>4

\* More comments are written.
LEMMA SeqGrows ==
  ASSUME NEW m \in Nat, NEW l \in Nat, m <= l
  PROVE  Seq(1 .. m) \subseteq Seq(1 .. l)
<1>1. \A i \in 1 .. m : i \in 1 .. l
  OBVIOUS
<1>2. ASSUME NEW x \in Seq(1 .. m) PROVE x \in Seq(1 .. l)
  BY <1>1
<1>. QED BY <1>2

\* The list with a comment more.
LEMMA ServerWrites ==
  ASSUME NEW c, NEW m, ServerTyped(c, m), m < MaxComments, ThreadAssumption
  PROVE  /\ ServerTyped(Append(c, m + 1), m + 1)
         /\ \A s : Begins(s, c) /\ Len(s) \in Nat => Begins(s, Append(c, m + 1))
<1>1. m \in Nat /\ c \in Seq(1 .. m) /\ Distinct(c) /\ Len(c) <= m /\ MaxComments \in Nat
  BY DEF ServerTyped, ThreadAssumption
<1>2. c \in Seq(1 .. m + 1) /\ m + 1 \in Nat /\ m + 1 <= MaxComments
  <2>1. m + 1 \in Nat /\ m <= m + 1 /\ m + 1 <= MaxComments
    BY <1>1
  <2>. QED BY <1>1, <2>1, SeqGrows
<1> DEFINE d == Append(c, m + 1)
<1>3. /\ d \in Seq(1 .. m + 1) /\ Len(d) = Len(c) + 1 /\ d[Len(c) + 1] = m + 1
      /\ \A i \in 1 .. Len(c) : d[i] = c[i]
  <2>1. m + 1 \in 1 .. m + 1
    BY <1>1
  <2>. QED BY <1>2, <2>1
<1> HIDE DEF d
<1>4. \A i \in 1 .. Len(c) : c[i] # m + 1
  BY <1>1
<1>5. Distinct(d)
  <2>1. SUFFICES ASSUME NEW i \in 1 .. Len(c) + 1, NEW j \in 1 .. Len(c) + 1, d[i] = d[j]
                 PROVE  i = j
    BY <1>3 DEF Distinct
  <2>2. CASE i \in 1 .. Len(c) /\ j \in 1 .. Len(c)
    BY <1>1, <1>3, <2>1, <2>2 DEF Distinct
  <2>3. CASE i = Len(c) + 1 \/ j = Len(c) + 1
    BY <1>2, <1>3, <1>4, <2>1, <2>3
  <2>4. Len(c) \in Nat
    BY <1>1
  <2>. QED BY <2>2, <2>3, <2>4
<1>6. ServerTyped(d, m + 1)
  <2>1. Len(d) <= m + 1
    BY <1>1, <1>3
  <2>. QED BY <1>2, <1>3, <1>5, <2>1 DEF ServerTyped
<1>7. ASSUME NEW s, Begins(s, c), Len(s) \in Nat PROVE Begins(s, d)
  <2>1. Len(c) \in Nat
    BY <1>1
  <2>. QED BY <1>3, <1>7, <2>1 DEF Begins
<1>. QED BY <1>6, <1>7 DEF d

\* The list with a comment less.
LEMMA ServerRemoves ==
  ASSUME NEW c, NEW m, ServerTyped(c, m), NEW x \in Thread!Elements(c)
  PROVE  /\ ServerTyped(Without(c, {x}), m)
         /\ Len(Without(c, {x})) = Len(c) - 1
<1>1. m \in Nat /\ m <= MaxComments /\ c \in Seq(1 .. m) /\ Distinct(c) /\ Len(c) <= m
  BY DEF ServerTyped
<1>2. PICK p \in 1 .. Len(c) : c[p] = x
  BY <1>1 DEF Thread!Elements
<1>3. Len(Without(c, {c[p]})) = Len(c) - 1
  BY <1>1, WithoutOne
<1>4. Without(c, {x}) \in Seq(1 .. m)
  BY <1>1, WithoutTyped
<1>5. Distinct(Without(c, {x})) /\ Len(Without(c, {x})) <= Len(c)
  BY <1>1, WithoutDistinct
<1>6. Len(Without(c, {x})) <= m
  <2>1. Len(Without(c, {x})) \in Nat /\ Len(c) \in Nat
    BY <1>1, <1>4
  <2>. QED BY <1>1, <1>5, <2>1
<1>. QED BY <1>1, <1>2, <1>3, <1>4, <1>5, <1>6 DEF ServerTyped

\* The pieces that were read before a change.
LEMMA OutdatedRequests ==
  ASSUME NEW R, NEW a, NEW m, NEW o, ThreadAsks(R, a, m, o), NEW K \in SUBSET R
  PROVE  /\ Carried(K, Thread!Outdated(K))
         /\ Removals(Thread!Outdated(K)) = Removals(K)
         /\ \A s \in Thread!Outdated(K) : IsLoad(s) /\ s.phase = "ok" => s.old
<1> DEFINE S == Thread!Outdated(K)
           Missed(r) == r.old \/ (r.kind \in {"load", "reload"} /\ r.phase = "ok")
           Aged(r) == [r EXCEPT !.old = Missed(r)]
<1>1. S = {Aged(r) : r \in K}
  BY DEF Thread!Outdated, Thread!Loads
<1>2. \A r \in K : r \in ThreadRequest
  BY DEF ThreadAsks, RequestFits
<1>3. \A r \in K : /\ Same(r, Aged(r)) /\ Aged(r).old = Missed(r)
                   /\ Missed(r) = r.old => Aged(r) = r
  <2>1. ASSUME NEW r \in K
        PROVE  /\ Same(r, Aged(r)) /\ Aged(r).old = Missed(r)
               /\ Missed(r) = r.old => Aged(r) = r
    <3>1. Missed(r) \in BOOLEAN
      BY <1>2 DEF ThreadRequest
    <3>2. r \in ThreadRequest
      BY <1>2
    <3> HIDE DEF Missed
    <3>. QED BY <3>1, <3>2, OldRequest
  <2>. QED BY <2>1
<1>4. \A r \in K : /\ r.kind = "delete" => Missed(r) = r.old
                   /\ IsLoad(r) /\ r.phase = "ok" => Missed(r) = TRUE
  BY <1>2 DEF IsLoad, ThreadRequest
<1> HIDE DEF Aged, Missed, S
<1>5. Carried(K, S)
  <2>1. \A s, t \in S : s.n = t.n => s = t
    <3>1. SUFFICES ASSUME NEW s \in S, NEW t \in S, s.n = t.n PROVE s = t
      OBVIOUS
    <3>2. PICK p \in K : s = Aged(p)
      BY <1>1
    <3>3. PICK r \in K : t = Aged(r)
      BY <1>1
    <3>4. p.n = r.n
      BY <1>3, <3>1, <3>2, <3>3 DEF Same
    <3>5. p = r
      BY <3>4 DEF ThreadAsks
    <3>. QED BY <3>2, <3>3, <3>5
  <2>2. \A s \in S : \E r \in K : Same(r, s)
    BY <1>1, <1>3
  <2>3. \A r \in K : \E s \in S : Same(r, s)
    BY <1>1, <1>3
  <2>. QED BY <2>1, <2>2, <2>3 DEF Carried
<1>6. ASSUME NEW s \in Removals(S) PROVE s \in Removals(K)
  <2>1. PICK r \in K : s = Aged(r)
    BY <1>1 DEF Removals
  <2>2. WasRemoved(s) /\ Same(r, s)
    BY <1>3, <2>1 DEF Removals
  <2>3. WasRemoved(r) /\ r.kind = "delete"
    BY <2>2 DEF WasRemoved, Same
  <2>4. s = r
    BY <1>3, <1>4, <2>1, <2>3
  <2>. QED BY <2>3, <2>4 DEF Removals
<1>7. ASSUME NEW r \in Removals(K) PROVE r \in Removals(S)
  <2>1. r \in K /\ WasRemoved(r) /\ r.kind = "delete"
    BY DEF Removals, WasRemoved
  <2>2. Aged(r) = r
    BY <1>3, <1>4, <2>1
  <2>3. r \in S
    BY <1>1, <2>1, <2>2
  <2>. QED BY <2>1, <2>3 DEF Removals
<1>8. \A s \in S : IsLoad(s) /\ s.phase = "ok" => s.old
  <2>1. SUFFICES ASSUME NEW s \in S, IsLoad(s), s.phase = "ok" PROVE s.old = TRUE
    OBVIOUS
  <2>2. PICK r \in K : s = Aged(r)
    BY <1>1
  <2>3. IsLoad(r) /\ r.phase = "ok"
    BY <1>3, <2>1, <2>2 DEF Same, IsLoad
  <2>. QED BY <1>3, <1>4, <2>2, <2>3
<1>. QED BY <1>5, <1>6, <1>7, <1>8 DEF S

\* Who has written and who has deleted elsewhere is not asked for.
LEMMA ThreadElsewhereStep ==
  ASSUME ThreadInv, Thread!Elsewhere, ThreadAssumption
  PROVE  ThreadInv'
<1> DEFINE R == threadRequests
           S == Thread!Outdated(R)
<1>1. /\ threadRequests' = S /\ threadMuddled' = TRUE
      /\ mine' = mine /\ commenter' = commenter /\ open' = open /\ count' = count
      /\ view' = view /\ submitting' = submitting /\ threadAsked' = threadAsked
  BY DEF Thread!Elsewhere
<1>2. /\ ServerTyped(comments, made) /\ threadAsked \in Nat /\ made \in Nat
      /\ ThreadAsks(R, threadAsked, made, open) /\ SendsOnce(R, submitting)
  BY DEF ThreadInv, ThreadTyped, ServerTyped
<1>3. ServerTyped(comments', made') /\ made' \in {made, made + 1}
  <2>1. CASE made < MaxComments /\ made' = made + 1 /\ comments' = Append(comments, made + 1)
    BY <1>2, <2>1, ServerWrites
  <2>2. ASSUME NEW c \in Thread!Elements(comments), made' = made,
               comments' = Thread!Without(comments, {c})
        PROVE  ServerTyped(comments', made') /\ made' \in {made, made + 1}
    BY <1>2, <2>2, ServerRemoves, ThreadWithout
  <2>. QED BY <2>1, <2>2 DEF Thread!Elsewhere
<1>4. made' \in Nat /\ made <= made' /\ threadAsked <= threadAsked
  BY <1>2, <1>3
<1>5. Carried(R, S) /\ Removals(S) = Removals(R) /\ Fresh(S, comments')
  <2>1. R \in SUBSET R
    OBVIOUS
  <2>. QED BY <1>2, <2>1, OutdatedRequests DEF Fresh
<1> HIDE DEF S
<1>6. ThreadAsks(S, threadAsked, made', open) /\ SendsOnce(S, submitting)
  <2>1. R \in SUBSET R
    OBVIOUS
  <2>2. ThreadAsks(S, threadAsked, made', open)
    BY <1>2, <1>4, <1>5, <2>1, CarriedAsks
  <2>. QED BY <1>2, <1>5, <2>2, CarriedSendsAll
<1>7. view.loading => \E q \in S : LiveLoad(q)
  BY <1>5 DEF ThreadInv, Carried, Same, LiveLoad, IsLoad
<1>8. view.total \in Nat /\ view \in ThreadView
  BY DEF ThreadInv, ThreadTyped, ThreadView
<1>9. Counted(S, view, made')
  <2>1. view.total <= made' + 1
    BY <1>2, <1>4, <1>8 DEF ThreadInv, Counted
  <2>2. ASSUME NEW s \in S, NewComment(s) PROVE view.total <= made'
    <3>1. PICK r \in R : Same(r, s)
      BY <1>5 DEF Carried
    <3>2. view.total <= made
      BY <2>2, <3>1 DEF Same, NewComment, ThreadInv, Counted
    <3>. QED BY <1>2, <1>4, <1>8, <3>2
  <2>. QED BY <2>1, <2>2 DEF Counted
<1>10. Agreed(S, view, comments', open, TRUE)
  BY DEF Agreed, Quiet, Uncrossed
<1>11. ThreadTyped'
  <2>1. view.comments \in Seq(1 .. made') /\ mine \subseteq 1 .. made'
    <3>1. view.comments \in Seq(1 .. made) /\ mine \subseteq 1 .. made
      BY DEF ThreadInv, ThreadTyped
    <3>2. \A i \in 1 .. made : i \in 1 .. made'
      BY <1>2, <1>4
    <3>3. Seq(1 .. made) \subseteq Seq(1 .. made')
      BY <1>2, <1>4, SeqGrows
    <3>. QED BY <3>1, <3>2, <3>3
  <2>2. threadMuddled' \in BOOLEAN
    BY <1>1
  <2>. QED BY <1>1, <1>3, <2>1, <2>2 DEF ThreadInv, ThreadTyped
<1>12. IsFiniteSet(Removals(S))
  BY <1>5 DEF ThreadInv
<1> HIDE DEF R
<1>. QED BY <1>1, <1>6, <1>7, <1>9, <1>10, <1>5, <1>11, <1>12 DEF ThreadInv

\* What is in flight once the request q has its answer: S and, unless nobody waits for it, x.
Replied(S, q, x) == S \cup (IF q.gone THEN {} ELSE {x})

IsAnswer(x, q, p, g) ==
    /\ x \in ThreadRequest /\ x.n = q.n /\ x.kind = q.kind /\ x.arg = q.arg
    /\ x.phase = p /\ x.got = g /\ x.old = q.old /\ x.gone = q.gone

LEMMA AnsweredRequest ==
  ASSUME NEW q \in ThreadRequest, NEW p \in {"sent", "ok", "error"},
         NEW g \in [comments : Seq(Nat), total : Nat, pages : Nat]
  PROVE  IsAnswer([q EXCEPT !.phase = p, !.got = g], q, p, g)
<1> DEFINE r == [q EXCEPT !.phase = p]
           s == [r EXCEPT !.got = g]
<1>1. /\ r \in ThreadRequest /\ r.phase = p
      /\ r.n = q.n /\ r.kind = q.kind /\ r.arg = q.arg
      /\ r.got = q.got /\ r.old = q.old /\ r.gone = q.gone
  BY DEF ThreadRequest
<1> HIDE DEF r
<1>2. /\ s \in ThreadRequest /\ s.got = g
      /\ s.n = r.n /\ s.kind = r.kind /\ s.arg = r.arg
      /\ s.phase = r.phase /\ s.old = r.old /\ s.gone = r.gone
  BY <1>1 DEF ThreadRequest
<1>3. s = [q EXCEPT !.phase = p, !.got = g]
  BY DEF r
<1> HIDE DEF s
<1>4. IsAnswer(s, q, p, g)
  BY <1>1, <1>2 DEF IsAnswer
<1>. QED BY <1>3, <1>4

LEMMA RepliedAsks ==
  ASSUME NEW R, NEW a \in Nat, NEW m \in Nat, NEW o, ThreadAsks(R, a, m, o),
         NEW q \in R, NEW S, Carried(R \ {q}, S), NEW l \in Nat, m <= l,
         NEW p \in {"ok", "error"}, NEW g, g.total <= l, g.comments \in Seq(1 .. l),
         NEW x, IsAnswer(x, q, p, g)
  PROVE  ThreadAsks(Replied(S, q, x), a, l, o)
<1> DEFINE T == Replied(S, q, x)
<1>1. T = IF q.gone THEN S ELSE S \cup {x}
  BY DEF Replied
<1>2. ThreadAsks(S, a, l, o)
  <2>1. R \ {q} \in SUBSET R /\ a <= a
    OBVIOUS
  <2>. QED BY <2>1, CarriedAsks
<1>3. RequestFits(q, a, m, o)
  BY DEF ThreadAsks
<1>4. \A s \in S : s.n # x.n
  BY DEF Carried, Same, ThreadAsks, IsAnswer
<1>5. ~q.gone => RequestFits(x, a, l, o)
  <2>1. SUFFICES ASSUME ~q.gone PROVE RequestFits(x, a, l, o)
    OBVIOUS
  <2>2. x \in ThreadRequest /\ x.n <= a
    BY <1>3 DEF IsAnswer, RequestFits
  <2>3. IsLoad(x) => x.arg >= 1 /\ x.got.total <= l /\ x.got.comments \in Seq(1 .. l)
    BY <1>3 DEF IsAnswer, RequestFits, IsLoad
  <2>4. ~x.gone /\ o # FALSE
    BY <1>3, <2>1 DEF IsAnswer, RequestFits
  <2>. QED BY <2>2, <2>3, <2>4 DEF RequestFits
<1>6. ThreadAsks(T, a, l, o)
  <2>1. CASE q.gone
    BY <1>1, <1>2, <2>1
  <2>2. CASE ~q.gone
    <3>1. ThreadAsks(S \cup {x}, a, l, o)
      BY <1>2, <1>4, <1>5, <2>2, AddedAsks
    <3>. QED BY <1>1, <2>2, <3>1
  <2>. QED BY <2>1, <2>2
<1> HIDE DEF T
<1>. QED BY <1>6 DEF T

LEMMA RepliedSends ==
  ASSUME NEW R, NEW b \in BOOLEAN, SendsOnce(R, b), NEW q \in R,
         NEW S, Carried(R \ {q}, S), NEW p, NEW g, NEW x, IsAnswer(x, q, p, g)
  PROVE  SendsOnce(Replied(S, q, x), b)
<1> DEFINE T == Replied(S, q, x)
<1>1. T = IF q.gone THEN S ELSE S \cup {x}
  BY DEF Replied
<1>2. SendsOnce(T, b)
  <2>1. CASE q.gone
    <3>1. ~Submits(q)
      BY <2>1 DEF Submits
    <3>2. SendsOnce(S, b)
      BY <3>1, CarriedSends
    <3>. QED BY <1>1, <2>1, <3>2
  <2>2. CASE ~q.gone /\ Submits(q)
    <3>1. b = TRUE
      BY <2>2 DEF SendsOnce
    <3>2. SendsOnce(S, FALSE) /\ Submits(x)
      BY <2>2, CarriedSends DEF IsAnswer, Submits
    <3>3. SendsOnce(S \cup {x}, TRUE)
      BY <3>2, AddedSubmission
    <3>. QED BY <1>1, <2>2, <3>1, <3>3
  <2>3. CASE ~q.gone /\ ~Submits(q)
    <3>1. SendsOnce(S, b) /\ ~Submits(x)
      BY <2>3, CarriedSends DEF IsAnswer, Submits
    <3>2. SendsOnce(S \cup {x}, b)
      BY <3>1, AddedSends
    <3>. QED BY <1>1, <2>3, <3>2
  <2>. QED BY <2>1, <2>2, <2>3
<1>. QED BY <1>2

\* The server answers; what it has changed is in the hypotheses.
LEMMA ThreadServed ==
  ASSUME ThreadInv, ThreadAssumption,
         UNCHANGED <<commenter, open, count, view, submitting, threadAsked>>,
         NEW q \in threadRequests, q.phase = "sent",
         NEW S, Carried(threadRequests \ {q}, S),
         NEW p \in {"ok", "error"}, NEW g, g.total <= made', g.comments \in Seq(1 .. made'),
         NEW x, IsAnswer(x, q, p, g), threadRequests' = Replied(S, q, x),
         ServerTyped(comments', made'), made <= made', mine' \subseteq 1 .. made',
         threadMuddled' \in BOOLEAN,
         IsFiniteSet(Removals(threadRequests')), Fresh(threadRequests', comments'),
         (\E r \in threadRequests' : NewComment(r))
           => (\E r \in threadRequests : NewComment(r)) \/ made' = made + 1,
         Agreed(threadRequests', view, comments', open, threadMuddled')
  PROVE  ThreadInv'
<1> DEFINE R == threadRequests
<1>1. /\ threadAsked \in Nat /\ made \in Nat /\ made' \in Nat /\ submitting \in BOOLEAN
      /\ ThreadAsks(R, threadAsked, made, open) /\ SendsOnce(R, submitting)
  BY DEF ThreadInv, ThreadTyped, ServerTyped
<1>2. /\ ThreadAsks(threadRequests', threadAsked, made', open)
      /\ SendsOnce(threadRequests', submitting)
  <2>1. ASSUME NEW l \in Nat, l = made'
        PROVE  /\ ThreadAsks(Replied(S, q, x), threadAsked, l, open)
               /\ SendsOnce(Replied(S, q, x), submitting)
    <3>1. made <= l /\ g.total <= l /\ g.comments \in Seq(1 .. l)
      BY <2>1
    <3>2. ThreadAsks(Replied(S, q, x), threadAsked, l, open)
      BY <1>1, <3>1, RepliedAsks
    <3>3. SendsOnce(Replied(S, q, x), submitting)
      BY <1>1, RepliedSends
    <3>. QED BY <3>2, <3>3
  <2>. QED BY <1>1, <2>1
<1>3. view'.loading => \E r \in threadRequests' : LiveLoad(r)
  <2>1. SUFFICES ASSUME view.loading PROVE \E r \in threadRequests' : LiveLoad(r)
    OBVIOUS
  <2>2. \E r \in threadRequests : LiveLoad(r)
    BY <2>1 DEF ThreadInv
  <2>3. PICK r \in threadRequests : LiveLoad(r)
    BY <2>2
  <2>4. CASE r = q
    <3>1. ~q.gone /\ LiveLoad(x)
      BY <2>3, <2>4 DEF IsAnswer, LiveLoad, IsLoad
    <3>. QED BY <3>1 DEF Replied
  <2>5. CASE r # q
    <3>1. PICK s \in S : Same(r, s)
      BY <2>5 DEF Carried
    <3>2. LiveLoad(s)
      BY <2>3, <3>1 DEF Same, LiveLoad, IsLoad
    <3>. QED BY <3>2 DEF Replied
  <2>. QED BY <2>4, <2>5
<1>4. view \in ThreadView /\ view.total \in Nat /\ view.comments \in Seq(1 .. made)
  BY DEF ThreadInv, ThreadTyped, ThreadView
<1>5. Counted(threadRequests', view', made')
  <2>1. view.total <= made + 1 /\ (\A r \in threadRequests : NewComment(r) => view.total <= made)
    BY DEF ThreadInv, Counted
  <2>2. view.total <= made' + 1
    BY <1>1, <1>4, <2>1
  <2>3. ASSUME NEW s \in threadRequests', NewComment(s) PROVE view.total <= made'
    <3>1. CASE \E r \in threadRequests : NewComment(r)
      BY <1>1, <1>4, <2>1, <3>1
    <3>2. CASE made' = made + 1
      BY <1>1, <1>4, <2>1, <3>2
    <3>. QED BY <2>3, <3>1, <3>2
  <2>. QED BY <2>2, <2>3 DEF Counted
<1>6. ThreadTyped'
  <2>1. view.comments \in Seq(1 .. made')
    BY <1>1, <1>4, SeqGrows
  <2>. QED BY <1>1, <1>4, <2>1 DEF ThreadInv, ThreadTyped
<1> HIDE DEF R
<1>. QED BY <1>2, <1>3, <1>5, <1>6 DEF ThreadInv

\* What a page number means.
LEMMA PageArithmetic ==
  ASSUME NEW p \in Nat, p >= 1, NEW t \in Nat \ {0}, NEW n \in Nat
  PROVE  /\ (p - 1) * t \in Nat /\ p * t \in Nat /\ p * t = (p - 1) * t + t
         /\ (n + t - 1) \div t \in Nat
         /\ p >= (n + t - 1) \div t => n <= p * t
<1>1. (p - 1) * t \in Nat /\ p * t \in Nat /\ p * t = (p - 1) * t + t
  OBVIOUS
<1>2. n + t - 1 \in Nat /\ t > 0
  OBVIOUS
<1> DEFINE d == (n + t - 1) \div t
           k == n + t - 1
<1>3. \A a \in Nat : /\ a \div t \in Nat
                     /\ a % t \in 0 .. t - 1 /\ a = t * (a \div t) + (a % t)
  OBVIOUS
<1>4. d \in Nat /\ k \in Nat /\ k <= t * d + (t - 1)
  BY <1>2, <1>3
<1> HIDE DEF d
<1>5. ASSUME p >= d PROVE n <= p * t
  <2>1. t * d <= t * p /\ t * d \in Nat /\ t * p \in Nat /\ t * p = p * t
    BY <1>4, <1>5
  <2>. QED BY <1>4, <2>1
<1>. QED BY <1>1, <1>4, <1>5 DEF d

LEMMA PieceFits ==
  ASSUME ThreadAssumption, NEW X, NEW c \in Seq(X), NEW p \in Nat, p >= 1
  PROVE  /\ PieceOf(c, p) \in Seq(X)
         /\ (p - 1) * Take <= Len(c) =>
              /\ Len(PieceOf(c, p)) + (p - 1) * Take
                   = IF p * Take < Len(c) THEN p * Take ELSE Len(c)
              /\ \A i \in 1 .. Len(PieceOf(c, p)) : PieceOf(c, p)[i] = c[(p - 1) * Take + i]
<1> DEFINE a == (p - 1) * Take
           b == p * Take
           h == IF b < Len(c) THEN b ELSE Len(c)
           s == SubSeq(c, a + 1, h)
<1>1. a \in Nat /\ b \in Nat /\ b = a + Take /\ Take \in Nat
  BY PageArithmetic DEF ThreadAssumption
<1>2. PieceOf(c, p) = s
  BY DEF PieceOf
<1> HIDE DEF a, b
<1>3. h \in Nat /\ h <= Len(c) /\ Len(c) \in Nat /\ a + 1 \in Nat /\ a + 1 >= 1
  BY <1>1
<1>4. a <= Len(c) => a <= h
  BY <1>1, <1>3
<1> HIDE DEF h
<1>5. /\ s \in Seq(X)
      /\ Len(s) = IF a + 1 <= h THEN h - a ELSE 0
      /\ \A i \in 1 .. Len(s) : s[i] = c[a + i]
  <2>1. CASE a + 1 <= h
    <3>1. \A i \in a + 1 .. h : c[i] \in X
      BY <1>1, <1>3
    <3>2. /\ s = [i \in 1 .. h - a |-> c[a + i]] /\ h - a \in Nat
      <4>1. s = [i \in 1 .. (h - (a + 1) + 1) |-> c[i + (a + 1) - 1]]
        BY <1>1, <1>3, <2>1
      <4>2. h - (a + 1) + 1 = h - a /\ \A i \in 1 .. h - a : i + (a + 1) - 1 = a + i
        BY <1>1, <1>3
      <4>. QED BY <1>1, <1>3, <2>1, <4>1, <4>2
    <3>3. \A i \in 1 .. h - a : c[a + i] \in X
      BY <1>1, <1>3, <3>1
    <3> HIDE DEF s
    <3>. QED BY <2>1, <3>2, <3>3
  <2>2. CASE ~(a + 1 <= h)
    <3>1. s = <<>>
      BY <1>1, <1>3, <2>2
    <3>2. <<>> \in Seq(X) /\ Len(<<>>) = 0
      OBVIOUS
    <3> HIDE DEF s
    <3>. QED BY <2>2, <3>1, <3>2
  <2>. QED BY <2>1, <2>2
<1> HIDE DEF s
<1>6. a <= Len(c) => Len(s) + a = h
  BY <1>1, <1>3, <1>4, <1>5
<1>. QED BY <1>2, <1>5, <1>6 DEF a, b, h

\* A piece that continues a beginning gives a longer one, and the last piece all of it.
LEMMA PieceContinues ==
  ASSUME ThreadAssumption, NEW X, NEW c \in Seq(X), NEW p \in Nat, p >= 1,
         NEW s \in Seq(X), Len(s) = (p - 1) * Take, Begins(s, c)
  PROVE  /\ Begins(s \o PieceOf(c, p), c)
         /\ p >= (Len(c) + Take - 1) \div Take => s \o PieceOf(c, p) = c
<1> DEFINE a == (p - 1) * Take
           b == p * Take
           h == IF b < Len(c) THEN b ELSE Len(c)
           q == PieceOf(c, p)
           w == s \o q
<1>1. a \in Nat /\ b \in Nat /\ b = a + Take /\ Take \in Nat /\ Len(c) \in Nat
  BY PageArithmetic DEF ThreadAssumption
<1>2. a <= Len(c) /\ Len(s) = a
  BY DEF Begins
<1>3. q \in Seq(X) /\ Len(q) + a = h /\ \A i \in 1 .. Len(q) : q[i] = c[a + i]
  BY <1>2, PieceFits
<1>4. p >= (Len(c) + Take - 1) \div Take => Len(c) <= b
  BY <1>1, PageArithmetic DEF ThreadAssumption
<1> HIDE DEF q, a, b
<1>5. /\ w \in Seq(X) /\ Len(w) = h
      /\ \A i \in 1 .. Len(w) : w[i] = IF i <= a THEN s[i] ELSE q[i - a]
  <2>1. /\ w \in Seq(X) /\ Len(w) = Len(s) + Len(q)
        /\ \A i \in 1 .. Len(w) : w[i] = IF i <= Len(s) THEN s[i] ELSE q[i - Len(s)]
    <3>1. s \in Seq(X) /\ q \in Seq(X)
      BY <1>3
    <3>. QED BY <3>1, ConcatProperties
  <2> HIDE DEF w
  <2>2. Len(s) + Len(q) = h
    <3>1. Len(q) \in Nat
      BY <1>3
    <3> HIDE DEF h
    <3>. QED BY <1>1, <1>2, <1>3, <3>1
  <2>. QED BY <1>2, <2>1, <2>2
<1>6. h \in Nat /\ h <= Len(c)
  BY <1>1
<1> HIDE DEF w, h
<1>7. \A i \in 1 .. Len(w) : w[i] = c[i]
  <2>1. SUFFICES ASSUME NEW i \in 1 .. h PROVE w[i] = c[i]
    BY <1>5
  <2>2. CASE i <= a
    BY <1>1, <1>2, <1>5, <1>6, <2>2 DEF Begins
  <2>3. CASE ~(i <= a)
    <3>1. i - a \in 1 .. Len(q) /\ a + (i - a) = i
      BY <1>1, <1>3, <1>6, <2>3
    <3>2. w[i] = q[i - a]
      BY <1>5, <2>3
    <3>. QED BY <1>3, <3>1, <3>2
  <2>. QED BY <2>2, <2>3
<1>8. Begins(w, c)
  BY <1>5, <1>6, <1>7 DEF Begins
<1>9. p >= (Len(c) + Take - 1) \div Take => w = c
  <2>1. SUFFICES ASSUME p >= (Len(c) + Take - 1) \div Take PROVE w = c
    OBVIOUS
  <2>2. h = Len(c)
    BY <1>1, <1>4, <2>1 DEF h
  <2>. QED BY <1>5, <1>7, <2>2, SeqEqual
<1>. QED BY <1>8, <1>9 DEF w, q

\* What an answer of the server leaves as it was.
LEMMA RepliedRemovals ==
  ASSUME NEW S, NEW q, NEW x, ~WasRemoved(x)
  PROVE  Removals(Replied(S, q, x)) = Removals(S)
<1>1. Removals(S \cup {x}) = Removals(S)
  BY SentRemoves
<1>. QED BY <1>1 DEF Replied

LEMMA RepliedQuiet ==
  ASSUME NEW R, NEW q \in R, q.phase = "sent", NEW S, Carried(R \ {q}, S),
         NEW p, NEW g, NEW x, IsAnswer(x, q, p, g),
         \A s \in Replied(S, q, x) : ~LiveLoad(s) /\ ~NewComment(s)
  PROVE  \A r \in R : ~LiveLoad(r) /\ ~NewComment(r)
<1>1. \A s \in S : s \in Replied(S, q, x)
  BY DEF Replied
<1>2. ~q.gone => x \in Replied(S, q, x)
  BY DEF Replied
<1>3. ~LiveLoad(q) /\ ~NewComment(q)
  BY <1>2 DEF IsAnswer, LiveLoad, IsLoad, NewComment
<1>4. ASSUME NEW r \in R \ {q} PROVE ~LiveLoad(r) /\ ~NewComment(r)
  <2>1. PICK s \in S : Same(r, s)
    BY DEF Carried
  <2>2. ~LiveLoad(s) /\ ~NewComment(s)
    BY <1>1
  <2>. QED BY <2>1, <2>2 DEF Same, LiveLoad, IsLoad, NewComment
<1>. QED BY <1>3, <1>4

\* The server has read a piece, or has refused, and nothing else has changed.
LEMMA ThreadReadStep ==
  ASSUME ThreadInv, ThreadAssumption,
         NEW q \in threadRequests, q.phase = "sent",
         NEW p \in {"ok", "error"}, NEW g \in [comments : Seq(Nat), total : Nat, pages : Nat],
         g.total <= made, g.comments \in Seq(1 .. made),
         p = "ok" => IsLoad(q) /\ g = Found(comments, q.arg),
         threadRequests' = Replied(threadRequests \ {q}, q, [q EXCEPT !.phase = p, !.got = g]),
         UNCHANGED <<comments, made, mine, commenter, open, count, view, submitting,
                     threadAsked, threadMuddled>>
  PROVE  ThreadInv'
<1> DEFINE R == threadRequests
           S == R \ {q}
           x == [q EXCEPT !.phase = p, !.got = g]
           T == Replied(S, q, x)
<1>1. /\ ThreadAsks(R, threadAsked, made, open) /\ made \in Nat /\ mine \subseteq 1 .. made
      /\ ServerTyped(comments, made) /\ threadMuddled \in BOOLEAN
      /\ Fresh(R, comments) /\ Agreed(R, view, comments, open, threadMuddled)
  BY DEF ThreadInv, ThreadTyped, ServerTyped
<1>2. q \in ThreadRequest
  BY <1>1 DEF ThreadAsks, RequestFits
<1>3. IsAnswer(x, q, p, g)
  <2>1. p \in {"sent", "ok", "error"}
    OBVIOUS
  <2>. QED BY <1>2, <2>1, AnsweredRequest
<1> HIDE DEF x
<1>4. Carried(S, S)
  <2>1. S \in SUBSET R
    OBVIOUS
  <2>. QED BY <1>1, <2>1, CarriedAsIs
<1>5. Removals(T) = Removals(R)
  <2>1. ~WasRemoved(q)
    BY DEF WasRemoved
  <2>2. ~WasRemoved(x)
    BY <1>3 DEF WasRemoved, IsAnswer, IsLoad
  <2>3. Removals(S) = Removals(R)
    BY <2>1, SentRemoves
  <2>4. Removals(T) = Removals(S)
    BY <2>2, RepliedRemovals
  <2>. QED BY <2>3, <2>4
<1>6. \A s \in T : s \in R \/ s = x
  BY DEF Replied
<1>7. Fresh(T, comments)
  BY <1>1, <1>3, <1>6 DEF Fresh, IsAnswer, IsLoad
<1>8. (\E r \in T : NewComment(r)) => \E r \in R : NewComment(r)
  BY <1>3, <1>6 DEF IsAnswer, IsLoad, NewComment
<1>9. Agreed(T, view, comments, open, threadMuddled)
  <2>1. ASSUME Quiet(T, view, open, threadMuddled) PROVE Quiet(R, view, open, threadMuddled)
    <3>1. \A s \in T : ~LiveLoad(s) /\ ~NewComment(s)
      BY <2>1 DEF Quiet
    <3>2. \A r \in R : ~LiveLoad(r) /\ ~NewComment(r)
      <4> HIDE DEF R
      <4>1. q \in R
        BY DEF R
      <4>. QED BY <1>3, <1>4, <3>1, <4>1, RepliedQuiet
    <3>. QED BY <1>5, <2>1, <3>2 DEF Quiet, Uncrossed
  <2> HIDE DEF T, R
  <2>. QED BY <1>1, <1>5, <2>1, AgreedSame
<1>10. IsFiniteSet(Removals(T))
  BY <1>5 DEF ThreadInv
<1>11. /\ threadRequests' = T /\ comments' = comments /\ made' = made /\ mine' = mine
       /\ view' = view /\ open' = open /\ threadMuddled' = threadMuddled
  BY DEF x
<1> HIDE DEF T, R
<1>12. ServerTyped(comments', made') /\ made <= made' /\ mine' \subseteq 1 .. made'
  BY <1>1, <1>11
<1>13. g.total <= made' /\ g.comments \in Seq(1 .. made')
  BY <1>11
<1>14. /\ IsFiniteSet(Removals(threadRequests')) /\ Fresh(threadRequests', comments')
       /\ Agreed(threadRequests', view, comments', open, threadMuddled')
       /\ threadMuddled' \in BOOLEAN
  BY <1>1, <1>7, <1>9, <1>10, <1>11
<1>15. (\E r \in threadRequests' : NewComment(r))
         => (\E r \in threadRequests : NewComment(r)) \/ made' = made + 1
  BY <1>8, <1>11 DEF R
<1>16. threadRequests' = Replied(threadRequests \ {q}, q, x) /\ Carried(threadRequests \ {q}, S)
  BY <1>4, <1>11 DEF T, R
<1> HIDE DEF S
<1>17. threadRequests' = Replied(S, q, x)
  BY <1>16 DEF S, R
<1>. QED BY <1>3, <1>12, <1>13, <1>14, <1>15, <1>16, <1>17, ThreadServed

LEMMA ThreadReadsStep ==
  ASSUME ThreadInv, ThreadAssumption, NEW q \in threadRequests, Thread!Serve(q),
         Thread!ServeLoad(q) \/ Thread!Reject(q)
  PROVE  ThreadInv'
<1> USE DEF Thread!Replied, Thread!server
<1>1. UNCHANGED <<comments, made, mine, commenter, open, count, view, submitting, threadAsked,
                  threadMuddled>>
  BY DEF Thread!Serve, Thread!ServeLoad, Thread!Reject
<1>2. /\ made \in Nat /\ comments \in Seq(1 .. made) /\ Len(comments) <= made
      /\ \A r \in threadRequests : RequestFits(r, threadAsked, made, open)
  BY DEF ThreadInv, ThreadTyped, ServerTyped, ThreadAsks
<1>3. CASE Thread!ServeLoad(q)
  <2> DEFINE g == Found(comments, q.arg)
  <2>1. /\ IsLoad(q) /\ q.phase = "sent"
        /\ threadRequests' = Replied(threadRequests \ {q}, q,
                                     [q EXCEPT !.phase = "ok", !.got = g])
    BY <1>3, ThreadPiece DEF Thread!ServeLoad, Thread!Loads, IsLoad, Replied
  <2>2. q.arg \in Nat /\ q.arg >= 1
    BY <1>2, <2>1 DEF RequestFits, ThreadRequest
  <2>3. PieceOf(comments, q.arg) \in Seq(1 .. made)
    BY <1>2, <2>2, PieceFits
  <2>4. /\ g.comments = PieceOf(comments, q.arg) /\ g.total = Len(comments)
        /\ g \in [comments : Seq(Nat), total : Nat, pages : Nat]
    <3>1. \A s \in Seq(1 .. made) : s \in Seq(Nat)
      BY <1>2
    <3>2. (Len(comments) + Take - 1) \div Take \in Nat /\ Len(comments) \in Nat
      BY <1>2, <2>2, PageArithmetic DEF ThreadAssumption
    <3>. QED BY <2>3, <3>1, <3>2 DEF Found
  <2> HIDE DEF g
  <2>5. g.total <= made /\ g.comments \in Seq(1 .. made)
    BY <1>2, <2>3, <2>4
  <2>6. "ok" = "ok" => IsLoad(q) /\ g = Found(comments, q.arg)
    BY <2>1 DEF g
  <2>. QED BY <1>1, <2>1, <2>4, <2>5, <2>6, ThreadReadStep
<1>4. CASE Thread!Reject(q)
  <2> DEFINE g == Thread!Nothing
  <2>1. /\ q.phase = "sent"
        /\ threadRequests' = Replied(threadRequests \ {q}, q,
                                     [q EXCEPT !.phase = "error", !.got = g])
    BY <1>4 DEF Thread!Reject, Replied
  <2>2. /\ g \in [comments : Seq(Nat), total : Nat, pages : Nat]
        /\ g.total <= made /\ g.comments \in Seq(1 .. made)
    <3>1. <<>> \in Seq(Nat) /\ <<>> \in Seq(1 .. made)
      OBVIOUS
    <3>. QED BY <1>2, <3>1 DEF Thread!Nothing
  <2> HIDE DEF g
  <2>. QED BY <1>1, <2>1, <2>2, ThreadReadStep
<1>. QED BY <1>3, <1>4

\* The server has changed the list; the rest is in the hypotheses.
LEMMA ThreadChangeStep ==
  ASSUME ThreadInv, ThreadAssumption,
         NEW q \in threadRequests, q.phase = "sent", q.kind \in {"create", "delete"},
         NEW p \in {"ok", "error"},
         NEW x, x = [q EXCEPT !.phase = p, !.got = Thread!Nothing],
         NEW S, S = Thread!Outdated(threadRequests \ {q}),
         threadRequests' = Replied(S, q, x),
         UNCHANGED <<commenter, open, count, view, submitting, threadAsked>>,
         threadMuddled' = (threadMuddled \/ q.gone \/ p = "error"),
         ServerTyped(comments', made'), made <= made', mine' \subseteq 1 .. made',
         q.kind = "create" => made' = made + 1,
         IsAnswer(x, q, p, Thread!Nothing) /\ ~q.gone /\ p = "ok" =>
           Agreed(Replied(S, q, x), view, comments', open, threadMuddled)
  PROVE  ThreadInv'
<1> DEFINE R == threadRequests
           T == Replied(S, q, x)
           g == Thread!Nothing
<1>1. /\ ThreadAsks(R, threadAsked, made, open) /\ made \in Nat /\ threadMuddled \in BOOLEAN
      /\ IsFiniteSet(Removals(R))
  BY DEF ThreadInv, ThreadTyped, ServerTyped
<1>2. q \in ThreadRequest
  BY <1>1 DEF ThreadAsks, RequestFits
<1>3. /\ g \in [comments : Seq(Nat), total : Nat, pages : Nat]
      /\ g.total <= made' /\ g.comments \in Seq(1 .. made')
  <2>1. <<>> \in Seq(Nat) /\ <<>> \in Seq(1 .. made') /\ 0 <= made'
    BY DEF ServerTyped
  <2>. QED BY <2>1 DEF Thread!Nothing
<1> HIDE DEF g
<1>4. IsAnswer(x, q, p, g)
  <2>1. p \in {"sent", "ok", "error"}
    OBVIOUS
  <2>. QED BY <1>2, <1>3, <2>1, AnsweredRequest DEF g
<1>5. /\ Carried(R \ {q}, S) /\ Removals(S) = Removals(R \ {q})
      /\ \A s \in S : IsLoad(s) /\ s.phase = "ok" => s.old
  <2>1. R \ {q} \in SUBSET R
    OBVIOUS
  <2>. QED BY <1>1, <2>1, OutdatedRequests
<1>6. Removals(R \ {q}) = Removals(R)
  <2>1. ~WasRemoved(q)
    BY DEF WasRemoved
  <2>. QED BY <2>1, SentRemoves
<1>7. \A s \in T : s \in S \/ s = x
  BY DEF Replied
<1>8. IsFiniteSet(Removals(T))
  <2>1. Removals(T) \subseteq Removals(R) \cup {x}
    BY <1>5, <1>6, <1>7 DEF Removals
  <2>2. IsFiniteSet(Removals(R) \cup {x})
    BY <1>1, FS_AddElement
  <2> HIDE DEF T, R
  <2>. QED BY <2>1, <2>2, FS_Subset
<1>9. Fresh(T, comments')
  <2>1. ~IsLoad(x)
    BY <1>4 DEF IsAnswer, IsLoad
  <2>. QED BY <1>5, <1>7, <2>1 DEF Fresh
<1>10. (\E r \in T : NewComment(r)) => (\E r \in R : NewComment(r)) \/ made' = made + 1
  <2>1. SUFFICES ASSUME NEW r \in T, NewComment(r)
                 PROVE  (\E s \in R : NewComment(s)) \/ made' = made + 1
    OBVIOUS
  <2>2. CASE r \in S
    <3>1. PICK s \in R \ {q} : Same(s, r)
      BY <1>5, <2>2 DEF Carried
    <3>. QED BY <2>1, <3>1 DEF Same, NewComment
  <2>3. CASE r = x
    <3>1. q.kind = "create"
      BY <1>4, <2>1, <2>3 DEF IsAnswer, NewComment
    <3>. QED BY <3>1
  <2>. QED BY <1>7, <2>2, <2>3
<1>11. threadMuddled' \in BOOLEAN /\ Agreed(T, view, comments', open, threadMuddled')
  <2>1. CASE ~q.gone /\ p = "ok"
    <3>1. threadMuddled' = threadMuddled
      BY <1>1, <1>2, <2>1 DEF ThreadRequest
    <3>. QED BY <1>1, <1>4, <2>1, <3>1 DEF g
  <2>2. CASE q.gone \/ p = "error"
    <3>1. threadMuddled' = TRUE
      BY <2>2
    <3>. QED BY <3>1 DEF Agreed, Quiet, Uncrossed
  <2>. QED BY <2>1, <2>2
<1> HIDE DEF R, T
<1>12. threadRequests' = T /\ view' = view /\ open' = open
  BY DEF T
<1>13. /\ IsFiniteSet(Removals(threadRequests')) /\ Fresh(threadRequests', comments')
       /\ Agreed(threadRequests', view, comments', open, threadMuddled')
  BY <1>8, <1>9, <1>11, <1>12
<1>14. (\E r \in threadRequests' : NewComment(r))
         => (\E r \in threadRequests : NewComment(r)) \/ made' = made + 1
  BY <1>10, <1>12 DEF R
<1>15. Carried(threadRequests \ {q}, S)
  BY <1>5 DEF R
<1>. QED BY <1>3, <1>4, <1>11, <1>13, <1>14, <1>15, ThreadServed

LEMMA ThreadCreateStep ==
  ASSUME ThreadInv, ThreadAssumption, NEW q \in threadRequests, Thread!Serve(q),
         Thread!CreateComment(q)
  PROVE  ThreadInv'
<1> DEFINE S == Thread!Outdated(threadRequests \ {q})
<1>1. PICK p \in {"ok", "error"} :
        /\ threadRequests' = Replied(S, q, [q EXCEPT !.phase = p, !.got = Thread!Nothing])
        /\ threadMuddled' = (threadMuddled \/ q.gone \/ p = "error")
  BY DEF Thread!CreateComment, Thread!Changed, Thread!Replied, Replied
<1> DEFINE x == [q EXCEPT !.phase = p, !.got = Thread!Nothing]
<1>2. /\ q.kind = "create" /\ q.phase = "sent" /\ made < MaxComments
      /\ made' = made + 1 /\ comments' = Append(comments, made + 1)
      /\ mine' = mine \cup {made + 1}
      /\ UNCHANGED <<commenter, open, count, view, submitting, threadAsked>>
  BY DEF Thread!CreateComment, Thread!Serve
<1>3. /\ ServerTyped(comments, made) /\ mine \subseteq 1 .. made /\ made \in Nat
      /\ view.comments \in Seq(1 .. made) /\ ThreadAsks(threadRequests, threadAsked, made, open)
      /\ Agreed(threadRequests, view, comments, open, threadMuddled)
  BY DEF ThreadInv, ThreadTyped, ServerTyped
<1>4. ServerTyped(comments', made') /\ made <= made' /\ mine' \subseteq 1 .. made'
  <2>1. ServerTyped(comments', made')
    BY <1>2, <1>3, ServerWrites
  <2>2. made <= made + 1 /\ \A i \in 1 .. made : i \in 1 .. made + 1
    BY <1>3
  <2>3. made + 1 \in 1 .. made + 1
    BY <1>3
  <2>. QED BY <1>2, <1>3, <2>1, <2>2, <2>3
<1>5. Removals(S) = Removals(threadRequests)
  <2>1. Removals(S) = Removals(threadRequests \ {q})
    BY <1>3, OutdatedRequests
  <2>2. ~WasRemoved(q)
    BY <1>2 DEF WasRemoved
  <2>. QED BY <2>1, <2>2, SentRemoves
<1> HIDE DEF S, x
<1>6. ASSUME IsAnswer(x, q, p, Thread!Nothing), ~q.gone, p = "ok"
      PROVE  Agreed(Replied(S, q, x), view, comments', open, threadMuddled)
  <2> DEFINE T == Replied(S, q, x)
  <2>1. NewComment(x) /\ x \in T
    BY <1>2, <1>6 DEF IsAnswer, NewComment, Replied
  <2>2. Removals(T) = Removals(threadRequests)
    <3>1. ~WasRemoved(x)
      BY <1>2, <1>6 DEF WasRemoved, IsAnswer
    <3>. QED BY <1>5, <3>1, RepliedRemovals
  <2> HIDE DEF T
  <2>3. ~Quiet(T, view, open, threadMuddled)
    BY <2>1 DEF Quiet
  <2>4. ASSUME Uncrossed(T, open, threadMuddled) PROVE Begins(Left(T, view), comments')
    <3>1. Uncrossed(threadRequests, open, threadMuddled)
      BY <2>2, <2>4 DEF Uncrossed
    <3>2. Left(T, view) = Left(threadRequests, view)
      BY <2>2 DEF Left, Gone
    <3>3. Begins(Left(threadRequests, view), comments)
      BY <1>3, <3>1 DEF Agreed
    <3>4. Len(Left(threadRequests, view)) \in Nat
      <4>1. Left(threadRequests, view) \in Seq(1 .. made)
        BY <1>3, WithoutTyped DEF Left
      <4>. QED BY <4>1
    <3>. QED BY <1>2, <1>3, <3>2, <3>3, <3>4, ServerWrites
  <2>5. Agreed(T, view, comments', open, threadMuddled)
    BY <2>3, <2>4 DEF Agreed
  <2>. QED BY <2>5 DEF T
<1>7. threadRequests' = Replied(S, q, x)
  BY <1>1 DEF x
<1>8. x = [q EXCEPT !.phase = p, !.got = Thread!Nothing] /\ S = Thread!Outdated(threadRequests \ {q})
  BY DEF x, S
<1>9. IsAnswer(x, q, p, Thread!Nothing) /\ ~q.gone /\ p = "ok" =>
         Agreed(Replied(S, q, x), view, comments', open, threadMuddled)
  BY <1>6
<1>10. q.kind \in {"create", "delete"} /\ (q.kind = "create" => made' = made + 1)
  BY <1>2
<1>. QED BY <1>1, <1>2, <1>4, <1>7, <1>8, <1>9, <1>10, ThreadChangeStep

LEMMA ThreadRemoveStep ==
  ASSUME ThreadInv, ThreadAssumption, NEW q \in threadRequests, Thread!Serve(q),
         Thread!RemoveComment(q)
  PROVE  ThreadInv'
<1> DEFINE S == Thread!Outdated(threadRequests \ {q})
           R == threadRequests
           c == comments
<1>1. PICK p \in {"ok", "error"} :
        /\ threadRequests' = Replied(S, q, [q EXCEPT !.phase = p, !.got = Thread!Nothing])
        /\ threadMuddled' = (threadMuddled \/ q.gone \/ p = "error")
  BY DEF Thread!RemoveComment, Thread!Changed, Thread!Replied, Replied
<1> DEFINE x == [q EXCEPT !.phase = p, !.got = Thread!Nothing]
<1>2. /\ q.kind = "delete" /\ q.phase = "sent" /\ q.arg \in Thread!Elements(comments)
      /\ made' = made /\ mine' = mine /\ comments' = Without(comments, {q.arg})
      /\ UNCHANGED <<commenter, open, count, view, submitting, threadAsked>>
  BY ThreadWithout DEF Thread!RemoveComment, Thread!Serve
<1>3. /\ ServerTyped(comments, made) /\ mine \subseteq 1 .. made /\ made \in Nat
      /\ comments \in Seq(1 .. made)
      /\ view.comments \in Seq(1 .. made) /\ ThreadAsks(threadRequests, threadAsked, made, open)
      /\ Agreed(threadRequests, view, comments, open, threadMuddled)
      /\ IsFiniteSet(Removals(threadRequests))
  BY DEF ThreadInv, ThreadTyped, ServerTyped
<1>4. /\ ServerTyped(comments', made') /\ made <= made' /\ mine' \subseteq 1 .. made'
      /\ Len(comments') = Len(comments) - 1
  <2>1. ServerTyped(comments', made') /\ Len(comments') = Len(comments) - 1
    BY <1>2, <1>3, ServerRemoves
  <2>2. made <= made
    BY <1>3
  <2>. QED BY <1>2, <1>3, <2>1, <2>2
<1>5. /\ Removals(S) = Removals(R) /\ Carried(R \ {q}, S)
  <2>1. Removals(S) = Removals(threadRequests \ {q}) /\ Carried(threadRequests \ {q}, S)
    BY <1>3, OutdatedRequests
  <2>2. ~WasRemoved(q)
    BY <1>2 DEF WasRemoved
  <2>. QED BY <2>1, <2>2, SentRemoves
<1> HIDE DEF S, x
<1>6. ASSUME IsAnswer(x, q, p, Thread!Nothing), ~q.gone, p = "ok"
      PROVE  Agreed(Replied(S, q, x), view, comments', open, threadMuddled)
  <2> DEFINE T == Replied(S, q, x)
  <2>1. T = S \cup {x} /\ WasRemoved(x) /\ x.arg = q.arg /\ x.n = q.n
    BY <1>2, <1>6 DEF IsAnswer, WasRemoved, Replied
  <2>2. Removals(T) = Removals(R) \cup {x}
    BY <1>5, <2>1 DEF Removals
  <2>3. x \notin Removals(R)
    <3>1. SUFFICES ASSUME x \in R PROVE FALSE
      BY DEF Removals
    <3>2. x = q
      BY <1>3, <2>1, <3>1 DEF ThreadAsks
    <3>. QED BY <1>2, <2>1, <3>2 DEF WasRemoved
  <2>4. IsFiniteSet(Removals(R)) /\ Cardinality(Removals(T)) = Cardinality(Removals(R)) + 1
        /\ Cardinality(Removals(R)) \in Nat
    BY <1>3, <2>2, <2>3, FS_AddElement, FS_CardinalityType
  <2>5. Gone(T) = Gone(R) \cup {q.arg}
    BY <2>1, <2>2 DEF Gone
  <2>6. Left(T, view) = Without(Left(R, view), {q.arg}) /\ Left(R, view) \in Seq(1 .. made)
    <3> DEFINE v == view.comments
               G == Gone(R)
    <3>1. Without(Without(v, G), {q.arg}) = Without(v, G \cup {q.arg})
      <4> HIDE DEF G, v
      <4>1. v \in Seq(1 .. made)
        BY <1>3 DEF v
      <4>. QED BY <4>1, WithoutBoth
    <3>2. Without(v, G) \in Seq(1 .. made)
      BY <1>3, WithoutTyped
    <3>. QED BY <2>5, <3>1, <3>2 DEF Left
  <2> HIDE DEF T
  <2>7. Uncrossed(T, open, threadMuddled) => Uncrossed(R, open, threadMuddled)
    BY <2>2 DEF Uncrossed
  <2>8. Uncrossed(T, open, threadMuddled) => Begins(Left(T, view), comments')
    <3>1. SUFFICES ASSUME Begins(Left(R, view), c)
                   PROVE  Begins(Without(Left(R, view), {q.arg}), Without(c, {q.arg}))
      BY <1>2, <1>3, <2>6, <2>7 DEF Agreed
    <3> DEFINE l == Left(R, view)
    <3>2. l \in Seq(1 .. made) /\ c \in Seq(1 .. made) /\ Begins(l, c)
      BY <1>3, <2>6, <3>1
    <3>3. Begins(Without(l, {q.arg}), Without(c, {q.arg}))
      <4> HIDE DEF l, c
      <4>. QED BY <3>2, WithoutBegins
    <3>. QED BY <3>3
  <2>9. Quiet(T, view, open, threadMuddled) => Quiet(R, view, open, threadMuddled)
    <3>1. SUFFICES ASSUME Quiet(T, view, open, threadMuddled)
                   PROVE  Quiet(R, view, open, threadMuddled)
      OBVIOUS
    <3>2. \A s \in Replied(S, q, x) : ~LiveLoad(s) /\ ~NewComment(s)
      BY <3>1 DEF Quiet, T
    <3>3. q \in R
      OBVIOUS
    <3>4. \A r \in R : ~LiveLoad(r) /\ ~NewComment(r)
      <4> HIDE DEF R
      <4>. QED BY <1>2, <1>5, <1>6, <3>2, <3>3, RepliedQuiet
    <3>. QED BY <2>7, <3>1, <3>4 DEF Quiet
  <2>10. Quiet(T, view, open, threadMuddled) =>
           /\ view.total = Len(comments') + Cardinality(Removals(T))
           /\ view.page < view.pages \/ Left(T, view) = comments'
    <3>1. SUFFICES ASSUME Quiet(R, view, open, threadMuddled)
                   PROVE  /\ view.total = Len(comments') + Cardinality(Removals(T))
                          /\ view.page < view.pages \/ Left(T, view) = comments'
      BY <2>9
    <3>2. /\ view.total = Len(comments) + Cardinality(Removals(R))
          /\ view.page < view.pages \/ Left(R, view) = comments
      BY <1>3, <3>1 DEF Agreed
    <3>3. Len(comments) \in Nat
      BY <1>3
    <3> HIDE DEF R
    <3>4. view.total = Len(comments') + Cardinality(Removals(T))
      BY <1>4, <2>4, <3>2, <3>3
    <3>. QED BY <1>2, <2>6, <3>2, <3>4
  <2>11. Agreed(T, view, comments', open, threadMuddled)
    BY <2>8, <2>10 DEF Agreed
  <2>. QED BY <2>11 DEF T
<1>7. threadRequests' = Replied(S, q, x)
  BY <1>1 DEF x
<1>8. x = [q EXCEPT !.phase = p, !.got = Thread!Nothing] /\ S = Thread!Outdated(threadRequests \ {q})
  BY DEF x, S
<1>9. IsAnswer(x, q, p, Thread!Nothing) /\ ~q.gone /\ p = "ok" =>
         Agreed(Replied(S, q, x), view, comments', open, threadMuddled)
  BY <1>6
<1>10. q.kind \in {"create", "delete"} /\ (q.kind = "create" => made' = made + 1)
  BY <1>2
<1>. QED BY <1>1, <1>2, <1>4, <1>7, <1>8, <1>9, <1>10, ThreadChangeStep

\* An answer that is an error is shown as one.
LEMMA ThreadFailStep ==
  ASSUME ThreadInv, NEW q \in threadRequests, q.phase = "error",
         threadRequests' = threadRequests \ {q},
         UNCHANGED <<comments, made, mine, commenter, open, count, threadAsked, threadMuddled>>,
         submitting' = (submitting /\ ~Submits(q)),
         view' \in ThreadView, view'.comments = view.comments, view'.total = view.total,
         view'.failed = TRUE, view'.loading => view.loading /\ ~IsLoad(q)
  PROVE  ThreadInv'
<1> DEFINE R == threadRequests
           S == R \ {q}
<1>1. /\ ThreadAsks(R, threadAsked, made, open) /\ made \in Nat /\ threadAsked \in Nat
      /\ SendsOnce(R, submitting) /\ submitting \in BOOLEAN
      /\ Agreed(R, view, comments, open, threadMuddled) /\ IsFiniteSet(Removals(R))
  BY DEF ThreadInv, ThreadTyped, ServerTyped
<1>2. Carried(S, S)
  <2>1. S \in SUBSET R
    OBVIOUS
  <2>. QED BY <1>1, <2>1, CarriedAsIs
<1>3. ThreadAsks(S, threadAsked, made, open)
  BY <1>1 DEF ThreadAsks
<1>4. SendsOnce(S, submitting')
  <2>1. Carried(R \ {q}, S) /\ q \in R
    BY <1>2
  <2> HIDE DEF R, S
  <2>2. CASE Submits(q)
    <3>1. SendsOnce(S, FALSE)
      BY <1>1, <2>1, <2>2, CarriedSends
    <3>2. submitting' = FALSE
      BY <2>2
    <3>. QED BY <3>1, <3>2
  <2>3. CASE ~Submits(q)
    <3>1. SendsOnce(S, submitting)
      BY <1>1, <2>1, <2>3, CarriedSends
    <3>2. submitting' = submitting
      BY <1>1, <2>3
    <3>. QED BY <3>1, <3>2
  <2>. QED BY <2>2, <2>3
<1>5. Removals(S) = Removals(R)
  <2>1. ~WasRemoved(q)
    BY DEF WasRemoved
  <2>. QED BY <2>1, SentRemoves
<1>6. view'.loading => \E r \in S : LiveLoad(r)
  BY DEF ThreadInv, LiveLoad
<1>7. Counted(S, view', made) /\ Fresh(S, comments)
  BY DEF ThreadInv, Counted, Fresh
<1>8. Agreed(S, view', comments, open, threadMuddled)
  <2>1. ~Quiet(S, view', open, threadMuddled)
    BY DEF Quiet
  <2>2. Left(S, view') = Left(R, view)
    BY <1>5 DEF Left, Gone
  <2>3. Uncrossed(S, open, threadMuddled) => Uncrossed(R, open, threadMuddled)
    BY <1>5 DEF Uncrossed
  <2>. QED BY <1>1, <2>1, <2>2, <2>3 DEF Agreed
<1>9. ThreadTyped'
  BY DEF ThreadInv, ThreadTyped
<1>10. IsFiniteSet(Removals(S))
  BY <1>1, <1>5
<1>11. /\ threadRequests' = S /\ comments' = comments /\ made' = made /\ open' = open
       /\ threadMuddled' = threadMuddled /\ threadAsked' = threadAsked
  OBVIOUS
<1> HIDE DEF R, S
<1>. QED BY <1>3, <1>4, <1>6, <1>7, <1>8, <1>9, <1>10, <1>11 DEF ThreadInv

\* The deletions whose answers are overtaken by what was loaded.
Crossed(K) == {[r EXCEPT !.old = r.old \/ (r.kind = "delete" /\ r.phase = "ok")] : r \in K}

LEMMA CrossedRequests ==
  ASSUME NEW R, NEW a, NEW m, NEW o, ThreadAsks(R, a, m, o), NEW K \in SUBSET R
  PROVE  /\ Carried(K, Crossed(K))
         /\ \A s \in Crossed(K) : WasRemoved(s) => s.old = TRUE
         /\ \A s \in Crossed(K) : ~WasRemoved(s) => s \in K
<1> DEFINE S == Crossed(K)
           Missed(r) == r.old \/ (r.kind = "delete" /\ r.phase = "ok")
           Aged(r) == [r EXCEPT !.old = Missed(r)]
<1>1. S = {Aged(r) : r \in K}
  BY DEF Crossed
<1>2. \A r \in K : r \in ThreadRequest
  BY DEF ThreadAsks, RequestFits
<1>3. \A r \in K : /\ Same(r, Aged(r)) /\ Aged(r).old = Missed(r)
                   /\ Missed(r) = r.old => Aged(r) = r
  <2>1. ASSUME NEW r \in K
        PROVE  /\ Same(r, Aged(r)) /\ Aged(r).old = Missed(r)
               /\ Missed(r) = r.old => Aged(r) = r
    <3>1. Missed(r) \in BOOLEAN
      BY <1>2 DEF ThreadRequest
    <3>2. r \in ThreadRequest
      BY <1>2
    <3> HIDE DEF Missed
    <3>. QED BY <3>1, <3>2, OldRequest
  <2>. QED BY <2>1
<1>4. \A r \in K : /\ ~WasRemoved(r) => Missed(r) = r.old
                   /\ WasRemoved(r) => Missed(r) = TRUE
  BY <1>2 DEF WasRemoved, ThreadRequest
<1> HIDE DEF Aged, Missed, S
<1>5. Carried(K, S)
  <2>1. \A s, t \in S : s.n = t.n => s = t
    <3>1. SUFFICES ASSUME NEW s \in S, NEW t \in S, s.n = t.n PROVE s = t
      OBVIOUS
    <3>2. PICK p \in K : s = Aged(p)
      BY <1>1
    <3>3. PICK r \in K : t = Aged(r)
      BY <1>1
    <3>4. p.n = r.n
      BY <1>3, <3>1, <3>2, <3>3 DEF Same
    <3>5. p = r
      BY <3>4 DEF ThreadAsks
    <3>. QED BY <3>2, <3>3, <3>5
  <2>2. \A s \in S : \E r \in K : Same(r, s)
    BY <1>1, <1>3
  <2>3. \A r \in K : \E s \in S : Same(r, s)
    BY <1>1, <1>3
  <2>. QED BY <2>1, <2>2, <2>3 DEF Carried
<1>6. ASSUME NEW s \in S PROVE (WasRemoved(s) => s.old = TRUE) /\ (~WasRemoved(s) => s \in K)
  <2>1. PICK r \in K : s = Aged(r)
    BY <1>1
  <2>2. WasRemoved(s) <=> WasRemoved(r)
    BY <1>3, <2>1 DEF Same, WasRemoved
  <2>. QED BY <1>3, <1>4, <2>1, <2>2
<1>. QED BY <1>5, <1>6 DEF S

LEMMA LoadComesStep ==
  ASSUME ThreadInv, ThreadAssumption, NEW q \in threadRequests, Thread!LoadComes(q),
         q.phase = "ok"
  PROVE  ThreadInv'
<1> DEFINE R == threadRequests
           S == Crossed(R \ {q})
           c == comments
           s == IF q.arg = 1 THEN <<>> ELSE view.comments
           w == Thread!Shown(q)
<1>1. /\ IsLoad(q) /\ threadRequests' = S
      /\ view' = [comments |-> w, total |-> q.got.total, page |-> q.arg,
                  pages |-> q.got.pages, loading |-> FALSE, failed |-> view.failed]
      /\ threadMuddled' = (q.old \/ Thread!Overtaken(q) \/ (q.arg # 1 /\ threadMuddled))
      /\ submitting' = (submitting /\ q.kind # "reload")
      /\ comments' = comments /\ made' = made /\ mine' = mine /\ commenter' = commenter
      /\ open' = open /\ count' = count /\ threadAsked' = threadAsked
  BY DEF Thread!LoadComes, Thread!Loads, Thread!server, IsLoad, Crossed
<1>2. /\ ThreadAsks(R, threadAsked, made, open) /\ made \in Nat /\ threadAsked \in Nat
      /\ SendsOnce(R, submitting) /\ submitting \in BOOLEAN /\ threadMuddled \in BOOLEAN
      /\ Agreed(R, view, c, open, threadMuddled) /\ IsFiniteSet(Removals(R))
      /\ ServerTyped(c, made) /\ c \in Seq(1 .. made) /\ view \in ThreadView
      /\ view.comments \in Seq(1 .. made) /\ Fresh(R, c) /\ Counted(R, view, made)
  BY DEF ThreadInv, ThreadTyped, ServerTyped
<1>3. /\ q \in ThreadRequest /\ q.arg >= 1 /\ q.got.total <= made
      /\ q.got.comments \in Seq(1 .. made) /\ ~q.gone
      /\ q.got \in [comments : Seq(Nat), total : Nat, pages : Nat]
      /\ q.arg \in Nat /\ q.old \in BOOLEAN
  BY <1>1, <1>2 DEF ThreadAsks, RequestFits, ThreadRequest
<1>4. s \in Seq(1 .. made) /\ w = s \o q.got.comments /\ w \in Seq(1 .. made)
  <2>0. <<>> \in Seq(1 .. made)
    OBVIOUS
  <2>1. s \in Seq(1 .. made)
    BY <1>2, <2>0
  <2>2. q.arg = 1 => <<>> \o q.got.comments = q.got.comments
    BY <1>3, ConcatEmptySeq
  <2>3. w = s \o q.got.comments
    BY <2>2 DEF Thread!Shown
  <2> HIDE DEF s, w
  <2>4. s \o q.got.comments \in Seq(1 .. made)
    BY <1>3, <2>1, ConcatProperties
  <2>. QED BY <2>1, <2>3, <2>4
<1> HIDE DEF w
<1>5. /\ view'.comments = w /\ view'.total = q.got.total /\ view'.page = q.arg
      /\ view'.pages = q.got.pages /\ view'.loading = FALSE /\ view'.failed = view.failed
  BY <1>1
<1>6. view' \in ThreadView
  <2>1. w \in Seq(Nat)
    BY <1>2, <1>4
  <2>2. view.failed \in BOOLEAN
    BY <1>2 DEF ThreadView
  <2>. QED BY <1>1, <1>3, <2>1, <2>2 DEF ThreadView
<1>7. /\ Carried(R \ {q}, S)
      /\ \A t \in S : WasRemoved(t) => t.old = TRUE
      /\ \A t \in S : ~WasRemoved(t) => t \in R /\ t # q
  <2> DEFINE K == R \ {q}
  <2>1. K \in SUBSET R
    OBVIOUS
  <2> HIDE DEF K, R
  <2>2. Carried(K, Crossed(K))
    BY <1>2, <2>1, CrossedRequests
  <2>3. \A t \in Crossed(K) : WasRemoved(t) => t.old = TRUE
    BY <1>2, <2>1, CrossedRequests
  <2>4. \A t \in Crossed(K) : ~WasRemoved(t) => t \in K
    BY <1>2, <2>1, CrossedRequests
  <2>5. \A t \in K : t \in R /\ t # q
    BY DEF K
  <2>6. S = Crossed(K)
    BY DEF K
  <2> HIDE DEF S
  <2>. QED BY <2>2, <2>3, <2>4, <2>5, <2>6 DEF K
<1> HIDE DEF S
<1>8. ThreadAsks(S, threadAsked, made, open)
  <2>1. R \ {q} \in SUBSET R /\ threadAsked <= threadAsked /\ made <= made
    BY <1>2
  <2>. QED BY <1>2, <1>7, <2>1, CarriedAsks
<1>9. SendsOnce(S, submitting')
  <2>1. CASE q.kind = "reload"
    <3>1. SendsOnce(S, FALSE)
      BY <1>2, <1>3, <1>7, <2>1, CarriedSends DEF Submits
    <3>2. submitting' = FALSE
      BY <1>1, <2>1
    <3>. QED BY <3>1, <3>2
  <2>2. CASE q.kind # "reload"
    <3>1. ~Submits(q)
      BY <1>1, <2>2 DEF IsLoad, Submits
    <3>2. SendsOnce(S, submitting)
      BY <1>2, <1>7, <3>1, CarriedSends
    <3>3. submitting' = submitting
      BY <1>1, <1>2, <2>2
    <3>. QED BY <3>2, <3>3
  <2>. QED BY <2>1, <2>2
<1>10. Counted(S, view', made)
  <2>1. q.got.total \in Nat
    BY <1>3
  <2>2. view'.total <= made /\ view'.total <= made + 1
    BY <1>2, <1>3, <1>5, <2>1
  <2>. QED BY <2>2 DEF Counted
<1>11. Fresh(S, c)
  BY <1>2, <1>7 DEF Fresh, IsLoad, WasRemoved
<1>12. IsFiniteSet(Removals(S))
  <2>1. CASE Removals(S) = {}
    BY <2>1, FS_EmptySet
  <2>2. CASE Removals(S) # {}
    <3> DEFINE F == [r \in Removals(R) |-> CHOOSE t \in S : Same(r, t)]
    <3>1. \A r \in Removals(R) : r \in R \ {q}
      BY <1>1 DEF Removals, WasRemoved, IsLoad
    <3>2. \A r \in Removals(R) : F[r] \in S /\ Same(r, F[r])
      BY <1>7, <3>1 DEF Carried
    <3> HIDE DEF F
    <3>3. \A r \in Removals(R) : F[r] \in Removals(S)
      BY <3>2 DEF Removals, Same, WasRemoved
    <3>4. ASSUME NEW t \in Removals(S) PROVE \E r \in Removals(R) : F[r] = t
      <4>1. PICK r \in R \ {q} : Same(r, t)
        BY <1>7 DEF Carried, Removals
      <4>2. r \in Removals(R)
        BY <4>1 DEF Removals, Same, WasRemoved
      <4>3. F[r] \in S /\ t \in S /\ F[r].n = t.n
        BY <3>2, <4>1, <4>2 DEF Same, Removals
      <4>. QED BY <1>7, <4>2, <4>3 DEF Carried
    <3>5. F \in Surjection(Removals(R), Removals(S))
      <4>1. F \in [Removals(R) -> Removals(S)]
        BY <3>3 DEF F
      <4>. QED BY <3>4, <4>1 DEF Surjection
    <3>. QED BY <1>2, <3>5, FS_Surjection
  <2>. QED BY <2>1, <2>2
<1>13. Agreed(S, view', c, open, threadMuddled')
  <2>1. SUFFICES ASSUME Uncrossed(S, open, threadMuddled')
        PROVE /\ Begins(Left(S, view'), c)
              /\ view'.total = Len(c) + Cardinality(Removals(S))
              /\ view'.page < view'.pages \/ Left(S, view') = c
    BY DEF Agreed, Quiet
  <2>2. Removals(S) = {}
    BY <1>7, <2>1 DEF Uncrossed, Removals
  <2>3. Removals(R) = {}
    <3>1. SUFFICES ASSUME NEW r \in Removals(R) PROVE FALSE
      OBVIOUS
    <3>2. r \in R \ {q} /\ WasRemoved(r)
      BY <1>1 DEF Removals, WasRemoved, IsLoad
    <3>3. PICK t \in S : Same(r, t)
      BY <1>7, <3>2 DEF Carried
    <3>. QED BY <2>2, <3>2, <3>3 DEF Same, WasRemoved, Removals
  <2>4. ~q.old /\ ~Thread!Overtaken(q) /\ (q.arg = 1 \/ threadMuddled = FALSE) /\ open = TRUE
    BY <1>1, <1>2, <1>3, <2>1 DEF Uncrossed
  <2>5. q.got = Found(c, q.arg)
    BY <1>1, <1>2, <2>4 DEF Fresh
  <2>6. q.got.comments = PieceOf(c, q.arg) /\ q.got.total = Len(c)
        /\ q.got.pages = (Len(c) + Take - 1) \div Take
    BY <2>5 DEF Found
  <2>7. Len(s) = (q.arg - 1) * Take /\ Begins(s, c)
    <3>1. CASE q.arg = 1
      <4>1. s = <<>> /\ Len(s) = 0 /\ Len(c) \in Nat
        BY <1>2, <3>1
      <4>2. (q.arg - 1) * Take = 0
        BY <3>1 DEF ThreadAssumption
      <4>. QED BY <4>1, <4>2 DEF Begins
    <3>2. CASE q.arg # 1
      <4>1. s = view.comments /\ Len(view.comments) = (q.arg - 1) * Take
        BY <2>4, <3>2 DEF Thread!Overtaken
      <4>2. Uncrossed(R, open, threadMuddled)
        BY <2>3, <2>4, <3>2 DEF Uncrossed
      <4>3. Begins(Left(R, view), c)
        BY <1>2, <4>2 DEF Agreed
      <4>4. Gone(R) = {}
        BY <2>3 DEF Gone
      <4>5. Left(R, view) = view.comments
        <5>1. \A i \in 1 .. Len(view.comments) : view.comments[i] \notin {}
          OBVIOUS
        <5>2. Without(view.comments, {}) = view.comments
          BY <1>2, <5>1, WithoutNone
        <5>. QED BY <4>4, <5>2 DEF Left
      <4>. QED BY <4>1, <4>3, <4>5
    <3>. QED BY <3>1, <3>2
  <2> HIDE DEF s
  <2>8. /\ Begins(w, c)
        /\ q.arg >= (Len(c) + Take - 1) \div Take => w = c
    <3>1. w = s \o PieceOf(c, q.arg)
      BY <1>4, <2>6
    <3>2. c \in Seq(1 .. made) /\ s \in Seq(1 .. made) /\ q.arg \in Nat /\ q.arg >= 1
      BY <1>2, <1>3, <1>4
    <3> HIDE DEF c
    <3>3. /\ Begins(s \o PieceOf(c, q.arg), c)
          /\ q.arg >= (Len(c) + Take - 1) \div Take => s \o PieceOf(c, q.arg) = c
      BY <2>7, <3>2, PieceContinues
    <3>. QED BY <3>1, <3>3
  <2>9. Left(S, view') = w
    <3>1. Gone(S) = {}
      BY <2>2 DEF Gone
    <3>2. \A i \in 1 .. Len(w) : w[i] \notin {}
      OBVIOUS
    <3>3. Without(w, {}) = w
      BY <1>4, <3>2, WithoutNone
    <3>. QED BY <1>5, <3>1, <3>3 DEF Left
  <2>10. view'.total = Len(c) + Cardinality(Removals(S))
    <3>1. Cardinality(Removals(S)) = 0 /\ Len(c) \in Nat
      BY <1>2, <2>2, FS_EmptySet
    <3>. QED BY <1>5, <2>6, <3>1
  <2>11. view'.page < view'.pages \/ w = c
    <3>1. view'.page = q.arg /\ view'.pages = q.got.pages /\ q.got.pages \in Nat
      BY <1>3, <1>5
    <3>. QED BY <1>3, <2>6, <2>8, <3>1
  <2>. QED BY <2>8, <2>9, <2>10, <2>11
<1>14. ThreadTyped'
  <2>1. submitting' \in BOOLEAN /\ threadMuddled' \in BOOLEAN
    BY <1>1, <1>2, <1>3
  <2>2. view'.comments \in Seq(1 .. made)
    BY <1>4, <1>5
  <2>. QED BY <1>1, <1>6, <2>1, <2>2 DEF ThreadInv, ThreadTyped
<1>15. view'.loading = FALSE
  BY <1>5
<1> HIDE DEF R, c
<1>16. Fresh(S, comments) /\ Agreed(S, view', comments, open, threadMuddled')
  BY <1>11, <1>13 DEF c
<1>. QED BY <1>1, <1>8, <1>9, <1>10, <1>12, <1>14, <1>15, <1>16 DEF ThreadInv

LEMMA FailedView ==
  ASSUME NEW v \in ThreadView
  PROVE  LET w == [v EXCEPT !.failed = TRUE]
         IN  /\ w \in ThreadView /\ w.failed = TRUE
             /\ w.comments = v.comments /\ w.total = v.total /\ w.loading = v.loading
<1>1. DOMAIN v = {"comments", "total", "page", "pages", "loading", "failed"}
  BY DEF ThreadView
<1>. QED BY <1>1 DEF ThreadView

LEMMA FailedLoad ==
  ASSUME NEW v \in ThreadView
  PROVE  LET w == [v EXCEPT !.loading = FALSE, !.failed = TRUE]
         IN  /\ w \in ThreadView /\ w.failed = TRUE
             /\ w.comments = v.comments /\ w.total = v.total /\ w.loading = FALSE
<1> DEFINE u == [v EXCEPT !.loading = FALSE]
           w == [u EXCEPT !.failed = TRUE]
<1>1. u \in ThreadView /\ u.comments = v.comments /\ u.total = v.total /\ u.loading = FALSE
  BY DEF ThreadView
<1> HIDE DEF u
<1>2. /\ w \in ThreadView /\ w.failed = TRUE
      /\ w.comments = u.comments /\ w.total = u.total /\ w.loading = u.loading
  BY <1>1, FailedView
<1>3. w = [v EXCEPT !.loading = FALSE, !.failed = TRUE]
  BY DEF u
<1> HIDE DEF w
<1>. QED BY <1>1, <1>2, <1>3

LEMMA ThreadErrorStep ==
  ASSUME ThreadInv, NEW q \in threadRequests, q.phase = "error",
         Thread!LoadComes(q) \/ Thread!CreateComes(q) \/ Thread!DeleteComes(q)
  PROVE  ThreadInv'
<1> USE DEF Thread!server
<1>1. /\ view \in ThreadView /\ submitting \in BOOLEAN
      /\ RequestFits(q, threadAsked, made, open) /\ SendsOnce(threadRequests, submitting)
  BY DEF ThreadInv, ThreadTyped, ThreadAsks
<1>2. q.gone = FALSE
  BY <1>1 DEF RequestFits, ThreadRequest
<1>3. CASE Thread!LoadComes(q)
  <2>1. /\ IsLoad(q) /\ threadRequests' = threadRequests \ {q}
        /\ view' = [view EXCEPT !.loading = FALSE, !.failed = TRUE]
        /\ submitting' = (submitting /\ q.kind # "reload")
        /\ UNCHANGED <<comments, made, mine, commenter, open, count, threadAsked, threadMuddled>>
    BY <1>3 DEF Thread!LoadComes, Thread!Loads, IsLoad
  <2>2. /\ view' \in ThreadView /\ view'.comments = view.comments /\ view'.total = view.total
        /\ view'.failed = TRUE /\ view'.loading = FALSE
    BY <1>1, <2>1, FailedLoad
  <2>3. q.kind # "reload" <=> ~Submits(q)
    BY <1>2, <2>1 DEF IsLoad, Submits
  <2>4. submitting' = (submitting /\ ~Submits(q))
    BY <2>1, <2>3
  <2>5. view'.loading => view.loading /\ ~IsLoad(q)
    BY <2>2
  <2>. QED BY <2>1, <2>2, <2>4, <2>5, ThreadFailStep
<1>4. CASE Thread!CreateComes(q)
  <2>1. /\ q.kind = "create" /\ threadRequests' = threadRequests \ {q}
        /\ view' = [view EXCEPT !.failed = TRUE] /\ submitting' = FALSE
        /\ UNCHANGED <<comments, made, mine, commenter, open, count, threadAsked, threadMuddled>>
    BY <1>4 DEF Thread!CreateComes
  <2>2. /\ view' \in ThreadView /\ view'.comments = view.comments /\ view'.total = view.total
        /\ view'.failed = TRUE /\ view'.loading = view.loading
    BY <1>1, <2>1, FailedView
  <2>3. Submits(q)
    BY <1>2, <2>1 DEF Submits
  <2>4. submitting' = (submitting /\ ~Submits(q))
    BY <2>1, <2>3
  <2>5. view'.loading => view.loading /\ ~IsLoad(q)
    BY <2>1, <2>2 DEF IsLoad
  <2>. QED BY <2>1, <2>2, <2>4, <2>5, ThreadFailStep
<1>5. CASE Thread!DeleteComes(q)
  <2>1. /\ q.kind = "delete" /\ threadRequests' = threadRequests \ {q}
        /\ view' = [view EXCEPT !.failed = TRUE] /\ submitting' = submitting
        /\ UNCHANGED <<comments, made, mine, commenter, open, count, threadAsked, threadMuddled>>
    BY <1>5 DEF Thread!DeleteComes
  <2>2. /\ view' \in ThreadView /\ view'.comments = view.comments /\ view'.total = view.total
        /\ view'.failed = TRUE /\ view'.loading = view.loading
    BY <1>1, <2>1, FailedView
  <2>3. ~Submits(q)
    BY <2>1 DEF Submits
  <2>4. submitting' = (submitting /\ ~Submits(q))
    BY <1>1, <2>1, <2>3
  <2>5. view'.loading => view.loading /\ ~IsLoad(q)
    BY <2>1, <2>2 DEF IsLoad
  <2>. QED BY <2>1, <2>2, <2>4, <2>5, ThreadFailStep
<1>. QED BY <1>3, <1>4, <1>5

LEMMA CreateComesStep ==
  ASSUME ThreadInv, NEW q \in threadRequests, Thread!CreateComes(q), q.phase = "ok"
  PROVE  ThreadInv'
<1> DEFINE R == threadRequests
           x == Thread!Request("reload", 1)
           K == R \ {q}
           S == K \cup {x}
           v == [view EXCEPT !.total = view.total + 1]
<1>1. /\ q.kind = "create" /\ view' = Thread!Loading(v) /\ threadAsked' = threadAsked + 1
      /\ threadRequests' = S /\ submitting' = submitting
      /\ comments' = comments /\ made' = made /\ mine' = mine /\ commenter' = commenter
      /\ open' = open /\ count' = count /\ threadMuddled' = threadMuddled
  BY DEF Thread!CreateComes, Thread!server
<1>2. /\ ThreadAsks(R, threadAsked, made, open) /\ made \in Nat /\ threadAsked \in Nat
      /\ SendsOnce(R, submitting) /\ submitting \in BOOLEAN /\ open \in BOOLEAN
      /\ Agreed(R, view, comments, open, threadMuddled) /\ IsFiniteSet(Removals(R))
      /\ view \in ThreadView /\ Fresh(R, comments) /\ Counted(R, view, made)
      /\ view.comments \in Seq(1 .. made)
  BY DEF ThreadInv, ThreadTyped, ServerTyped
<1>3. q.gone = FALSE /\ Submits(q) /\ open = TRUE /\ NewComment(q)
  BY <1>1, <1>2 DEF ThreadAsks, RequestFits, ThreadRequest, Submits, NewComment
<1>4. submitting = TRUE /\ \A r \in K : ~NewComment(r)
  <2>1. \A r \in K : ThreadRequest = ThreadRequest /\ (NewComment(r) => Submits(r))
    BY <1>2 DEF NewComment, Submits, ThreadAsks, RequestFits, ThreadRequest
  <2>. QED BY <1>2, <1>3, <2>1 DEF SendsOnce
<1>5. /\ RequestFits(x, threadAsked + 1, made, TRUE)
      /\ x.n = threadAsked + 1 /\ x.kind = "reload" /\ x.phase = "sent" /\ ~x.gone
  <2>0. threadAsked \in Nat /\ made \in Nat
    BY <1>2
  <2>1. \A k \in {"load", "reload", "create", "delete"}, p \in Nat :
          p >= 1 => RequestFits(Thread!Request(k, p), threadAsked + 1, made, TRUE)
    BY <2>0, NewRequest
  <2>2. "reload" \in {"load", "reload", "create", "delete"} /\ 1 \in Nat /\ 1 >= 1
    OBVIOUS
  <2>3. RequestFits(x, threadAsked + 1, made, TRUE)
    BY <2>1, <2>2
  <2>4. x.n = threadAsked + 1 /\ x.kind = "reload" /\ x.phase = "sent" /\ ~x.gone
    BY DEF Thread!Request
  <2>. QED BY <2>3, <2>4
<1> HIDE DEF x
<1>6. v \in ThreadView /\ v.comments = view.comments /\ v.total = view.total + 1
  BY <1>2 DEF ThreadView
<1> HIDE DEF v
<1>7. view' \in ThreadView /\ view'.comments = view.comments /\ view'.total = view.total + 1
  BY <1>1, <1>6, LoadingView
<1>8. Carried(K, K)
  <2>1. K \in SUBSET R
    OBVIOUS
  <2>. QED BY <1>2, <2>1, CarriedAsIs
<1>9. ThreadAsks(S, threadAsked + 1, made, open)
  <2>1. threadAsked + 1 \in Nat /\ threadAsked <= threadAsked + 1 /\ made <= made
        /\ K \in SUBSET R
    BY <1>2
  <2> HIDE DEF K, R
  <2>2. ThreadAsks(K, threadAsked + 1, made, open)
    BY <1>2, <1>8, <2>1, CarriedAsks
  <2>3. \A s \in K : s.n # x.n
    BY <1>2, <1>5, <2>1 DEF ThreadAsks, RequestFits, ThreadRequest
  <2>. QED BY <1>3, <1>5, <2>2, <2>3, AddedAsks
<1>10. SendsOnce(S, TRUE)
  <2>1. Carried(R \ {q}, K) /\ q \in R
    BY <1>8
  <2>2. Submits(x)
    BY <1>5 DEF Submits
  <2> HIDE DEF K, R
  <2>3. SendsOnce(K, FALSE)
    BY <1>2, <1>3, <2>1, CarriedSends
  <2>. QED BY <2>2, <2>3, AddedSubmission
<1>11. Removals(S) = Removals(R)
  <2>1. ~WasRemoved(q) /\ ~WasRemoved(x)
    BY <1>1, <1>5 DEF WasRemoved
  <2>2. Removals(K) = Removals(R)
    BY <2>1, SentRemoves
  <2>3. Removals(K \cup {x}) = Removals(K)
    BY <2>1, SentRemoves
  <2>. QED BY <2>2, <2>3
<1>12. Counted(S, view', made)
  <2>1. view.total <= made /\ view.total \in Nat
    BY <1>2, <1>3 DEF Counted, ThreadView
  <2>2. view'.total <= made + 1
    BY <1>2, <1>7, <2>1
  <2>3. ~NewComment(x)
    BY <1>5 DEF NewComment
  <2>. QED BY <1>4, <2>2, <2>3 DEF Counted
<1>13. Fresh(S, comments)
  BY <1>2, <1>5 DEF Fresh
<1>14. \E r \in S : LiveLoad(r)
  BY <1>5 DEF LiveLoad, IsLoad
<1>15. Agreed(S, view', comments, open, threadMuddled)
  <2>1. ~Quiet(S, view', open, threadMuddled)
    BY <1>14 DEF Quiet
  <2>2. Left(S, view') = Left(R, view)
    BY <1>7, <1>11 DEF Left, Gone
  <2>3. Uncrossed(S, open, threadMuddled) => Uncrossed(R, open, threadMuddled)
    BY <1>11 DEF Uncrossed
  <2>. QED BY <1>2, <2>1, <2>2, <2>3 DEF Agreed
<1>16. ThreadTyped'
  <2>1. threadAsked' \in Nat /\ view'.comments \in Seq(1 .. made)
    BY <1>1, <1>2, <1>7
  <2>. QED BY <1>1, <1>7, <2>1 DEF ThreadInv, ThreadTyped
<1>17. IsFiniteSet(Removals(S)) /\ submitting' = TRUE
  BY <1>1, <1>2, <1>4, <1>11
<1> HIDE DEF S, R, K
<1>. QED BY <1>1, <1>9, <1>10, <1>12, <1>13, <1>14, <1>15, <1>16, <1>17 DEF ThreadInv

LEMMA DeleteComesStep ==
  ASSUME ThreadInv, NEW q \in threadRequests, Thread!DeleteComes(q), q.phase = "ok"
  PROVE  ThreadInv'
<1> DEFINE R == threadRequests
           S == R \ {q}
           l == Without(view.comments, {q.arg})
           n == IF view.total = 0 THEN 0 ELSE view.total - 1
           v == [view EXCEPT !.comments = l]
<1>1. /\ q.kind = "delete" /\ view' = [view EXCEPT !.comments = l, !.total = n]
      /\ threadRequests' = S /\ threadMuddled' = (threadMuddled \/ q.old)
      /\ submitting' = submitting /\ threadAsked' = threadAsked
      /\ comments' = comments /\ made' = made /\ mine' = mine /\ commenter' = commenter
      /\ open' = open /\ count' = count
  BY ThreadWithout DEF Thread!DeleteComes, Thread!server
<1>2. /\ ThreadAsks(R, threadAsked, made, open) /\ made \in Nat /\ threadAsked \in Nat
      /\ SendsOnce(R, submitting) /\ threadMuddled \in BOOLEAN
      /\ Agreed(R, view, comments, open, threadMuddled) /\ IsFiniteSet(Removals(R))
      /\ view \in ThreadView /\ Fresh(R, comments) /\ Counted(R, view, made)
      /\ view.comments \in Seq(1 .. made) /\ view.total \in Nat /\ comments \in Seq(1 .. made)
  BY DEF ThreadInv, ThreadTyped, ServerTyped, ThreadView
<1>3. q \in ThreadRequest /\ q.old \in BOOLEAN /\ WasRemoved(q)
  BY <1>1, <1>2 DEF ThreadAsks, RequestFits, ThreadRequest, WasRemoved
<1>4. l \in Seq(1 .. made) /\ n \in Nat /\ n <= view.total
  <2>1. l \in Seq(1 .. made)
    BY <1>2, WithoutTyped
  <2> HIDE DEF l
  <2>. QED BY <1>2, <2>1
<1> HIDE DEF l, n
<1>5. /\ view' \in ThreadView /\ view'.comments = l /\ view'.total = n
      /\ view'.page = view.page /\ view'.pages = view.pages /\ view'.loading = view.loading
      /\ view'.failed = view.failed
  <2>1. l \in Seq(Nat)
    BY <1>2, <1>4
  <2>2. /\ v \in ThreadView /\ v.comments = l /\ v.total = view.total
        /\ v.page = view.page /\ v.pages = view.pages /\ v.loading = view.loading
        /\ v.failed = view.failed
    BY <1>2, <2>1 DEF ThreadView
  <2>3. view' = [v EXCEPT !.total = n]
    BY <1>1
  <2> HIDE DEF v
  <2>. QED BY <1>4, <2>2, <2>3 DEF ThreadView
<1>6. ThreadAsks(S, threadAsked, made, open)
  BY <1>2 DEF ThreadAsks
<1>7. SendsOnce(S, submitting)
  <2>1. ~Submits(q)
    BY <1>1 DEF Submits
  <2>. QED BY <1>2, <2>1 DEF SendsOnce
<1>8. view'.loading => \E r \in S : LiveLoad(r)
  <2>1. ~LiveLoad(q)
    BY <1>1 DEF LiveLoad, IsLoad
  <2>. QED BY <1>5, <2>1 DEF ThreadInv
<1>9. Counted(S, view', made)
  <2>1. n <= made + 1 /\ \A r \in S : NewComment(r) => n <= made
    BY <1>2, <1>4 DEF Counted
  <2>. QED BY <1>5, <2>1 DEF Counted
<1>10. Fresh(S, comments)
  BY <1>2 DEF Fresh
<1>11. Removals(S) = Removals(R) \ {q} /\ q \in Removals(R)
  BY <1>3 DEF Removals
<1>12. /\ IsFiniteSet(Removals(S)) /\ Cardinality(Removals(R)) \in Nat
       /\ Cardinality(Removals(S)) \in Nat
       /\ Cardinality(Removals(R)) = Cardinality(Removals(S)) + 1
  <2> DEFINE D == Removals(R)
             E == Removals(S)
  <2>1. IsFiniteSet(D) /\ E = D \ {q} /\ q \in D
    BY <1>2, <1>11
  <2> HIDE DEF D, E
  <2>2. IsFiniteSet(E) /\ Cardinality(E) = Cardinality(D) - 1
    BY <2>1, FS_RemoveElement
  <2>3. Cardinality(E) \in Nat /\ Cardinality(D) \in Nat
    BY <2>1, <2>2, FS_CardinalityType
  <2>4. Cardinality(D) = Cardinality(E) + 1
    BY <2>2, <2>3
  <2>. QED BY <2>2, <2>3, <2>4 DEF D, E
<1>13. Left(S, view') = Left(R, view)
  <2>1. Gone(R) = {q.arg} \cup Gone(S)
    BY <1>11 DEF Gone
  <2> DEFINE w == view.comments
             G == Gone(S)
  <2>2. Without(Without(w, {q.arg}), G) = Without(w, {q.arg} \cup G)
    <3>1. w \in Seq(1 .. made)
      BY <1>2
    <3> HIDE DEF w, G
    <3>. QED BY <3>1, WithoutBoth
  <2>. QED BY <1>5, <2>1, <2>2 DEF Left, l
<1>14. Agreed(S, view', comments, open, threadMuddled')
  <2>1. ASSUME Uncrossed(S, open, threadMuddled') PROVE Uncrossed(R, open, threadMuddled)
    <3>1. threadMuddled = FALSE /\ q.old = FALSE /\ open = TRUE
      BY <1>1, <1>2, <1>3, <2>1 DEF Uncrossed
    <3>. QED BY <1>11, <2>1, <3>1 DEF Uncrossed
  <2>2. ASSUME Quiet(S, view', open, threadMuddled') PROVE Quiet(R, view, open, threadMuddled)
    <3>1. ~LiveLoad(q) /\ ~NewComment(q)
      BY <1>1 DEF LiveLoad, IsLoad, NewComment
    <3>2. \A r \in R : ~LiveLoad(r) /\ ~NewComment(r)
      BY <2>2, <3>1 DEF Quiet
    <3>3. Uncrossed(R, open, threadMuddled) /\ ~view.failed
      BY <1>5, <2>1, <2>2 DEF Quiet
    <3>. QED BY <3>2, <3>3 DEF Quiet
  <2>3. Quiet(S, view', open, threadMuddled') =>
          /\ view'.total = Len(comments) + Cardinality(Removals(S))
          /\ view'.page < view'.pages \/ Left(S, view') = comments
    <3>1. SUFFICES ASSUME Quiet(R, view, open, threadMuddled)
                   PROVE  /\ n = Len(comments) + Cardinality(Removals(S))
                          /\ view.page < view.pages \/ Left(R, view) = comments
      BY <1>5, <1>13, <2>2
    <3>2. /\ view.total = Len(comments) + Cardinality(Removals(R))
          /\ view.page < view.pages \/ Left(R, view) = comments
      BY <1>2, <3>1 DEF Agreed
    <3>3. Len(comments) \in Nat
      BY <1>2
    <3> HIDE DEF R, S
    <3>4. n = Len(comments) + Cardinality(Removals(S))
      BY <1>12, <3>2, <3>3 DEF n
    <3>. QED BY <3>2, <3>4
  <2>. QED BY <1>2, <1>13, <2>1, <2>3 DEF Agreed
<1>15. ThreadTyped'
  <2>1. threadMuddled' \in BOOLEAN
    BY <1>1, <1>2, <1>3
  <2>2. view'.comments \in Seq(1 .. made)
    BY <1>4, <1>5
  <2>. QED BY <1>1, <1>5, <2>1, <2>2 DEF ThreadInv, ThreadTyped
<1> HIDE DEF R, S, v
<1>. QED BY <1>1, <1>6, <1>7, <1>8, <1>9, <1>10, <1>12, <1>14, <1>15 DEF ThreadInv

LEMMA ThreadStep ==
  ASSUME ThreadInv, ThreadAssumption, Thread!Next
  PROVE  ThreadInv'
<1>1. CASE Thread!Open
  BY <1>1, OpenStep
<1>2. CASE Thread!Close
  BY <1>2, CloseStep
<1>3. CASE Thread!LoadMore \/ Thread!Submit \/ \E c \in Thread!Elements(view.comments) : Thread!Delete(c)
  BY <1>3, ThreadAsksMoreStep
<1>4. CASE Thread!Elsewhere
  BY <1>4, ThreadElsewhereStep
<1>5. ASSUME NEW q \in threadRequests,
             \/ Thread!Serve(q) \/ Thread!LoadComes(q) \/ Thread!CreateComes(q)
             \/ Thread!DeleteComes(q)
      PROVE  ThreadInv'
  <2>1. CASE Thread!Serve(q)
    <3>1. \/ Thread!ServeLoad(q) \/ Thread!Reject(q) \/ Thread!CreateComment(q)
          \/ Thread!RemoveComment(q)
      BY <2>1 DEF Thread!Serve
    <3>. QED BY <2>1, <3>1, ThreadReadsStep, ThreadCreateStep, ThreadRemoveStep
  <2>2. CASE q.phase = "error" /\ (Thread!LoadComes(q) \/ Thread!CreateComes(q) \/ Thread!DeleteComes(q))
    BY <2>2, ThreadErrorStep
  <2>3. CASE q.phase = "ok" /\ (Thread!LoadComes(q) \/ Thread!CreateComes(q) \/ Thread!DeleteComes(q))
    BY <2>3, LoadComesStep, CreateComesStep, DeleteComesStep
  <2>4. Thread!LoadComes(q) \/ Thread!CreateComes(q) \/ Thread!DeleteComes(q) => q.phase \in {"ok", "error"}
    BY DEF Thread!LoadComes, Thread!CreateComes, Thread!DeleteComes
  <2>. QED BY <1>5, <2>1, <2>2, <2>3, <2>4
<1>. QED BY <1>1, <1>2, <1>3, <1>4, <1>5 DEF Thread!Next

LEMMA ThreadShows ==
  ASSUME ThreadInv, ThreadAssumption
  PROVE  Thread!TypeOK /\ Thread!ThreadAgrees
<1>1. ThreadTyped /\ ServerTyped(comments, made) /\ made \in Nat /\ made <= MaxComments
      /\ comments \in Seq(1 .. made) /\ view.comments \in Seq(1 .. made)
      /\ view.total \in Nat /\ MaxComments \in Nat
  BY DEF ThreadInv, ThreadTyped, ServerTyped, ThreadView, ThreadAssumption
<1>2. Thread!TypeOK
  <2>1. made \in 0 .. MaxComments
    BY <1>1
  <2>2. Thread!Elements(comments) \subseteq 1 .. made /\ Thread!Elements(view.comments) \subseteq 1 .. made
    BY <1>1 DEF Thread!Elements
  <2>3. view.total \in 0 .. MaxComments + 1
    <3>1. view.total <= made + 1
      BY DEF ThreadInv, Counted
    <3>. QED BY <1>1, <3>1
  <2>4. \A q \in threadRequests, r \in threadRequests :
          q.kind = "create" /\ r.kind = "create" /\ ~q.gone /\ ~r.gone => q = r
    BY DEF ThreadInv, SendsOnce, Submits
  <2>5. {open, submitting, threadMuddled} \subseteq BOOLEAN
    BY <1>1 DEF ThreadTyped
  <2>. QED BY <1>1, <2>1, <2>2, <2>3, <2>4, <2>5 DEF Thread!TypeOK, ThreadTyped
<1>3. Thread!ThreadAgrees
  <2>1. SUFFICES ASSUME open, threadRequests = {}
                 PROVE  /\ ~view.loading /\ ~submitting
                        /\ ~view.failed /\ ~threadMuddled =>
                             /\ Thread!IsBeginning(view.comments, comments)
                             /\ view.total = Len(comments)
                             /\ view.page < view.pages \/ view.comments = comments
    BY DEF Thread!ThreadAgrees
  <2>2. ~view.loading /\ ~submitting
    BY <2>1 DEF ThreadInv, SendsOnce
  <2>3. SUFFICES ASSUME ~view.failed, ~threadMuddled
                 PROVE  /\ Thread!IsBeginning(view.comments, comments)
                        /\ view.total = Len(comments)
                        /\ view.page < view.pages \/ view.comments = comments
    BY <2>2
  <2>4. Removals(threadRequests) = {} /\ Gone(threadRequests) = {}
    BY <2>1 DEF Removals, Gone
  <2>5. Left(threadRequests, view) = view.comments
    <3>1. \A i \in 1 .. Len(view.comments) : view.comments[i] \notin {}
      OBVIOUS
    <3>2. Without(view.comments, {}) = view.comments
      BY <1>1, <3>1, WithoutNone
    <3>. QED BY <2>4, <3>2 DEF Left
  <2>6. Uncrossed(threadRequests, open, threadMuddled)
        /\ Quiet(threadRequests, view, open, threadMuddled)
    BY <1>1, <2>1, <2>3, <2>4 DEF Uncrossed, Quiet, ThreadTyped
  <2>7. /\ Begins(view.comments, comments)
        /\ view.total = Len(comments) + Cardinality(Removals(threadRequests))
        /\ view.page < view.pages \/ view.comments = comments
    BY <2>5, <2>6 DEF ThreadInv, Agreed
  <2>8. view.total = Len(comments)
    <3>1. Cardinality(Removals(threadRequests)) = 0 /\ Len(comments) \in Nat
      BY <1>1, <2>4, FS_EmptySet
    <3>. QED BY <2>7, <3>1
  <2>9. Thread!IsBeginning(view.comments, comments)
    <3> DEFINE a == view.comments
               b == comments
               n == Len(a)
    <3>1. a \in Seq(1 .. made) /\ b \in Seq(1 .. made) /\ Begins(a, b)
      BY <1>1, <2>7
    <3> HIDE DEF a, b
    <3>2. n \in Nat /\ n <= Len(b) /\ \A i \in 1 .. n : a[i] = b[i]
      BY <3>1 DEF Begins
    <3>3. SubSeq(a, 1, n) = SubSeq(b, 1, n)
      <4>1. \A i \in 1 .. n : a[1 + i - 1] = b[1 + i - 1]
        BY <3>2
      <4>. QED BY <3>1, <3>2, <4>1
    <3>4. Len(a) <= Len(b) /\ SubSeq(a, 1, Len(a)) = SubSeq(b, 1, Len(a))
      BY <3>2, <3>3
    <3>. QED BY <3>4 DEF Thread!IsBeginning, a, b
  <2>. QED BY <2>7, <2>8, <2>9
<1>. QED BY <1>2, <1>3

-----------------------------------------------------------------------------
(* Pages: the page that is open keeps its invariant.                        *)

LEMMA TitleStays ==
  ASSUME TitleInv, UNCHANGED title
  PROVE  TitleInv'
<1>1. TitleTyped'
  BY DEF TitleInv, TitleTyped, RowsTyped, CallsTyped, ReadsTyped, LoadsTyped, title
<1>2. CardFresh'
  BY DEF TitleInv, CardFresh, title
<1>3. ButtonFresh'
  BY DEF TitleInv, ButtonFresh, title
<1>. QED BY <1>1, <1>2, <1>3 DEF TitleInv

LEMMA ShelfStays ==
  ASSUME ShelfInv, UNCHANGED shelf
  PROVE  ShelfInv'
<1>1. ShelfTyped' /\ WireTyped'
  BY DEF ShelfInv, ShelfTyped, WireTyped, shelf
<1>2. ShelfWaits' /\ YearsFollow' /\ DataFollow'
  BY DEF ShelfInv, ShelfWaits, YearsFollow, DataFollow, shelf
<1>3. WantsFollow'
  <2>1. \A k \in Nat : Shelf!GetWantToWatchAll(k)' = Shelf!GetWantToWatchAll(k)
    BY DEF Shelf!GetWantToWatchAll, Shelf!HasMore, shelf
  <2>2. WireTyped /\ ShelfTyped
    BY DEF ShelfInv
  <2>3. ASSUME NEW q \in requests PROVE PieceRead(q)'
    <3>1. q.arg \in Nat
      BY <2>2 DEF WireTyped, ShelfTyped, ShelfRequestTypes
    <3>. QED BY <2>1, <3>1 DEF ShelfInv, WantsFollow, PieceRead
  <2>. QED BY <2>3 DEF ShelfInv, WantsFollow, shelf
<1>. QED BY <1>1, <1>2, <1>3 DEF ShelfInv

LEMMA ThreadStays ==
  ASSUME ThreadInv, UNCHANGED thread
  PROVE  ThreadInv'
BY DEF ThreadInv, ThreadTyped, thread

\* The invariant of the page that is open.
PagesInv ==
    /\ screen \in {"card form", "button form", "removal"} => TitleInv
    /\ screen = "list" => ListInv
    /\ screen = "shelf" => ShelfInv
    /\ screen = "comments" => ThreadInv
    /\ screen = "users" => UserInv
    /\ screen = "blocked contents" => BlockInv

LEMMA PagesInitially == PagesInit => PagesInv
<1> SUFFICES ASSUME PagesInit PROVE PagesInv
  OBVIOUS
<1>1. screen \in {"card form", "button form", "removal"} => TitleInv
  <2>1. \/ screen = "card form" /\ Title(CardForm, TitleFailures)!Init
        \/ screen = "button form" /\ Title(ButtonForm, 0)!Init
        \/ screen = "removal" /\ Title(Removal, TitleFailures)!Init
        \/ screen \notin {"card form", "button form", "removal"}
    BY DEF PagesInit
  <2>. QED BY <2>1, TitleInit
<1>2. screen = "list" => ListInv
  BY ListInit DEF PagesInit
<1>3. screen = "shelf" => ShelfInv
  BY ShelfInit DEF PagesInit
<1>4. screen = "comments" => ThreadInv
  BY ThreadInit, ThreadAssumption DEF PagesInit
<1>5. screen = "users" => UserInv
  BY UserInit DEF PagesInit
<1>6. screen = "blocked contents" => BlockInv
  BY BlockInit DEF PagesInit
<1>. QED BY <1>1, <1>2, <1>3, <1>4, <1>5, <1>6 DEF PagesInv

LEMMA PagesStep == PagesInv /\ [PagesNext]_<<screen, pages>> => PagesInv'
<1> SUFFICES ASSUME PagesInv, [PagesNext]_<<screen, pages>> PROVE PagesInv'
  OBVIOUS
<1>0. screen' = screen
  BY Frame
<1>1. screen \in {"card form", "button form", "removal"} => TitleInv'
  <2>1. SUFFICES ASSUME screen \in {"card form", "button form", "removal"} PROVE TitleInv'
    OBVIOUS
  <2>2. TitleInv
    BY <2>1 DEF PagesInv
  <2>3. \/ Title(CardForm, TitleFailures)!Next
        \/ Title(ButtonForm, 0)!Next
        \/ Title(Removal, TitleFailures)!Next
        \/ UNCHANGED title
    BY Frame
  <2>. QED BY <2>2, <2>3, TitleStep, TitleStays
<1>2. screen = "list" => ListInv'
  <2>1. screen = "list" => ListInv
    BY DEF PagesInv
  <2>. QED BY <2>1, Frame, ListStep
<1>3. screen = "shelf" => ShelfInv'
  <2>1. screen = "shelf" => ShelfInv
    BY DEF PagesInv
  <2>2. Shelf!Next \/ UNCHANGED shelf
    BY Frame
  <2>. QED BY <2>1, <2>2, ShelfStep, ShelfStays
<1>4. screen = "comments" => ThreadInv'
  <2>1. screen = "comments" => ThreadInv
    BY DEF PagesInv
  <2>2. Thread!Next \/ UNCHANGED thread
    BY Frame
  <2>. QED BY <2>1, <2>2, ThreadStep, ThreadStays, ThreadAssumption
<1>5. screen = "users" => UserInv'
  <2>1. screen = "users" => UserInv
    BY DEF PagesInv
  <2>. QED BY <2>1, Frame, UserStep
<1>6. screen = "blocked contents" => BlockInv'
  <2>1. screen = "blocked contents" => BlockInv
    BY DEF PagesInv
  <2>. QED BY <2>1, Frame, BlockStep
<1>. QED BY <1>0, <1>1, <1>2, <1>3, <1>4, <1>5, <1>6 DEF PagesInv

LEMMA PagesShow == PagesInv => PagesAgree
<1> SUFFICES ASSUME PagesInv PROVE PagesAgree
  OBVIOUS
<1>1. ASSUME screen \in {"card form", "button form", "removal"}, NEW U, NEW F
      PROVE  /\ Title(U, F)!TypeOK /\ Title(U, F)!CardShowsSaved
             /\ Title(U, F)!ButtonShowsSaved
  BY <1>1, TitleShows DEF PagesInv
<1>2. screen = "list" => List!TypeOK /\ List!ListIsRequested
  BY ListShows DEF PagesInv
<1>3. screen = "shelf" => Shelf!TypeOK /\ Shelf!PageSettles
  BY ShelfShows DEF PagesInv
<1>4. screen = "comments" => Thread!TypeOK /\ Thread!ThreadAgrees
  BY ThreadShows, ThreadAssumption DEF PagesInv
<1>5. screen = "users" => UserTable!TypeOK /\ UserTable!UsersAgree
  BY UserShows DEF PagesInv
<1>6. screen = "blocked contents" => BlockTable!TypeOK /\ BlockTable!BlockedShown
  BY BlockShows DEF PagesInv
<1>7. screen = "card form" => /\ Title(CardForm, TitleFailures)!TypeOK
                              /\ Title(CardForm, TitleFailures)!CardShowsSaved
                              /\ Title(CardForm, TitleFailures)!ButtonShowsSaved
  BY <1>1
<1>8. screen = "button form" => /\ Title(ButtonForm, 0)!TypeOK
                                /\ Title(ButtonForm, 0)!CardShowsSaved
                                /\ Title(ButtonForm, 0)!ButtonShowsSaved
  BY <1>1
<1>9. screen = "removal" => /\ Title(Removal, TitleFailures)!TypeOK
                            /\ Title(Removal, TitleFailures)!CardShowsSaved
                            /\ Title(Removal, TitleFailures)!ButtonShowsSaved
  BY <1>1
<1>. QED BY <1>2, <1>3, <1>4, <1>5, <1>6, <1>7, <1>8, <1>9 DEF PagesAgree, PagesTyped

\* Whatever the order in which the answers come, a page that is at rest shows what the
\* server keeps: the content page its review and its shelf, the review list, the watchlist
\* page, the comments of a review and an administrator's lists what was asked for last.
THEOREM PagesAlwaysAgree == PagesSpec => []PagesAgree
<1>1. PagesSpec => []PagesInv
  BY PagesInitially, PagesStep, PTL DEF PagesSpec
<1>. QED BY <1>1, PagesShow, PTL
=============================================================================
