---------------------------- MODULE ServicesProofs ----------------------------
(***************************************************************************)
(* Proofs about the components of Services, for every value of its          *)
(* constants: the catalogue, the filters of the chat's search, the cache of *)
(* related contents, the rankings, the sign-ups, the person cache, and what *)
(* every component keeps of its variables.                                 *)
(***************************************************************************)
EXTENDS Services, Arrays, FiniteSetTheorems, SequenceTheorems, WellFoundedInduction, TLAPS

\* A step of the run is a step of one component, or changes nothing of it.
LEMMA Frame ==
  ASSUME [ServicesNext]_<<part, backend>>
  PROVE  /\ part' = part
         /\ [\/ part = "box office" /\ Lists(Weekly, WeeklyFetches)!Next
             \/ part = "trending" /\ Lists(Trending, DailyFetches)!Next]_ranking
         /\ [part = "search" /\ Search!Next]_search
         /\ [part = "related" /\ Related!Next]_related
         /\ [\/ part = "two persons" /\ Signups(Identities, OneNickname)!Next
             \/ part = "one person" /\ Signups(OneIdentity, Nicknames)!Next]_signups
         /\ [Next]_catalogueVars
         /\ [part = "people" /\ People!Next]_people
         /\ [part = "image" /\ Images!Next]_images
<1>1. CASE UNCHANGED <<part, backend>>
  BY <1>1 DEF backend, content
<1>2. CASE RankingSteps
  BY <1>2 DEF RankingSteps, content
<1>3. CASE SearchSteps
  BY <1>3 DEF SearchSteps, content
<1>4. CASE RelatedSteps
  BY <1>4 DEF RelatedSteps, content
<1>5. CASE SignupSteps
  BY <1>5 DEF SignupSteps, content
<1>6. CASE CatalogueSteps
  BY <1>6 DEF CatalogueSteps
<1>7. CASE PersonSteps
  BY <1>7 DEF PersonSteps, content
<1>8. CASE ImageSteps
  BY <1>8 DEF ImageSteps, content
<1>. QED BY <1>1, <1>2, <1>3, <1>4, <1>5, <1>6, <1>7, <1>8 DEF ServicesNext


-----------------------------------------------------------------------------
(* Arrays: what a filter leaves of a list, and induction over lists.        *)

\* Induction over the natural numbers, for a set.
LEMMA SetInduction ==
  ASSUME NEW S, 0 \in S, \A n \in Nat : n \in S => n + 1 \in S
  PROVE  Nat \subseteq S
<1>. DEFINE R == {p \in Nat \X Nat : p[1] < p[2]}
            B == {n \in Nat : n \notin S}
<1>1. SUFFICES ASSUME B # {} PROVE FALSE
  OBVIOUS
<1>2. \E x \in B : \A y \in B : ~(<<y, x>> \in R)
  <2>1. IsWellFoundedOn(R, Nat)
    BY NatLessThanWellFounded DEF OpToRel
  <2>2. B \subseteq Nat
    OBVIOUS
  <2>. HIDE DEF R, B
  <2>. QED BY <1>1, <2>1, <2>2, WFMin
<1>3. PICK x \in B : \A y \in B : ~(y < x)
  BY <1>2
<1>4. x # 0
  OBVIOUS
<1>5. x - 1 \in Nat /\ x - 1 \notin B
  BY <1>3, <1>4
<1>. QED BY <1>5

\* What Keep has kept of the first positions.
IsKept(g, s, I) ==
    g = [i \in 0 .. Len(s) |->
           IF i = 0 THEN <<>> ELSE IF i \in I THEN Append(g[i - 1], s[i]) ELSE g[i - 1]]

\* There is a function of which Keep is the last value.
LEMMA KeepRuns ==
  ASSUME NEW s, Len(s) \in Nat, NEW I
  PROVE  \E g : IsKept(g, s, I) /\ Keep(s, I) = g[Len(s)]
<1> DEFINE Runs(n, g) == g = [i \in 0 .. n |->
               IF i = 0 THEN <<>> ELSE IF i \in I THEN Append(g[i - 1], s[i]) ELSE g[i - 1]]
           S == {n \in Nat : \E g : Runs(n, g)}
<1>1. 0 \in S
  <2>1. Runs(0, [i \in 0 .. 0 |-> <<>>])
    OBVIOUS
  <2>. QED BY <2>1
<1>2. ASSUME NEW n \in Nat, n \in S PROVE n + 1 \in S
  <2>1. PICK g : Runs(n, g)
    BY <1>2
  <2> DEFINE h == [i \in 0 .. n + 1 |-> IF i = n + 1
                     THEN IF i \in I THEN Append(g[n], s[i]) ELSE g[n] ELSE g[i]]
  <2>2. ASSUME NEW i \in 0 .. n + 1
        PROVE  h[i] = IF i = 0 THEN <<>> ELSE IF i \in I THEN Append(h[i - 1], s[i]) ELSE h[i - 1]
    <3>1. CASE i \in 0 .. n
      <4>1. g[i] = IF i = 0 THEN <<>> ELSE IF i \in I THEN Append(g[i - 1], s[i]) ELSE g[i - 1]
        BY <2>1, <3>1
      <4>2. h[i] = g[i] /\ (i # 0 => h[i - 1] = g[i - 1])
        BY <3>1
      <4>. QED BY <4>1, <4>2
    <3>2. CASE i = n + 1
      <4>1. h[i - 1] = g[n] /\ i # 0
        BY <3>2
      <4>. QED BY <3>2, <4>1
    <3>. QED BY <3>1, <3>2
  <2>3. Runs(n + 1, h)
    <3>1. h = [i \in 0 .. n + 1 |-> h[i]]
      OBVIOUS
    <3> HIDE DEF h
    <3>. QED BY <2>2, <3>1
  <2>. HIDE DEF Runs
  <2>. QED BY <2>3
<1>3. Len(s) \in S
  <2> HIDE DEF S
  <2>. QED BY <1>1, <1>2, SetInduction
<1>4. PICK g : IsKept(g, s, I)
  BY <1>3 DEF IsKept
<1> DEFINE k == CHOOSE f : f = [i \in 0 .. Len(s) |->
               IF i = 0 THEN <<>> ELSE IF i \in I THEN Append(f[i - 1], s[i]) ELSE f[i - 1]]
<1>5. IsKept(k, s, I)
  BY <1>4 DEF IsKept
<1>6. Keep(s, I) = k[Len(s)]
  BY DEF Keep
<1> HIDE DEF k
<1>. QED BY <1>5, <1>6

\* k is what is kept of s at the positions in I up to n: f gives the positions.
Picks(f, k, s, I, n) ==
    /\ f \in [1 .. Len(k) -> I \cap (1 .. n)]
    /\ \A i, j \in 1 .. Len(k) : i < j => f[i] < f[j]
    /\ \A p \in I \cap (1 .. n) : \E i \in 1 .. Len(k) : f[i] = p
    /\ \A i \in 1 .. Len(k) : k[i] = s[f[i]]

\* Keep is what its positions name, in their order.
LEMMA KeepPicks ==
  ASSUME NEW X, NEW s \in Seq(X), NEW I
  PROVE  /\ Keep(s, I) \in Seq(X)
         /\ \E f : Picks(f, Keep(s, I), s, I, Len(s))
<1>1. PICK g : IsKept(g, s, I) /\ Keep(s, I) = g[Len(s)]
  BY KeepRuns
<1> DEFINE S == {n \in Nat : n <= Len(s) => g[n] \in Seq(X) /\ \E f : Picks(f, g[n], s, I, n)}
<1>2. 0 \in S
  <2>1. g[0] = <<>>
    BY <1>1 DEF IsKept
  <2>2. Picks(<<>>, <<>>, s, I, 0)
    BY DEF Picks
  <2>3. g[0] \in Seq(X) /\ \E f : Picks(f, g[0], s, I, 0)
    BY <2>1, <2>2
  <2> HIDE DEF Picks
  <2>. QED BY <2>3
<1>3. ASSUME NEW n \in Nat, n \in S PROVE n + 1 \in S
  <2>1. SUFFICES ASSUME n + 1 <= Len(s)
                 PROVE  g[n + 1] \in Seq(X) /\ \E f : Picks(f, g[n + 1], s, I, n + 1)
    OBVIOUS
  <2>2. PICK f : Picks(f, g[n], s, I, n)
    BY <1>3, <2>1
  <2>3. g[n] \in Seq(X) /\ Len(g[n]) \in Nat /\ s[n + 1] \in X
    BY <1>3, <2>1
  <2>4. g[n + 1] = IF n + 1 \in I THEN Append(g[n], s[n + 1]) ELSE g[n]
    <3>1. n + 1 \in 0 .. Len(s) /\ n + 1 # 0 /\ (n + 1) - 1 = n
      BY <2>1
    <3>2. \A i \in 0 .. Len(s) : g[i] = IF i = 0 THEN <<>>
                  ELSE IF i \in I THEN Append(g[i - 1], s[i]) ELSE g[i - 1]
      BY <1>1 DEF IsKept
    <3>. QED BY <3>1, <3>2
  <2> DEFINE m == Len(g[n])
  <2>. /\ \A i \in 1 .. m : f[i] \in I /\ f[i] \in 1 .. n /\ g[n][i] = s[f[i]]
       /\ \A i, j \in 1 .. m : i < j => f[i] < f[j]
       /\ \A p \in I : p \in 1 .. n => \E i \in 1 .. m : f[i] = p
       /\ f \in [1 .. m -> I \cap (1 .. n)]
    BY <2>2 DEF Picks
  <2>. \A p : p \in 1 .. n + 1 <=> p \in 1 .. n \/ p = n + 1
    OBVIOUS
  <2>5. CASE n + 1 \notin I
    <3>1. I \cap (1 .. n + 1) = I \cap (1 .. n)
      BY <2>5
    <3>. QED BY <2>2, <2>3, <2>4, <2>5, <3>1 DEF Picks
  <2>6. CASE n + 1 \in I
    <3> DEFINE k == g[n + 1]
               h == [i \in 1 .. m + 1 |-> IF i = m + 1 THEN n + 1 ELSE f[i]]
    <3>1. /\ k \in Seq(X) /\ Len(k) = m + 1 /\ k[m + 1] = s[n + 1]
          /\ \A i \in 1 .. m : k[i] = g[n][i]
      BY <2>3, <2>4, <2>6
    <3>2. h[m + 1] = n + 1 /\ \A i \in 1 .. m : h[i] = f[i]
      BY <2>3
    <3>3. DOMAIN h = 1 .. Len(k) /\ \A i : i \in 1 .. Len(k) <=> i \in 1 .. m \/ i = m + 1
      BY <2>3, <3>1
    <3> HIDE DEF k, h, m
    <3>4. ASSUME NEW i \in 1 .. Len(k) PROVE h[i] \in I \cap (1 .. n + 1) /\ k[i] = s[h[i]]
      <4>1. CASE i \in 1 .. m
        BY <3>1, <3>2, <4>1
      <4>2. CASE i = m + 1
        BY <2>6, <3>1, <3>2, <4>2
      <4>. QED BY <3>3, <4>1, <4>2
    <3>5. ASSUME NEW i \in 1 .. Len(k), NEW j \in 1 .. Len(k), i < j PROVE h[i] < h[j]
      <4>1. m \in Nat /\ i \in 1 .. m
        BY <2>3, <3>1, <3>5 DEF m
      <4>2. CASE j \in 1 .. m
        BY <3>2, <3>5, <4>1, <4>2
      <4>3. CASE j = m + 1
        <5>1. h[i] \in 1 .. n
          BY <3>2, <4>1
        <5>. QED BY <3>2, <4>3, <5>1
      <4>. QED BY <3>3, <4>2, <4>3
    <3>6. ASSUME NEW p \in I \cap (1 .. n + 1) PROVE \E i \in 1 .. Len(k) : h[i] = p
      <4>1. CASE p \in 1 .. n
        <5>1. PICK i \in 1 .. m : f[i] = p
          BY <4>1
        <5>. QED BY <3>2, <3>3, <5>1
      <4>2. CASE p = n + 1
        BY <3>2, <3>3, <4>2
      <4>. QED BY <4>1, <4>2
    <3>7. h \in [1 .. Len(k) -> I \cap (1 .. n + 1)]
      <4>1. h = [i \in 1 .. Len(k) |-> h[i]]
        BY <3>3 DEF h
      <4>. QED BY <3>4, <4>1
    <3>8. Picks(h, k, s, I, n + 1)
      BY <3>4, <3>5, <3>6, <3>7 DEF Picks
    <3>. QED BY <3>1, <3>8 DEF k
  <2>. QED BY <2>5, <2>6
<1>4. Len(s) \in S
  <2> HIDE DEF S
  <2>. QED BY <1>2, <1>3, SetInduction
<1>. QED BY <1>1, <1>4

-----------------------------------------------------------------------------
(* ReviewList: the list that is shown is the one that was asked for last,   *)
(* with the viewer's own likes.                                            *)

\* What is kept of the first positions depends on no other.
LEMMA KeepAgrees ==
  ASSUME NEW s, NEW t, Len(s) \in Nat, Len(t) \in Nat, NEW I, NEW J, NEW g, NEW h,
         IsKept(g, s, I), IsKept(h, t, J), NEW n \in Nat, n <= Len(s), n <= Len(t),
         \A i \in 1 .. n : s[i] = t[i] /\ (i \in I <=> i \in J)
  PROVE  g[n] = h[n]
<1> DEFINE S == {m \in Nat : m <= n => g[m] = h[m]}
<1>1. \A i \in 0 .. n : /\ i # 0 => i \in 1 .. n
                        /\ g[i] = IF i = 0 THEN <<>>
                             ELSE IF i \in I THEN Append(g[i - 1], s[i]) ELSE g[i - 1]
                        /\ h[i] = IF i = 0 THEN <<>>
                             ELSE IF i \in J THEN Append(h[i - 1], t[i]) ELSE h[i - 1]
  <2>1. \A i \in 0 .. Len(s) : g[i] = IF i = 0 THEN <<>>
                  ELSE IF i \in I THEN Append(g[i - 1], s[i]) ELSE g[i - 1]
    BY DEF IsKept
  <2>2. \A i \in 0 .. Len(t) : h[i] = IF i = 0 THEN <<>>
                  ELSE IF i \in J THEN Append(h[i - 1], t[i]) ELSE h[i - 1]
    BY DEF IsKept
  <2>3. \A i \in 0 .. n : i \in 0 .. Len(s) /\ i \in 0 .. Len(t) /\ (i # 0 => i \in 1 .. n)
    OBVIOUS
  <2>. QED BY <2>1, <2>2, <2>3
<1>2. 0 \in S
  <2>1. g[0] = <<>> /\ h[0] = <<>>
    BY <1>1
  <2>. QED BY <2>1
<1>3. ASSUME NEW m \in Nat, m \in S PROVE m + 1 \in S
  <2>1. SUFFICES ASSUME m + 1 <= n PROVE g[m + 1] = h[m + 1]
    OBVIOUS
  <2>2. m + 1 \in 0 .. n /\ m + 1 # 0 /\ (m + 1) - 1 = m /\ g[m] = h[m]
    BY <1>3, <2>1
  <2>3. s[m + 1] = t[m + 1] /\ (m + 1 \in I <=> m + 1 \in J)
    BY <2>2
  <2>4. /\ g[m + 1] = IF m + 1 \in I THEN Append(g[m], s[m + 1]) ELSE g[m]
        /\ h[m + 1] = IF m + 1 \in J THEN Append(h[m], t[m + 1]) ELSE h[m]
    BY <1>1, <2>2
  <2>. QED BY <2>2, <2>3, <2>4
<1>4. n \in S
  <2> HIDE DEF S
  <2>. QED BY <1>2, <1>3, SetInduction
<1>. QED BY <1>4

\* A list is its last element after the others.
LEMMA LastOf ==
  ASSUME NEW X, NEW n \in Nat, NEW s \in Seq(X), Len(s) = n + 1
  PROVE  \E f \in Seq(X), x \in X : Len(f) = n /\ s = Append(f, x)
<1> DEFINE f == SubSeq(s, 1, n)
           x == s[n + 1]
<1>1. f \in Seq(X) /\ x \in X /\ Len(f) = n /\ \A i \in 1 .. n : f[i] = s[i]
  OBVIOUS
<1> HIDE DEF f, x
<1>2. Append(f, x) \in Seq(X) /\ Len(Append(f, x)) = Len(s)
  BY <1>1
<1>3. \A i \in 1 .. Len(s) : Append(f, x)[i] = s[i]
  <2>1. Append(f, x)[n + 1] = x /\ \A i \in 1 .. n : Append(f, x)[i] = f[i]
    BY <1>1
  <2>2. x = s[n + 1]
    BY DEF x
  <2>3. \A i \in 1 .. n + 1 : i \in 1 .. n \/ i = n + 1
    OBVIOUS
  <2>. QED BY <1>1, <2>1, <2>2, <2>3
<1>4. Append(f, x) = s
  BY <1>2, <1>3, SeqEqual
<1>. QED BY <1>1, <1>4

\* Induction over lists, for a set.
LEMMA ListInduction ==
  ASSUME NEW X, NEW S, <<>> \in S,
         \A f \in Seq(X), x \in X : f \in S => Append(f, x) \in S
  PROVE  Seq(X) \subseteq S
<1> DEFINE T == {n \in Nat : \A t \in Seq(X) : Len(t) = n => t \in S}
<1>1. 0 \in T
  <2>1. \A t \in Seq(X) : Len(t) = 0 => t = <<>>
    OBVIOUS
  <2>. QED BY <2>1
<1>2. ASSUME NEW n \in Nat, n \in T PROVE n + 1 \in T
  <2>1. ASSUME NEW t \in Seq(X), Len(t) = n + 1 PROVE t \in S
    <3>1. PICK f \in Seq(X), x \in X : Len(f) = n /\ t = Append(f, x)
      <4> HIDE DEF T
      <4>. QED BY <2>1, LastOf
    <3>. QED BY <1>2, <3>1
  <2>. QED BY <2>1
<1>3. Nat \subseteq T
  <2> HIDE DEF T
  <2>. QED BY <1>1, <1>2, SetInduction
<1>. QED BY <1>3

\* A filter sees one element after the other.
LEMMA KeepAppend ==
  ASSUME NEW X, NEW s \in Seq(X), NEW x \in X, NEW I
  PROVE  Keep(Append(s, x), I) =
           IF Len(s) + 1 \in I THEN Append(Keep(s, I), x) ELSE Keep(s, I)
<1> DEFINE t == Append(s, x)
           n == Len(s)
<1>1. /\ t \in Seq(X) /\ Len(t) = n + 1 /\ n \in Nat /\ t[n + 1] = x
      /\ \A i \in 1 .. n : t[i] = s[i]
  OBVIOUS
<1> HIDE DEF t
<1>2. PICK g : IsKept(g, t, I) /\ Keep(t, I) = g[n + 1]
  <2>1. \E g : IsKept(g, t, I) /\ Keep(t, I) = g[Len(t)]
    BY <1>1, KeepRuns
  <2>. QED BY <1>1, <2>1
<1>3. PICK h : IsKept(h, s, I) /\ Keep(s, I) = h[n]
  BY <1>1, KeepRuns
<1>4. g[n] = h[n]
  BY <1>1, <1>2, <1>3, KeepAgrees
<1>5. g[n + 1] = IF n + 1 \in I THEN Append(g[n], t[n + 1]) ELSE g[n]
  <2>1. n + 1 \in 0 .. Len(t) /\ n + 1 # 0 /\ (n + 1) - 1 = n
    BY <1>1
  <2>. QED BY <1>2, <2>1 DEF IsKept
<1>. QED BY <1>1, <1>2, <1>3, <1>4, <1>5 DEF t

\* And only the positions there are.
LEMMA KeepSame ==
  ASSUME NEW X, NEW s \in Seq(X), NEW I, NEW J, \A i \in 1 .. Len(s) : i \in I <=> i \in J
  PROVE  Keep(s, I) = Keep(s, J)
<1>1. Len(s) \in Nat
  OBVIOUS
<1>2. PICK g : IsKept(g, s, I) /\ Keep(s, I) = g[Len(s)]
  BY <1>1, KeepRuns
<1>3. PICK h : IsKept(h, s, J) /\ Keep(s, J) = h[Len(s)]
  BY <1>1, KeepRuns
<1>4. g[Len(s)] = h[Len(s)]
  BY <1>1, <1>2, <1>3, KeepAgrees
<1>. QED BY <1>2, <1>3, <1>4

LEMMA KeepEmpty ==
  ASSUME NEW I
  PROVE  Keep(<<>>, I) = <<>>
<1>1. Len(<<>>) = 0
  OBVIOUS
<1>2. PICK g : IsKept(g, <<>>, I) /\ Keep(<<>>, I) = g[Len(<<>>)]
  BY <1>1, KeepRuns
<1>3. g[0] = <<>>
  BY <1>1, <1>2 DEF IsKept
<1>. QED BY <1>1, <1>2, <1>3

\* A filter leaves no more than there was, and less when something is left out.
LEMMA KeepShorter ==
  ASSUME NEW X, NEW s \in Seq(X), NEW I
  PROVE  /\ Len(Keep(s, I)) \in Nat /\ Len(Keep(s, I)) <= Len(s)
         /\ (\E i \in 1 .. Len(s) : i \notin I) => Len(Keep(s, I)) < Len(s)
<1> DEFINE k == Keep(s, I)
           m == Len(k)
           n == Len(s)
           P == I \cap (1 .. n)
<1>1. k \in Seq(X) /\ \E f : Picks(f, k, s, I, n)
  BY KeepPicks
<1>2. PICK f : Picks(f, k, s, I, n)
  BY <1>1
<1>3. m \in Nat /\ n \in Nat
  BY <1>1
<1>4. f \in [1 .. m -> P] /\ \A i, j \in 1 .. m : i < j => f[i] < f[j]
  BY <1>2 DEF Picks
<1>5. IsFiniteSet(1 .. n) /\ Cardinality(1 .. n) = n /\ Cardinality(1 .. m) = m
  <2> HIDE DEF m, n
  <2>1. IsFiniteSet(1 .. n) /\ Cardinality(1 .. n) = n
    BY <1>3, FS_Interval
  <2>2. Cardinality(1 .. m) = m
    BY <1>3, FS_Interval
  <2>. QED BY <2>1, <2>2
<1>6. P \subseteq 1 .. n
  OBVIOUS
<1>7. IsFiniteSet(P) /\ Cardinality(P) \in Nat /\ Cardinality(P) <= n
      /\ (Cardinality(P) = n => P = 1 .. n)
  <2> HIDE DEF P, n
  <2>. QED BY <1>3, <1>5, <1>6, FS_Subset, FS_CardinalityType
<1>8. f \in Injection(1 .. m, P)
  <2>1. ASSUME NEW i \in 1 .. m, NEW j \in 1 .. m, f[i] = f[j] PROVE i = j
    <3>1. f[i] \in Nat /\ f[j] \in Nat
      BY <1>3, <1>4
    <3>2. ~(i < j) /\ ~(j < i)
      BY <1>4, <2>1, <3>1
    <3>. QED BY <1>3, <3>2
  <2> HIDE DEF P, m
  <2>. QED BY <1>4, <2>1 DEF Injection, IsInjective
<1>9. m <= Cardinality(P)
  <2> HIDE DEF P, m
  <2>. QED BY <1>5, <1>7, <1>8, FS_Injection
<1>10. (\E i \in 1 .. n : i \notin I) => P # 1 .. n
  OBVIOUS
<1> HIDE DEF P, m, n, k
<1>11. m <= n /\ ((\E i \in 1 .. n : i \notin I) => m < n)
  BY <1>3, <1>7, <1>9, <1>10
<1>. QED BY <1>3, <1>11 DEF m, n, k

\* One entry for a key at most.
OneEach(s) == \A i, j \in 1 .. Len(s) : s[i].key = s[j].key => i = j

LEMMA KeepOneEach ==
  ASSUME NEW X, NEW s \in Seq(X), OneEach(s), NEW I
  PROVE  /\ Keep(s, I) \in Seq(X) /\ OneEach(Keep(s, I))
         /\ \A i \in 1 .. Len(Keep(s, I)) : \E m \in 1 .. Len(s) : m \in I /\ Keep(s, I)[i] = s[m]
<1> DEFINE k == Keep(s, I)
<1>1. k \in Seq(X) /\ \E f : Picks(f, k, s, I, Len(s))
  BY KeepPicks
<1> HIDE DEF k
<1>2. PICK f : Picks(f, k, s, I, Len(s))
  BY <1>1
<1>3. \A i \in 1 .. Len(k) : f[i] \in I /\ f[i] \in 1 .. Len(s) /\ k[i] = s[f[i]]
  BY <1>2 DEF Picks
<1>4. OneEach(k)
  <2>1. SUFFICES ASSUME NEW i \in 1 .. Len(k), NEW j \in 1 .. Len(k), k[i].key = k[j].key
                 PROVE  i = j
    BY DEF OneEach
  <2>2. f[i] = f[j] /\ f[i] \in Nat
    BY <1>3, <2>1 DEF OneEach
  <2>3. (i < j => f[i] < f[j]) /\ (j < i => f[j] < f[i])
    BY <1>2 DEF Picks
  <2>4. Len(k) \in Nat
    BY <1>1
  <2>. QED BY <2>2, <2>3, <2>4
<1>5. \A i \in 1 .. Len(k) : \E m \in 1 .. Len(s) : m \in I /\ k[i] = s[m]
  BY <1>3
<1>. QED BY <1>1, <1>4, <1>5 DEF k

-----------------------------------------------------------------------------
(* Catalogue: decisions stand, for any number of contents and of operations *)
(* that run at once.                                                       *)

ContentRows == [there : BOOLEAN, adult : BOOLEAN, detailed : BOOLEAN, fresh : BOOLEAN]

\* What an operation is doing.
OneContent == [at : {"fetch", "merge", "save", "save details", "insert", "toggle"},
               kind : {"detail", "extend", "refresh", "find", "block", "allow"},
               content : Contents, behind : BOOLEAN, copy : ContentRows]
OnePerson  == [at : {"next", "fetch", "insert"}, kind : {"person"},
               content : Contents \cup {None}, behind : BOOLEAN, copy : {None},
               todo : SUBSET Contents, block : SUBSET Contents]
Fills      == [at : {"fill"}, kind : {"fill"}, ids : SUBSET Contents, late : SUBSET Contents]
Jobs       == {Idle} \cup OneContent \cup OnePerson \cup Fills

Caches == [filled : BOOLEAN, ids : SUBSET Contents, late : SUBSET Contents]

RowsTyped ==
    /\ row \in [Contents -> ContentRows]
    /\ task \in [Tasks -> Jobs]
    /\ blocked \in Caches
    /\ verdict \in [Contents -> {"block", "allow"}]

\* A content that is adult, or has details, is there.
Made == \A c \in Contents : row[c].adult \/ row[c].detailed \/ row[c].fresh => row[c].there

\* A flag that agrees with the decision about a content.
Agrees(c, adult) ==
    /\ verdict[c] = "block" => adult
    /\ verdict[c] = "allow" /\ adult => c \in adultAtTmdb

\* A set of blocked contents that agrees with the decisions, except those in late.
Knows(ids, late) ==
    \A c \in Contents \ (late \cup undone) :
        /\ verdict[c] = "block" => c \in ids
        /\ verdict[c] = "allow" /\ c \notin adultAtTmdb => c \notin ids

\* What an operation has in hand when it is at a step.
InHand(t) ==
    /\ task[t].at \in {"fetch", "insert"} => task[t].content \in Contents /\ ~task[t].copy.there
    /\ task[t].at \in {"toggle", "save details"} => task[t].copy.there
    /\ task[t].at = "toggle" => task[t].kind \in {"block", "allow"}
    /\ task[t] \in OnePerson => \A c \in task[t].block : row[c].there

\* A copy that no decision has overtaken agrees with the decision, and so does a set
\* that is being read.
Current(t) ==
    /\ task[t].at \in {"save", "save details"} /\ ~task[t].behind /\ task[t].content \notin undone
         => Agrees(task[t].content, task[t].copy.adult)
    /\ task[t].at = "fill" => Knows(task[t].ids, task[t].late)

\* A content is refreshed by one operation.
OneRefresh ==
    \A t, u \in Tasks : Refreshes(t) /\ Refreshes(u) /\ task[t].content = task[u].content => t = u

CatalogueInv ==
    /\ RowsTyped /\ Made /\ OneRefresh
    /\ \A t \in Tasks : InHand(t) /\ Current(t)
    /\ DecisionStands /\ FilterKnowsDecisions

-----------------------------------------------------------------------------
\* A step that decides nothing and removes no row leaves what another operation holds.
Undecided ==
    /\ \A c \in Contents : row[c].there => row'[c].there
    /\ undone \subseteq undone'
    /\ UNCHANGED <<verdict, adultAtTmdb>>

LEMMA OthersKeep ==
    ASSUME CatalogueInv, Undecided, NEW u \in Tasks, task'[u] = task[u]
    PROVE  InHand(u)' /\ Current(u)'
<1>1. InHand(u)'
  BY DEF CatalogueInv, RowsTyped, InHand, Undecided, OnePerson
<1>2. Current(u)'
  BY DEF CatalogueInv, RowsTyped, Current, Undecided, Agrees, Knows
<1> QED BY <1>1, <1>2

\* A step that leaves the rows alone and decides nothing keeps the decisions.
LEMMA RowsKeep ==
    ASSUME CatalogueInv, UNCHANGED <<row, decisions>>
    PROVE  Undecided /\ Made' /\ DecisionStands'
BY DEF CatalogueInv, Made, DecisionStands, Undecided, decisions

\* An operation that goes on about the same content, or ends, keeps OneRefresh.
LEMMA RefreshKeeps ==
    ASSUME CatalogueInv, NEW t \in Tasks, NEW STATE state, Become(t, state),
           \/ state.at = "idle" \/ state.kind # "refresh"
           \/ Refreshes(t) /\ state.content = task[t].content
    PROVE  OneRefresh'
BY DEF CatalogueInv, RowsTyped, Become, OneRefresh, Refreshes

\* The set in use stays what it is, or is dropped.
LEMMA FilterKeeps ==
    ASSUME CatalogueInv, Undecided, blocked' \in {blocked, NoCache}
    PROVE  FilterKnowsDecisions' /\ blocked' \in Caches
<1>1. CASE blocked' = blocked
  BY <1>1 DEF CatalogueInv, RowsTyped, FilterKnowsDecisions, Undecided
<1>2. CASE blocked' = NoCache
  BY <1>2 DEF NoCache, Caches, FilterKnowsDecisions
<1> QED BY <1>1, <1>2

\* A step of one operation that decides nothing.
LEMMA CatalogueStep ==
    ASSUME CatalogueInv, NEW t \in Tasks, NEW STATE state, Become(t, state), state \in Jobs,
           \/ state.at = "idle" \/ state.kind # "refresh"
           \/ Refreshes(t) /\ state.content = task[t].content,
           Undecided, row' \in [Contents -> ContentRows], Made', DecisionStands',
           blocked' \in {blocked, NoCache},
           InHand(t)', Current(t)'
    PROVE  CatalogueInv'
<1>1. RowsTyped'
  BY FilterKeeps DEF CatalogueInv, RowsTyped, Become, Undecided
<1>2. \A u \in Tasks : InHand(u)' /\ Current(u)'
  <2> SUFFICES ASSUME NEW u \in Tasks, u # t PROVE InHand(u)' /\ Current(u)'
    OBVIOUS
  <2>1. task'[u] = task[u]
    BY DEF CatalogueInv, RowsTyped, Become
  <2> QED BY <2>1, OthersKeep
<1> QED BY <1>1, <1>2, FilterKeeps, RefreshKeeps DEF CatalogueInv

LEMMA CatalogueQuiet ==
    ASSUME CatalogueInv, NEW t \in Tasks, NEW STATE state, Become(t, state), state \in Jobs,
           \/ state.at = "idle" \/ state.kind # "refresh"
           \/ Refreshes(t) /\ state.content = task[t].content,
           UNCHANGED <<row, decisions>>, blocked' \in {blocked, NoCache},
           InHand(t)', Current(t)'
    PROVE  CatalogueInv'
<1>1. row' \in [Contents -> ContentRows]
  BY DEF CatalogueInv, RowsTyped
<1> QED BY <1>1, RowsKeep, CatalogueStep

-----------------------------------------------------------------------------
(* The steps, one lemma each.                                              *)

\* What is known of an operation by the step it is at.
LEMMA CatalogueAt ==
    ASSUME CatalogueInv, NEW t \in Tasks
    PROVE  /\ task[t] \in Jobs
           /\ task[t].at \in {"merge", "save", "save details", "toggle"} => task[t] \in OneContent
           /\ task[t].at = "next" => task[t] \in OnePerson
           /\ task[t].at \in {"fetch", "insert"} => task[t] \in OneContent \cup OnePerson
           /\ task[t].at = "fill" => task[t] \in Fills
           /\ task[t] \in OneContent /\ task[t].kind = "refresh" => Refreshes(t)
<1>1. task[t] \in Jobs
  BY DEF CatalogueInv, RowsTyped
<1>2. CASE task[t] = Idle
  <2>1. task[t].at = "idle"
    BY <1>2 DEF Idle
  <2>2. task[t] \notin OneContent
    BY <2>1 DEF OneContent
  <2> QED BY <1>1, <2>1, <2>2
<1>3. CASE task[t] \in OneContent
  BY <1>1, <1>3 DEF OneContent, Refreshes
<1>4. CASE task[t] \in OnePerson
  BY <1>1, <1>4 DEF OneContent, OnePerson
<1>5. CASE task[t] \in Fills
  BY <1>1, <1>5 DEF OneContent, Fills
<1> QED BY <1>1, <1>2, <1>3, <1>4, <1>5 DEF Jobs

LEMMA MergeKeeps ==
    ASSUME CatalogueInv, NEW t \in Tasks, Merge(t)
    PROVE  CatalogueInv'
<1> DEFINE c == task[t].content
           state == [task[t] EXCEPT !.at = "save", !.behind = FALSE,
                                    !.copy = [row[c] EXCEPT !.adult = @ \/ c \in adultAtTmdb]]
<1>1. task[t] \in OneContent /\ Become(t, state)
  BY CatalogueAt DEF Merge
<1>2. /\ state \in OneContent /\ state.at = "save" /\ state.content = c
      /\ state.kind = task[t].kind /\ state.copy.adult = (row[c].adult \/ c \in adultAtTmdb)
  BY <1>1 DEF CatalogueInv, RowsTyped, OneContent, ContentRows
<1>3. task'[t] = state
  BY <1>1 DEF CatalogueInv, RowsTyped, Become
<1>4. UNCHANGED <<row, blocked, decisions>>
  BY DEF Merge, memory
<1>5. InHand(t)'
  BY <1>2, <1>3 DEF InHand, OneContent, OnePerson
<1>6. Current(t)'
  BY <1>1, <1>2, <1>3, <1>4 DEF Current, Agrees, CatalogueInv, DecisionStands, OneContent, decisions
<1> QED BY <1>1, <1>2, <1>4, <1>5, <1>6, CatalogueAt, CatalogueQuiet DEF Jobs

LEMMA FillReadKeeps ==
    ASSUME CatalogueInv, NEW t \in Tasks, FillRead(t)
    PROVE  CatalogueInv'
<1> DEFINE state == [at |-> "fill", kind |-> "fill", ids |-> {c \in Contents : row[c].adult},
                     late |-> {}]
<1>1. Become(t, state) /\ UNCHANGED <<row, blocked, decisions>>
  BY DEF FillRead, memory
<1>2. state \in Fills /\ state.at = "fill" /\ state.kind = "fill" /\ state.late = {}
      /\ state.ids = {c \in Contents : row[c].adult}
  BY DEF Fills
<1>3. task'[t] = state
  BY <1>1 DEF CatalogueInv, RowsTyped, Become
<1>4. InHand(t)'
  BY <1>2, <1>3 DEF InHand, OnePerson
<1>5. Current(t)'
  BY <1>1, <1>2, <1>3 DEF Current, Knows, CatalogueInv, DecisionStands, decisions
<1> QED BY <1>1, <1>2, <1>4, <1>5, CatalogueQuiet DEF Jobs

LEMMA FillAssignKeeps ==
    ASSUME CatalogueInv, NEW t \in Tasks, FillAssign(t)
    PROVE  CatalogueInv'
<1>1. task[t] \in Fills /\ Knows(task[t].ids, task[t].late)
  BY CatalogueAt DEF FillAssign, CatalogueInv, Current
<1>2. /\ Become(t, Idle) /\ UNCHANGED <<row, decisions>>
      /\ blocked' = [filled |-> TRUE, ids |-> task[t].ids, late |-> task[t].late]
  BY DEF FillAssign
<1>3. task'[t] = Idle /\ Idle.at = "idle"
  BY <1>2 DEF CatalogueInv, RowsTyped, Become, Idle
<1>4. RowsTyped'
  BY <1>1, <1>2, RowsKeep DEF CatalogueInv, RowsTyped, Become, Jobs, Fills, Caches, decisions
<1>5. OneRefresh'
  BY <1>2, <1>3, RefreshKeeps
<1>6. FilterKnowsDecisions'
  BY <1>1, <1>2 DEF FilterKnowsDecisions, Knows, decisions
<1>7. ASSUME NEW u \in Tasks PROVE InHand(u)' /\ Current(u)'
  <2>1. CASE u = t
    BY <2>1, <1>3 DEF InHand, Current, OnePerson
  <2>2. CASE u # t
    <3>1. task'[u] = task[u]
      BY <2>2, <1>2 DEF CatalogueInv, RowsTyped, Become
    <3> QED BY <3>1, <1>2, RowsKeep, OthersKeep
  <2> QED BY <2>1, <2>2
<1> QED BY <1>2, <1>4, <1>5, <1>6, <1>7, RowsKeep DEF CatalogueInv

\* Two rows that agree on the decision: a save keeps what was decided, or notes that
\* it has not.
LEMMA WriteKeeps ==
    ASSUME CatalogueInv, NEW t \in Tasks, NEW STATE copy, copy \in ContentRows, Write(t, copy),
           task[t] \in OneContent, copy.there, UNCHANGED <<adultAtTmdb, verdict>>,
           copy.adult = task[t].copy.adult, task[t].at \in {"save", "save details"}
    PROVE  /\ Undecided /\ row' \in [Contents -> ContentRows] /\ Made' /\ DecisionStands'
           /\ task[t].content \notin undone' =>
                (Agrees(task[t].content, copy.adult) /\ undone' = undone)
<1> DEFINE c == task[t].content
<1>1. c \in Contents
  BY DEF OneContent
<1>2. row' = [row EXCEPT ![c] = copy] /\ row \in [Contents -> ContentRows]
  BY DEF Write, CatalogueInv, RowsTyped
<1>3. undone \subseteq undone' /\ undone' \subseteq undone \cup {c}
  BY DEF Write
<1>4. row' \in [Contents -> ContentRows] /\ row'[c] = copy
      /\ \A d \in Contents : d # c => row'[d] = row[d]
  BY <1>1, <1>2
<1>5. Undecided /\ Made'
  BY <1>3, <1>4 DEF Undecided, Made, CatalogueInv
<1>6. ASSUME c \notin undone' PROVE Agrees(c, copy.adult) /\ undone' = undone
  <2>1. c \notin undone /\ (~task[t].behind \/ copy.adult = row[c].adult)
    BY <1>3, <1>6 DEF Write, OneContent
  <2>2. undone' = undone
    BY <1>3, <1>6
  <2>3. CASE ~task[t].behind
    BY <2>1, <2>2, <2>3 DEF CatalogueInv, Current
  <2>4. CASE copy.adult = row[c].adult
    BY <2>1, <2>2, <2>4, <1>1 DEF CatalogueInv, DecisionStands, Agrees
  <2> QED BY <2>1, <2>2, <2>3, <2>4
<1>7. DecisionStands'
  BY <1>3, <1>4, <1>6 DEF CatalogueInv, DecisionStands, Agrees
<1> QED BY <1>4, <1>5, <1>6, <1>7

\* The operation ends, and the rows and decisions stay.
LEMMA EndKeeps ==
    ASSUME CatalogueInv, NEW t \in Tasks, Become(t, Idle), UNCHANGED <<row, blocked, decisions>>
    PROVE  CatalogueInv'
<1>1. task'[t] = Idle /\ Idle.at = "idle" /\ Idle \in Jobs
  BY DEF CatalogueInv, RowsTyped, Become, Idle, Jobs
<1>2. InHand(t)' /\ Current(t)'
  BY <1>1 DEF InHand, Current, OnePerson
<1> QED BY <1>1, <1>2, CatalogueQuiet

LEMMA SaveKeeps ==
    ASSUME CatalogueInv, NEW t \in Tasks, Save(t)
    PROVE  CatalogueInv'
<1>1. task[t] \in OneContent /\ task[t].at = "save"
  BY CatalogueAt DEF Save
<1>2. CASE Collides(t)
  <2>1. Become(t, Idle) /\ UNCHANGED <<row, blocked, decisions>>
    BY <1>2 DEF Save, memory, decisions
  <2> QED BY <2>1, EndKeeps
<1>3. CASE ~Collides(t)
  <2>1. PICK fresh \in Touched(task[t].content) :
          LET copy == [task[t].copy EXCEPT !.there = TRUE, !.fresh = fresh]
          IN  /\ Write(t, copy)
              /\ Become(t, [task[t] EXCEPT !.at = "save details", !.copy = copy])
    BY <1>3 DEF Save
  <2>2. fresh \in BOOLEAN
    BY <1>1 DEF Touched, CatalogueInv, RowsTyped, ContentRows, OneContent
  <2> DEFINE copy == [task[t].copy EXCEPT !.there = TRUE, !.fresh = fresh]
             state == [task[t] EXCEPT !.at = "save details", !.copy = copy]
  <2>3. copy \in ContentRows /\ copy.there /\ copy.adult = task[t].copy.adult
    BY <1>1, <2>2 DEF OneContent, ContentRows
  <2>4. /\ state \in OneContent /\ state.at = "save details" /\ state.copy = copy
        /\ state.content = task[t].content /\ state.kind = task[t].kind
    BY <1>1, <2>3 DEF OneContent
  <2>5. Write(t, copy) /\ Become(t, state)
    BY <2>1
  <2>6. UNCHANGED <<blocked, adultAtTmdb, verdict>>
    BY DEF Save, memory
  <2>7. /\ Undecided /\ row' \in [Contents -> ContentRows] /\ Made' /\ DecisionStands'
        /\ task[t].content \notin undone' =>
             (Agrees(task[t].content, copy.adult) /\ undone' = undone)
    BY <1>1, <2>3, <2>5, <2>6, WriteKeeps
  <2>8. task'[t] = state
    BY <2>5 DEF CatalogueInv, RowsTyped, Become
  <2>9. InHand(t)'
    BY <2>3, <2>4, <2>8 DEF InHand, OnePerson, OneContent
  <2>10. Current(t)'
    BY <2>4, <2>6, <2>7, <2>8 DEF Current, Agrees
  <2> HIDE DEF copy, state
  <2> QED BY <1>1, <2>4, <2>5, <2>6, <2>7, <2>9, <2>10, CatalogueAt, CatalogueStep DEF Jobs
<1> QED BY <1>2, <1>3

LEMMA SaveDetailsKeeps ==
    ASSUME CatalogueInv, NEW t \in Tasks, SaveDetails(t)
    PROVE  CatalogueInv'
<1>1. task[t] \in OneContent /\ task[t].at = "save details" /\ task[t].copy.there
  BY CatalogueAt DEF SaveDetails, CatalogueInv, InHand
<1>2. PICK fresh \in Touched(task[t].content) :
        Write(t, [task[t].copy EXCEPT !.detailed = TRUE, !.fresh = fresh])
  BY DEF SaveDetails
<1>3. fresh \in BOOLEAN
  BY <1>1 DEF Touched, CatalogueInv, RowsTyped, ContentRows, OneContent
<1> DEFINE copy == [task[t].copy EXCEPT !.detailed = TRUE, !.fresh = fresh]
<1>4. copy \in ContentRows /\ copy.there /\ copy.adult = task[t].copy.adult
  BY <1>1, <1>3 DEF OneContent, ContentRows
<1>5. Become(t, Idle) /\ UNCHANGED <<blocked, adultAtTmdb, verdict>>
  BY DEF SaveDetails, memory
<1>6. Write(t, copy)
  BY <1>2
<1> HIDE DEF copy
<1>7. Undecided /\ row' \in [Contents -> ContentRows] /\ Made' /\ DecisionStands'
  BY <1>1, <1>4, <1>5, <1>6, WriteKeeps
<1>8. task'[t] = Idle /\ Idle.at = "idle" /\ Idle \in Jobs
  BY <1>5 DEF CatalogueInv, RowsTyped, Become, Idle, Jobs
<1>9. InHand(t)' /\ Current(t)'
  BY <1>8 DEF InHand, Current, OnePerson
<1> QED BY <1>5, <1>7, <1>8, <1>9, CatalogueStep

\* An operation that begins about content c, with nothing read yet or a row that is there.
LEMMA BeginKeeps ==
    ASSUME CatalogueInv, NEW t \in Tasks, NEW c \in Contents,
           NEW kind \in {"detail", "extend", "find", "block", "allow"},
           NEW step \in {"fetch", "toggle"},
           step = "toggle" => row[c].there /\ kind \in {"block", "allow"},
           Become(t, For(c, kind, step)), UNCHANGED <<row, blocked, decisions>>
    PROVE  CatalogueInv'
<1>1. /\ For(c, kind, step) \in OneContent /\ For(c, kind, step).at = step
      /\ For(c, kind, step).kind = kind /\ For(c, kind, step).content = c
      /\ For(c, kind, step).copy = IF step = "toggle" THEN row[c] ELSE None
  BY DEF For, OneContent, CatalogueInv, RowsTyped, ContentRows, None
<1>2. task'[t] = For(c, kind, step)
  BY DEF CatalogueInv, RowsTyped, Become
<1>3. /\ task'[t].at = step /\ task'[t].kind = kind /\ task'[t].content = c
      /\ task'[t].copy = IF step = "toggle" THEN row[c] ELSE None
      /\ ~None.there
  BY <1>1, <1>2 DEF None
<1>4. task'[t] \notin OnePerson
  BY <1>3 DEF OnePerson
<1>5. InHand(t)' /\ Current(t)'
  BY <1>3, <1>4 DEF InHand, Current
<1> QED BY <1>1, <1>5, CatalogueQuiet DEF Jobs

\* A background refresh is the only one of its content.
LEMMA RefreshBegins ==
    ASSUME CatalogueInv, NEW t \in Tasks, NEW c \in Contents, c \notin Refreshing,
           Become(t, For(c, "refresh", "fetch")), UNCHANGED <<row, blocked, decisions>>
    PROVE  CatalogueInv'
<1> DEFINE state == For(c, "refresh", "fetch")
<1>1. /\ state \in OneContent /\ state.at = "fetch" /\ state.kind = "refresh"
      /\ state.content = c /\ ~state.copy.there
  BY DEF For, OneContent, ContentRows, None
<1> HIDE DEF state
<1>2. task'[t] = state /\ \A u \in Tasks : u # t => task'[u] = task[u]
  BY DEF CatalogueInv, RowsTyped, Become, state
<1>3. task'[t] \notin OnePerson
  BY <1>1, <1>2 DEF OnePerson
<1>4. InHand(t)' /\ Current(t)'
  BY <1>1, <1>2, <1>3 DEF InHand, Current
<1>5. \A u \in Tasks : u # t => InHand(u)' /\ Current(u)'
  BY <1>2, RowsKeep, OthersKeep
<1>6. OneRefresh'
  BY <1>1, <1>2 DEF CatalogueInv, OneRefresh, Refreshes, Refreshing
<1>7. RowsTyped'
  BY <1>1 DEF CatalogueInv, RowsTyped, Become, Jobs, decisions, state
<1> QED BY <1>4, <1>5, <1>6, <1>7, RowsKeep, FilterKeeps DEF CatalogueInv

LEMMA GetDetailKeeps ==
    ASSUME CatalogueInv, NEW t \in Tasks, NEW c \in Contents, GetDetail(t, c)
    PROVE  CatalogueInv'
<1>1. UNCHANGED <<row, blocked, decisions>>
  BY DEF GetDetail, memory
<1>2. CASE Become(t, For(c, "detail", "fetch"))
  BY <1>1, <1>2, BeginKeeps
<1>3. CASE Become(t, For(c, "extend", "fetch"))
  BY <1>1, <1>3, BeginKeeps
<1>4. CASE c \notin Refreshing /\ Become(t, For(c, "refresh", "fetch"))
  BY <1>1, <1>4, RefreshBegins
<1> QED BY <1>2, <1>3, <1>4 DEF GetDetail

LEMMA FindOrFetchKeeps ==
    ASSUME CatalogueInv, NEW t \in Tasks, NEW c \in Contents, FindOrFetch(t, c)
    PROVE  CatalogueInv'
BY BeginKeeps DEF FindOrFetch, memory

LEMMA ToggleAdultKeeps ==
    ASSUME CatalogueInv, NEW t \in Tasks, NEW c \in Contents, NEW d \in {"block", "allow"},
           ToggleAdult(t, c, d)
    PROVE  CatalogueInv'
BY BeginKeeps DEF ToggleAdult, memory

\* TMDB answers or fails.
LEMMA FetchKeeps ==
    ASSUME CatalogueInv, NEW t \in Tasks, Fetch(t)
    PROVE  CatalogueInv'
<1>1. /\ task[t] \in OneContent \cup OnePerson /\ task[t].at = "fetch"
      /\ task[t].content \in Contents /\ ~task[t].copy.there
  BY CatalogueAt DEF Fetch, CatalogueInv, InHand
<1>2. UNCHANGED <<row, blocked, decisions>>
  BY DEF Fetch
<1>3. CASE Become(t, Idle)
  BY <1>2, <1>3, EndKeeps
<1>4. ASSUME NEW step \in {"merge", "insert", "next"}, Become(t, [task[t] EXCEPT !.at = step]),
             step = "merge" => task[t].kind # "person",
             step = "next" => task[t].kind = "person"
      PROVE  CatalogueInv'
  <2> DEFINE state == [task[t] EXCEPT !.at = step]
  <2>1. /\ state.at = step /\ state.content = task[t].content /\ state.kind = task[t].kind
        /\ state.copy = task[t].copy
        /\ task[t] \in OnePerson => state \in OnePerson /\ state.block = task[t].block
        /\ task[t] \in OneContent => state \in OneContent /\ state.kind # "person"
    BY <1>1, <1>4 DEF OneContent, OnePerson
  <2> HIDE DEF state
  <2>2. task'[t] = state
    BY <1>4 DEF CatalogueInv, RowsTyped, Become, state
  <2>3. state \in OnePerson => task[t] \in OnePerson
    BY <1>1, <2>1 DEF OnePerson
  <2>4. InHand(t)' /\ Current(t)'
    BY <1>1, <1>2, <2>1, <2>2, <2>3 DEF InHand, Current, CatalogueInv
  <2>5. Refreshes(t) \/ state.kind # "refresh"
    BY <1>1, <2>1 DEF Refreshes
  <2> QED BY <1>1, <1>2, <1>4, <2>1, <2>4, <2>5, CatalogueQuiet DEF Jobs, state
<1> QED BY <1>3, <1>4 DEF Fetch

\* TMDB's data become a row, unless one is there.
LEMMA InsertKeeps ==
    ASSUME CatalogueInv, NEW t \in Tasks, Insert(t)
    PROVE  CatalogueInv'
<1> DEFINE c == task[t].content
           new == FromTmdb(c)
<1>1. /\ task[t] \in OneContent \cup OnePerson /\ task[t].at = "insert"
      /\ c \in Contents /\ ~task[t].copy.there
  BY CatalogueAt DEF Insert, CatalogueInv, InHand
<1>2. new \in ContentRows /\ new.there /\ new.adult = (c \in adultAtTmdb)
  BY DEF FromTmdb, ContentRows
<1>3. UNCHANGED <<blocked, verdict, undone, adultAtTmdb>>
  BY DEF Insert, memory, decisions
<1>4. row' = IF Collides(t) THEN row ELSE [row EXCEPT ![c] = new]
  BY DEF Insert
<1>5. Collides(t) <=> row[c].there
  BY <1>1 DEF Collides
<1>6. /\ Undecided /\ row' \in [Contents -> ContentRows] /\ Made' /\ DecisionStands'
      /\ row'[c].there
  <2>1. CASE row[c].there
    <3>1. row' = row
      BY <2>1, <1>4, <1>5
    <3> QED BY <2>1, <3>1, <1>3, RowsKeep DEF CatalogueInv, RowsTyped, decisions
  <2>2. CASE ~row[c].there
    <3>1. /\ row' \in [Contents -> ContentRows] /\ row'[c] = new
          /\ \A d \in Contents : d # c => row'[d] = row[d]
      BY <2>2, <1>1, <1>2, <1>4, <1>5 DEF CatalogueInv, RowsTyped
    <3>2. Undecided /\ Made'
      BY <3>1, <1>2, <1>3 DEF CatalogueInv, Made, Undecided
    <3>3. c \notin undone => verdict[c] = "allow"
      BY <2>2, <1>1 DEF CatalogueInv, RowsTyped, Made, DecisionStands
    <3>4. DecisionStands'
      BY <3>1, <3>3, <1>2, <1>3 DEF CatalogueInv, DecisionStands
    <3> QED BY <3>1, <3>2, <3>4, <1>2
  <2> QED BY <2>1, <2>2
<1> HIDE DEF new
<1>7. CASE Become(t, Idle)
  <2>1. task'[t] = Idle /\ Idle.at = "idle" /\ Idle \in Jobs
    BY <1>7 DEF CatalogueInv, RowsTyped, Become, Idle, Jobs
  <2>2. InHand(t)' /\ Current(t)'
    BY <2>1 DEF InHand, Current, OnePerson
  <2> QED BY <1>3, <1>6, <1>7, <2>1, <2>2, CatalogueStep
<1>8. CASE /\ task[t].kind \in {"block", "allow"}
           /\ Become(t, [task[t] EXCEPT !.at = "toggle", !.copy = new])
  <2> DEFINE state == [task[t] EXCEPT !.at = "toggle", !.copy = new]
  <2>1. task[t] \in OneContent
    BY <1>1, <1>8 DEF OnePerson
  <2>2. /\ state \in OneContent /\ state.at = "toggle" /\ state.copy = new
        /\ state.kind = task[t].kind /\ state.kind # "person"
    BY <2>1, <1>2, <1>8 DEF OneContent
  <2> HIDE DEF state
  <2>3. task'[t] = state /\ state \notin OnePerson
    BY <1>8, <2>2 DEF CatalogueInv, RowsTyped, Become, state, OnePerson
  <2>4. InHand(t)' /\ Current(t)'
    BY <1>2, <1>8, <2>2, <2>3 DEF InHand, Current
  <2> QED BY <1>3, <1>6, <1>8, <2>2, <2>4, CatalogueStep DEF Jobs, state
<1>9. CASE /\ task[t].kind = "person"
           /\ Become(t, [task[t] EXCEPT !.at = "next", !.block = @ \cup
                            (IF Collides(t) \/ new.adult THEN {} ELSE {c})])
  <2> DEFINE block == task[t].block \cup (IF Collides(t) \/ new.adult THEN {} ELSE {c})
             state == [task[t] EXCEPT !.at = "next", !.block = block]
  <2>1. task[t] \in OnePerson
    BY <1>1, <1>9 DEF OneContent
  <2>2. block \subseteq task[t].block \cup {c} /\ block \subseteq Contents
    BY <2>1, <1>1 DEF OnePerson
  <2>3. Become(t, state)
    BY <1>9
  <2> HIDE DEF block
  <2>4. /\ state \in OnePerson /\ state.at = "next" /\ state.block = block
        /\ state.kind = "person"
    BY <2>1, <2>2 DEF OnePerson
  <2> HIDE DEF state
  <2>5. task'[t] = state
    BY <2>3 DEF CatalogueInv, RowsTyped, Become
  <2>6. \A d \in task[t].block : d \in Contents /\ row'[d].there
    BY <2>1, <1>6 DEF CatalogueInv, InHand, Undecided, OnePerson
  <2>7. InHand(t)' /\ Current(t)'
    BY <1>6, <2>2, <2>4, <2>5, <2>6 DEF InHand, Current
  <2> QED BY <1>3, <1>6, <2>3, <2>4, <2>7, CatalogueStep DEF Jobs
<1> QED BY <1>7, <1>8, <1>9 DEF Insert, new

-----------------------------------------------------------------------------
\* The contents of a person, one after the other.
LEMMA BlockPersonKeeps ==
    ASSUME CatalogueInv, NEW t \in Tasks, NEW s \in SUBSET Contents, BlockPerson(t, s)
    PROVE  CatalogueInv'
<1> DEFINE state == [at |-> "next", kind |-> "person", content |-> None,
                     todo |-> {c \in s : ~row[c].there}, copy |-> None, behind |-> FALSE,
                     block |-> {c \in s : row[c].there /\ ~row[c].adult}]
<1>1. Become(t, state) /\ UNCHANGED <<row, blocked, decisions>>
  BY DEF BlockPerson, memory
<1>2. /\ state \in OnePerson /\ state.at = "next" /\ state.kind = "person"
      /\ \A c \in state.block : row[c].there
  BY DEF OnePerson
<1> HIDE DEF state
<1>3. task'[t] = state
  BY <1>1 DEF CatalogueInv, RowsTyped, Become
<1>4. InHand(t)' /\ Current(t)'
  BY <1>1, <1>2, <1>3 DEF InHand, Current
<1> QED BY <1>1, <1>2, <1>4, CatalogueQuiet DEF Jobs

LEMMA PersonNextKeeps ==
    ASSUME CatalogueInv, NEW t \in Tasks, PersonNext(t)
    PROVE  CatalogueInv'
<1>1. /\ task[t] \in OnePerson /\ \A d \in task[t].block : row[d].there
      /\ UNCHANGED <<row, blocked, decisions>>
  BY CatalogueAt DEF PersonNext, CatalogueInv, InHand, memory
<1>2. PICK c \in task[t].todo :
        Become(t, [task[t] EXCEPT
             !.content = c, !.todo = @ \ {c},
             !.at = IF row[c].there THEN "next" ELSE "fetch",
             !.block = IF row[c].there /\ ~row[c].adult THEN @ \cup {c} ELSE @])
  BY DEF PersonNext
<1> DEFINE block == IF row[c].there /\ ~row[c].adult THEN task[t].block \cup {c}
                                                     ELSE task[t].block
           step == IF row[c].there THEN "next" ELSE "fetch"
           state == [task[t] EXCEPT !.content = c, !.todo = @ \ {c}, !.at = step, !.block = block]
<1>3. Become(t, state)
  BY <1>2
<1>4. /\ c \in Contents /\ block \subseteq Contents /\ step \in {"next", "fetch"}
      /\ \A d \in block : row[d].there
  BY <1>1 DEF OnePerson
<1> HIDE DEF block, step
<1>5. /\ state \in OnePerson /\ state.at = step /\ state.kind = "person"
      /\ state.content = c /\ state.block = block /\ state.copy = None
  BY <1>1, <1>4 DEF OnePerson
<1> HIDE DEF state
<1>6. task'[t] = state /\ ~None.there
  BY <1>3 DEF CatalogueInv, RowsTyped, Become, None
<1>7. InHand(t)' /\ Current(t)'
  BY <1>1, <1>4, <1>5, <1>6 DEF InHand, Current
<1> QED BY <1>1, <1>3, <1>5, <1>7, CatalogueQuiet DEF Jobs

-----------------------------------------------------------------------------
\* A decision about the contents s: their rows get the flag, and whatever was read
\* before is marked.
LEMMA DecideKeeps ==
    ASSUME CatalogueInv, NEW t \in Tasks, NEW s \in SUBSET Contents, NEW d \in {"block", "allow"},
           Decide(t, s, d, Idle), UNCHANGED adultAtTmdb,
           row' \in [Contents -> ContentRows], Made',
           \A c \in Contents : row[c].there => row'[c].there,
           \A c \in s : row'[c].adult = (d = "block"),
           \A c \in Contents \ s : row'[c].adult = row[c].adult,
           blocked' = NoCache \/ (s = {} /\ blocked' = blocked)
    PROVE  CatalogueInv'
<1>1. /\ verdict' = [c \in Contents |-> IF c \in s THEN d ELSE verdict[c]]
      /\ undone' = undone \ s
  BY DEF Decide
<1>2. task'[t] = Idle /\ Idle.at = "idle" /\ Idle \in Jobs
  <2>1. task'[t] = Idle
    BY DEF Decide
  <2>2. Idle.at = "idle" /\ Idle \in Jobs
    BY DEF Idle, Jobs
  <2> QED BY <2>1, <2>2
<1>3. ASSUME NEW u \in Tasks, u # t
      PROVE  /\ task'[u] \in Jobs /\ task'[u].at = task[u].at
             /\ Refreshes(u)' => Refreshes(u) /\ task'[u].content = task[u].content
             /\ InHand(u)' /\ Current(u)'
  <2>1. CASE task[u].at = "fill"
    <3>1. task[u] \in Fills /\ task'[u] = [task[u] EXCEPT !.late = @ \cup s]
      BY <1>3, <2>1, CatalogueAt DEF Decide
    <3>2. /\ task'[u] \in Fills /\ task'[u].at = "fill" /\ task'[u].kind = "fill"
          /\ task'[u].ids = task[u].ids /\ task'[u].late = task[u].late \cup s
      BY <3>1 DEF Fills
    <3>3. Knows(task[u].ids, task[u].late)
      BY <2>1 DEF CatalogueInv, Current
    <3>4. Knows(task[u].ids, task[u].late)'
      BY <3>2, <3>3, <1>1 DEF Knows
    <3>5. task'[u] \notin OnePerson
      BY <3>2 DEF OnePerson
    <3>6. InHand(u)' /\ Current(u)'
      BY <3>2, <3>4, <3>5 DEF InHand, Current
    <3> QED BY <2>1, <3>2, <3>6 DEF Jobs, Refreshes
  <2>2. CASE task[u].at \in {"save", "save details", "toggle"} /\ task[u].content \in s
    <3>1. task[u] \in OneContent /\ task'[u] = [task[u] EXCEPT !.behind = TRUE]
      BY <1>3, <2>2, CatalogueAt DEF Decide
    <3>2. /\ task'[u] \in OneContent /\ task'[u].at = task[u].at /\ task'[u].kind = task[u].kind
          /\ task'[u].content = task[u].content /\ task'[u].copy = task[u].copy
          /\ task'[u].behind
      BY <3>1 DEF OneContent
    <3>3. task'[u] \notin OnePerson
      BY <3>2 DEF OneContent, OnePerson
    <3>4. InHand(u)' /\ Current(u)'
      BY <2>2, <3>2, <3>3 DEF CatalogueInv, InHand, Current
    <3> QED BY <3>2, <3>4 DEF Jobs, Refreshes
  <2>3. CASE /\ task[u].at # "fill"
             /\ ~(task[u].at \in {"save", "save details", "toggle"} /\ task[u].content \in s)
    <3>1. task'[u] = task[u]
      BY <1>3, <2>3 DEF Decide
    <3>2. InHand(u)'
      BY <3>1 DEF CatalogueInv, RowsTyped, InHand, OnePerson
    <3>3. task[u].at \in {"save", "save details"} => task[u].content \in Contents \ s
      BY <2>3, CatalogueAt DEF OneContent
    <3>4. Current(u)'
      BY <2>3, <3>1, <3>3, <1>1 DEF CatalogueInv, Current, Agrees
    <3> QED BY <3>1, <3>2, <3>4, CatalogueAt DEF Refreshes
  <2> QED BY <2>1, <2>2, <2>3
<1>4. InHand(t)' /\ Current(t)'
  BY <1>2 DEF InHand, Current, OnePerson
<1>5. blocked' \in Caches
  <2>1. NoCache \in Caches
    BY DEF NoCache, Caches
  <2> QED BY <2>1 DEF CatalogueInv, RowsTyped
<1>6. RowsTyped'
  <2>1. verdict' \in [Contents -> {"block", "allow"}]
    BY <1>1 DEF CatalogueInv, RowsTyped
  <2>2. task' \in [Tasks -> Jobs]
    <3>1. \A u \in Tasks : task'[u] \in Jobs
      BY <1>2, <1>3
    <3>2. task' = [u \in Tasks |-> task'[u]]
      BY DEF Decide
    <3> QED BY <3>1, <3>2
  <2> QED BY <2>1, <2>2, <1>5 DEF RowsTyped
<1>7. OneRefresh'
  BY <1>2, <1>3 DEF CatalogueInv, OneRefresh, Refreshes
<1>8. DecisionStands'
  BY <1>1 DEF CatalogueInv, DecisionStands
<1>9. FilterKnowsDecisions'
  <2>1. CASE blocked' = NoCache
    BY <2>1 DEF NoCache, FilterKnowsDecisions
  <2>2. CASE s = {} /\ blocked' = blocked
    BY <2>2, <1>1 DEF CatalogueInv, RowsTyped, FilterKnowsDecisions
  <2> QED BY <2>1, <2>2
<1> QED BY <1>3, <1>4, <1>6, <1>7, <1>8, <1>9 DEF CatalogueInv

LEMMA ToggleSaveKeeps ==
    ASSUME CatalogueInv, NEW t \in Tasks, ToggleSave(t)
    PROVE  CatalogueInv'
<1> DEFINE c == task[t].content
           copy == [task[t].copy EXCEPT !.adult = task[t].kind = "block"]
           new == IF copy = row[c] THEN copy ELSE [copy EXCEPT !.fresh = TRUE]
<1>1. /\ task[t] \in OneContent /\ task[t].at = "toggle" /\ task[t].copy.there
      /\ task[t].kind \in {"block", "allow"}
  BY CatalogueAt DEF ToggleSave, CatalogueInv, InHand
<1>2. c \in Contents
  BY <1>1 DEF OneContent
<1>3. new \in ContentRows /\ new.there /\ new.adult = (task[t].kind = "block")
  BY <1>1 DEF OneContent, ContentRows
<1>4. /\ row' = [row EXCEPT ![c] = new] /\ Decide(t, {c}, task[t].kind, Idle)
      /\ blocked' = NoCache /\ UNCHANGED adultAtTmdb
  BY DEF ToggleSave
<1> HIDE DEF new
<1>5. /\ row' \in [Contents -> ContentRows] /\ row'[c] = new
      /\ \A d \in Contents : d # c => row'[d] = row[d]
  BY <1>2, <1>3, <1>4 DEF CatalogueInv, RowsTyped
<1>6. Made' /\ \A d \in Contents : row[d].there => row'[d].there
  BY <1>3, <1>5 DEF CatalogueInv, Made
<1> QED BY <1>1, <1>2, <1>3, <1>4, <1>5, <1>6, DecideKeeps

LEMMA PersonUpdateKeeps ==
    ASSUME CatalogueInv, NEW t \in Tasks, PersonUpdate(t)
    PROVE  CatalogueInv'
<1> DEFINE s == task[t].block
<1>1. task[t] \in OnePerson /\ \A c \in s : row[c].there
  BY CatalogueAt DEF PersonUpdate, CatalogueInv, InHand
<1>2. s \in SUBSET Contents
  BY <1>1 DEF OnePerson
<1>3. /\ row' = [c \in Contents |-> IF c \in s THEN [row[c] EXCEPT !.adult = TRUE, !.fresh = TRUE]
                                               ELSE row[c]]
      /\ Decide(t, s, "block", Idle) /\ UNCHANGED adultAtTmdb
      /\ blocked' = IF s = {} THEN blocked ELSE NoCache
  BY DEF PersonUpdate
<1> HIDE DEF s
<1>4. ASSUME NEW c \in Contents
      PROVE  /\ row'[c] \in ContentRows /\ row'[c].there = row[c].there
             /\ c \in s => row'[c].adult /\ row'[c].there
             /\ c \notin s => row'[c] = row[c]
  BY <1>1, <1>3 DEF CatalogueInv, RowsTyped, ContentRows, s
<1>5. row' \in [Contents -> ContentRows] /\ Made'
  BY <1>3, <1>4 DEF CatalogueInv, Made
<1> QED BY <1>2, <1>3, <1>4, <1>5, DecideKeeps DEF ContentRows

-----------------------------------------------------------------------------
\* What happens without an operation: entries run out, rows grow old.
LEMMA TimeKeeps ==
    ASSUME CatalogueInv, UNCHANGED <<task, decisions>>, blocked' \in {blocked, NoCache},
           row' \in [Contents -> ContentRows],
           \A c \in Contents :
              /\ row'[c].there = row[c].there /\ row'[c].adult = row[c].adult
              /\ row'[c].detailed = row[c].detailed
              /\ row'[c].fresh => row[c].fresh
    PROVE  CatalogueInv'
<1>1. Undecided /\ Made' /\ DecisionStands'
  <2>1. Undecided
    BY DEF Undecided, decisions
  <2>2. Made'
    BY DEF CatalogueInv, RowsTyped, ContentRows, Made
  <2>3. DecisionStands'
    BY DEF CatalogueInv, DecisionStands, decisions
  <2> QED BY <2>1, <2>2, <2>3
<1>2. \A t \in Tasks : InHand(t)' /\ Current(t)'
  BY <1>1, OthersKeep
<1>3. RowsTyped' /\ OneRefresh'
  BY <1>1, FilterKeeps DEF CatalogueInv, RowsTyped, OneRefresh, Refreshes, decisions
<1> QED BY <1>1, <1>2, <1>3, FilterKeeps DEF CatalogueInv

LEMMA GrowsOldKeeps ==
    ASSUME CatalogueInv, NEW c \in Contents, GrowsOld(c)
    PROVE  CatalogueInv'
<1>1. row' \in [Contents -> ContentRows]
  BY DEF CatalogueInv, RowsTyped, GrowsOld, ContentRows
<1>2. ASSUME NEW d \in Contents
      PROVE  /\ row'[d].there = row[d].there /\ row'[d].adult = row[d].adult
             /\ row'[d].detailed = row[d].detailed /\ (row'[d].fresh => row[d].fresh)
  BY DEF CatalogueInv, RowsTyped, GrowsOld, ContentRows
<1> QED BY <1>1, <1>2, TimeKeeps DEF GrowsOld, memory

LEMMA RestartKeeps ==
    ASSUME CatalogueInv, Restart
    PROVE  CatalogueInv'
<1>1. Undecided /\ Made' /\ DecisionStands' /\ FilterKnowsDecisions' /\ blocked' \in Caches
  BY RowsKeep, FilterKeeps DEF Restart
<1>2. RowsTyped'
  BY <1>1 DEF CatalogueInv, RowsTyped, Restart, Jobs, decisions
<1>3. \A t \in Tasks : task'[t] = Idle /\ Idle.at = "idle"
  BY DEF Restart, Idle
<1>4. OneRefresh' /\ \A t \in Tasks : InHand(t)' /\ Current(t)'
  BY <1>3 DEF OneRefresh, Refreshes, InHand, Current, OnePerson
<1> QED BY <1>1, <1>2, <1>4 DEF CatalogueInv

LEMMA CatalogueInit == Init => CatalogueInv
<1> SUFFICES ASSUME Init PROVE CatalogueInv
  OBVIOUS
<1>1. \A t \in Tasks : task[t] = Idle /\ Idle.at = "idle"
  BY DEF Init, Idle
<1>2. OneRefresh /\ \A t \in Tasks : InHand(t) /\ Current(t)
  BY <1>1 DEF OneRefresh, Refreshes, InHand, Current, OnePerson
<1>3. \A c \in Contents : row[c] \in ContentRows /\ ~row[c].adult /\ ~row[c].detailed /\ ~row[c].fresh
  BY DEF Init, None, ContentRows
<1>4. NoCache \in Caches /\ ~NoCache.filled
  BY DEF NoCache, Caches
<1>5. RowsTyped
  BY <1>3, <1>4 DEF Init, RowsTyped, Jobs
<1> QED BY <1>2, <1>3, <1>4, <1>5 DEF Init, CatalogueInv, Made, DecisionStands, FilterKnowsDecisions

LEMMA CatalogueNext == CatalogueInv /\ [Next]_catalogueVars => CatalogueInv'
<1> SUFFICES ASSUME CatalogueInv, [Next]_catalogueVars PROVE CatalogueInv'
  OBVIOUS
<1>1. CASE UNCHANGED catalogueVars
  BY <1>1, TimeKeeps DEF catalogueVars, memory, CatalogueInv, RowsTyped
<1>2. ASSUME NEW t \in Tasks, NEW c \in Contents,
             \/ GetDetail(t, c) \/ FindOrFetch(t, c)
             \/ \E d \in {"block", "allow"} : ToggleAdult(t, c, d)
      PROVE  CatalogueInv'
  BY <1>2, GetDetailKeeps, FindOrFetchKeeps, ToggleAdultKeeps
<1>3. ASSUME NEW t \in Tasks, \E s \in SUBSET Contents \ {{}} : BlockPerson(t, s)
      PROVE  CatalogueInv'
  BY <1>3, BlockPersonKeeps
<1>4. ASSUME NEW t \in Tasks,
             \/ Fetch(t) \/ Merge(t) \/ Save(t) \/ SaveDetails(t) \/ Insert(t)
             \/ ToggleSave(t) \/ PersonNext(t) \/ PersonUpdate(t)
             \/ FillRead(t) \/ FillAssign(t)
      PROVE  CatalogueInv'
  BY <1>4, FetchKeeps, MergeKeeps, SaveKeeps, SaveDetailsKeeps, InsertKeeps, ToggleSaveKeeps,
     PersonNextKeeps, PersonUpdateKeeps, FillReadKeeps, FillAssignKeeps
<1>5. ASSUME NEW c \in Contents, MissingExpires(c) PROVE CatalogueInv'
  BY <1>5, TimeKeeps DEF MissingExpires, CatalogueInv, RowsTyped
<1>6. ASSUME NEW c \in Contents, GrowsOld(c) PROVE CatalogueInv'
  BY <1>6, GrowsOldKeeps
<1>7. CASE BlockedExpires
  BY <1>7, TimeKeeps DEF BlockedExpires, CatalogueInv, RowsTyped
<1>8. CASE Restart
  BY <1>8, RestartKeeps
<1> QED BY <1>1, <1>2, <1>3, <1>4, <1>5, <1>6, <1>7, <1>8 DEF Next

-----------------------------------------------------------------------------
\* The inductive invariant of the catalogue: what an operation has in hand at each of
\* its steps, and that a copy no decision has overtaken agrees with the decision.
THEOREM CatalogueInvariant == Spec => []CatalogueInv
BY CatalogueInit, CatalogueNext, PTL DEF Spec

\* Details belong to a row, and a content is refreshed once at a time, for any number of
\* operations (toggleAdult, blockPersonContents, getContentDetail, findOrFetchByTmdbId).
THEOREM CatalogueTypes == Spec => []TypeOK
<1>1. CatalogueInv => TypeOK
  BY DEF CatalogueInv, RowsTyped, Caches, Made, OneRefresh, TypeOK
<1> QED BY <1>1, CatalogueInvariant, PTL

\* What an administrator decided about a content stays, through refreshes and whatever
\* else asks for it, until a copy read before the decision is written back.
THEOREM DecisionsStand == Spec => []DecisionStands
<1>1. CatalogueInv => DecisionStands
  BY DEF CatalogueInv
<1> QED BY <1>1, CatalogueInvariant, PTL

\* The set that search and discovery filter with knows every decision that still holds,
\* except those made while it was being read (getBlockedTmdbIds).
THEOREM FilterKnows == Spec => []FilterKnowsDecisions
<1>1. CatalogueInv => FilterKnowsDecisions
  BY DEF CatalogueInv
<1> QED BY <1>1, CatalogueInvariant, PTL

-----------------------------------------------------------------------------
(* ChatSearch: what the message asked for is kept, and nothing is dropped   *)
(* that need not be.                                                       *)

\* The filters the search starts from.
Asked == IF intent.confidence = "high" THEN Search!Specific(intent, context)
                                       ELSE Search!Vague(intent, context)

\* While it runs: those filters, but for the fields that have been dropped.
Searching ==
    /\ intent.confidence \in {"high", "low"}
    /\ intent.confidence = "low" => Search!HasData(context)
    /\ tried \subseteq Asked.relaxable
    /\ filters = [keep |-> [f \in Search!Fields |-> IF f \in tried THEN {} ELSE Asked.keep[f]],
                  drop |-> Asked.drop, relaxable |-> Asked.relaxable,
                  contentType |-> Asked.contentType]

\* A field is later than another in the order in which filters are dropped.
Later(f, g) ==
    \E i, j \in 1 .. 4 : /\ Search!RelaxationSequence[i] = g
                         /\ Search!RelaxationSequence[j] = f /\ i <= j

Found(f) == {x \in catalog : x.poster /\ Search!Passes(x, f)}

\* The filters before field g was dropped.
Before(g) == [filters EXCEPT !.keep[g] = Search!Preference(context)[g]]

\* The last field was dropped because too little was found before.
DroppedWhenShort ==
    tried # {} => \E g \in tried : /\ \A f \in tried : Later(g, f)
                                   /\ Cardinality(Found(Before(g))) < Enough

\* What RequestIsKept says of a candidate, but for its type.
Granted(x) ==
    /\ intent.confidence = "high" =>
         /\ \A f \in Search!Fields : intent.want[f] # {} => x.is[f] \in intent.want[f]
         /\ x.is["countries"] \notin intent.notCountries
    /\ x.is["genres"] \in Search!ExcludedGenres(context) =>
         \/ x.is["genres"] \in intent.want["genres"]
         \/ intent.confidence = "low" /\ ~Search!HasData(context)

SearchInv ==
    /\ at \in {"analyze", "query", "relax", "similar", "select", "done", "aborted"}
    /\ catalog \in Catalogs
    /\ at \in {"analyze", "similar"} => results = {} /\ cards = {} /\ tried = {}
    /\ at = "similar" => intent.confidence = "low" /\ ~Search!HasData(context)
    /\ at \in {"query", "relax"} =>
         /\ Searching
         /\ \A f \in tried, g \in Asked.relaxable \ tried : Later(g, f)
    /\ at = "relax" => Cardinality(Found(filters)) < Enough
    /\ at \in {"query", "relax", "select", "done"} => DroppedWhenShort
    /\ \A x \in results : Granted(x)
    /\ \A x \in cards : Granted(x) /\ intent.contentType \in {"any", x.contentType}
    /\ at \in {"query", "relax", "select"} => cards = {}

\* The instances count a set as this module does.
LEMMA SameCardinality == /\ \A S : Search!Cardinality(S) = Cardinality(S)
                         /\ \A S : Related!Cardinality(S) = Cardinality(S)
BY DEF Cardinality, Search!Cardinality, Related!Cardinality

LEMMA FieldFacts ==
  /\ Search!Fields = {"genres", "personNames", "countries", "ottProviderNames"}
  /\ \A f \in Search!Fields : \E i \in 1 .. 4 : Search!RelaxationSequence[i] = f
  /\ DOMAIN Search!RelaxationSequence = 1 .. 4
  /\ \A i, j \in 1 .. 4 : Search!RelaxationSequence[i] = Search!RelaxationSequence[j] => i = j
<1>1. Search!RelaxationSequence = <<"genres", "personNames", "countries", "ottProviderNames">>
  BY DEF Search!RelaxationSequence
<1>2. DOMAIN Search!RelaxationSequence = 1 .. 4
  BY <1>1
<1>3. 1 .. 4 = {1, 2, 3, 4}
  OBVIOUS
<1>. QED BY <1>1, <1>2, <1>3 DEF Search!Fields

\* A filter that may be dropped is a preference, in a field the message left open.
LEMMA AskedFacts ==
  /\ \A f \in Asked.relaxable : /\ f \in Search!Fields
                                /\ Asked.keep[f] = Search!Preference(context)[f]
                                /\ Asked.keep[f] # {}
  /\ intent.confidence = "high" =>
       \A f \in Search!Fields : intent.want[f] # {} =>
          f \notin Asked.relaxable /\ Asked.keep[f] = intent.want[f]
<1>1. CASE intent.confidence = "high"
  BY <1>1 DEF Asked, Search!Specific
<1>2. CASE intent.confidence # "high"
  BY <1>2 DEF Asked, Search!Vague
<1>. QED BY <1>1, <1>2

\* What passes the filters is what the message asked for.
LEMMA SearchingGrants ==
  ASSUME Searching, NEW x, Search!Passes(x, filters)
  PROVE  Granted(x)
<1>1. ASSUME intent.confidence = "high", NEW f \in Search!Fields, intent.want[f] # {}
      PROVE  x.is[f] \in intent.want[f]
  <2>1. filters.keep[f] = intent.want[f]
    BY <1>1, AskedFacts DEF Searching
  <2>. QED BY <1>1, <2>1 DEF Search!Passes
<1>2. \A f \in Search!Fields : x.is[f] \notin Asked.drop[f]
  BY DEF Searching, Search!Passes
<1>3. ASSUME intent.confidence = "high" PROVE x.is["countries"] \notin intent.notCountries
  BY <1>2, <1>3, FieldFacts DEF Asked, Search!Specific
<1>4. ASSUME x.is["genres"] \in Search!ExcludedGenres(context)
      PROVE  intent.confidence = "high" /\ x.is["genres"] \in intent.want["genres"]
  <2>1. CASE intent.confidence = "high"
    <3>1. x.is["genres"] \in Asked.keep["genres"]
      BY <1>2, <1>4, <2>1, FieldFacts DEF Asked, Search!Specific
    <3>2. \/ Asked.keep["genres"] = intent.want["genres"]
          \/ Asked.keep["genres"] = Search!PreferredGenres(context)
      BY <2>1, FieldFacts DEF Asked, Search!Specific, Search!Preference
    <3>. QED BY <1>4, <2>1, <3>1, <3>2 DEF Search!ExcludedGenres
  <2>2. CASE intent.confidence # "high"
    BY <1>2, <1>4, <2>2, FieldFacts DEF Asked, Search!Vague
  <2>. QED BY <2>1, <2>2
<1>. QED BY <1>1, <1>3, <1>4 DEF Granted

LEMMA SearchInit == Search!Init => SearchInv
BY DEF Search!Init, SearchInv

\* Where nothing has been found yet and no filter dropped.
LEMMA AnalyzeStep == SearchInv /\ (Search!NothingToSearch \/ Search!Analyze) => SearchInv'
<1> SUFFICES ASSUME SearchInv, Search!NothingToSearch \/ Search!Analyze PROVE SearchInv'
  OBVIOUS
<1>1. results = {} /\ cards = {} /\ tried = {} /\ results' = {} /\ cards' = {} /\ tried' = {}
      /\ catalog' \in Catalogs
  BY DEF SearchInv, Search!NothingToSearch, Search!Analyze
<1>2. DroppedWhenShort'
  BY <1>1 DEF DroppedWhenShort
<1>3. CASE at' = "query"
  <2>1. PICK i \in {Search!Validated(raw) : raw \in Intents} \cup {Search!EmptyIntent} :
          /\ intent' = i
          /\ ~(i.confidence = "low" /\ ~Search!HasData(context))
          /\ filters' = IF i.confidence = "high" THEN Search!Specific(i, context)
                                                 ELSE Search!Vague(i, context)
    BY <1>3 DEF Search!Analyze, Search!NothingToSearch
  <2>2. context' = context
    BY <1>3 DEF Search!Analyze, Search!NothingToSearch
  <2>3. intent'.confidence \in {"high", "low"}
    BY <2>1 DEF Search!Validated, Search!EmptyIntent
  <2>4. filters' = Asked'
    BY <2>1, <2>2 DEF Asked
  <2>5. Asked' = [keep |-> [f \in Search!Fields |-> Asked'.keep[f]], drop |-> Asked'.drop,
                  relaxable |-> Asked'.relaxable, contentType |-> Asked'.contentType]
    <3>1. ASSUME NEW j, NEW c
          PROVE  Search!Specific(j, c) =
                   [keep |-> [f \in Search!Fields |-> Search!Specific(j, c).keep[f]],
                    drop |-> Search!Specific(j, c).drop,
                    relaxable |-> Search!Specific(j, c).relaxable,
                    contentType |-> Search!Specific(j, c).contentType]
      BY DEF Search!Specific
    <3>2. ASSUME NEW j, NEW c
          PROVE  Search!Vague(j, c) =
                   [keep |-> [f \in Search!Fields |-> Search!Vague(j, c).keep[f]],
                    drop |-> Search!Vague(j, c).drop,
                    relaxable |-> Search!Vague(j, c).relaxable,
                    contentType |-> Search!Vague(j, c).contentType]
      BY DEF Search!Vague, Search!Preference
    <3>3. CASE intent'.confidence = "high"
      BY <3>1, <3>3 DEF Asked
    <3>4. CASE intent'.confidence # "high"
      BY <3>2, <3>4 DEF Asked
    <3>. QED BY <3>3, <3>4
  <2>6. Searching'
    BY <1>1, <2>1, <2>2, <2>3, <2>4, <2>5 DEF Searching, Search!HasData
  <2>. QED BY <1>1, <1>2, <1>3, <2>6 DEF SearchInv
<1>4. CASE at' = "similar"
  BY <1>1, <1>4 DEF SearchInv, Search!Analyze, Search!NothingToSearch, Search!HasData
<1>5. CASE at' = "select"
  BY <1>1, <1>2, <1>5 DEF SearchInv
<1>. QED BY <1>3, <1>4, <1>5 DEF Search!Analyze, Search!NothingToSearch

\* The filters in place decide what is granted and what was found before.
LEMMA SearchFrame ==
  ASSUME UNCHANGED <<intent, context, catalog, filters, tried>>
  PROVE  /\ Asked' = Asked /\ Searching' = Searching /\ DroppedWhenShort' = DroppedWhenShort
         /\ \A x : Granted(x)' = Granted(x)
         /\ Found(filters)' = Found(filters)
BY DEF Asked, Searching, DroppedWhenShort, Before, Found, Granted, Search!HasData

LEMMA QueryStep == SearchInv /\ Search!Query => SearchInv'
<1> SUFFICES ASSUME SearchInv, Search!Query PROVE SearchInv'
  OBVIOUS
<1>1. results' \in Search!Answers(Found(filters))
  BY DEF Search!Query, Found
<1>2. \A x \in results' : Granted(x)
  BY <1>1, SearchingGrants DEF SearchInv, Search!Query, Search!Answers, Found
<1>3. ASSUME at' = "relax" PROVE Cardinality(Found(filters)) < Enough
  <2>1. IsFiniteSet(Found(filters))
    BY FS_Subset, SearchAssumption DEF SearchInv, Found
  <2>2. Cardinality(Found(filters)) \in Nat
    BY <2>1, FS_CardinalityType
  <2>3. ~(Cardinality(results') >= Enough)
    BY <1>3, SameCardinality DEF Search!Query, Search!IsEnough
  <2>4. Cardinality(results') = IF Cardinality(Found(filters)) < SearchLimit
                                  THEN Cardinality(Found(filters)) ELSE SearchLimit
    BY <1>1, SameCardinality DEF Search!Answers
  <2>. QED BY <2>2, <2>3, <2>4, SearchAssumption
<1>4. UNCHANGED <<intent, context, catalog, filters, tried>> /\ cards' = {}
      /\ at = "query" /\ at' \in {"select", "relax"}
  BY DEF Search!Query, SearchInv
<1>. QED BY <1>2, <1>3, <1>4, SearchFrame DEF SearchInv

\* The first field that may be dropped goes, and what was found before was too little.
LEMMA RelaxStep == SearchInv /\ Search!Relax => SearchInv'
<1> SUFFICES ASSUME SearchInv, Search!Relax PROVE SearchInv'
  OBVIOUS
<1> DEFINE left == Search!Droppable(filters)
<1>0. /\ UNCHANGED <<intent, context, catalog, results, cards>>
      /\ Searching /\ cards = {} /\ at = "relax"
      /\ Cardinality(Found(filters)) < Enough
      /\ \A f \in tried, g \in Asked.relaxable \ tried : Later(g, f)
  BY DEF SearchInv, Search!Relax
<1>1. CASE left = {}
  <2>1. at' = "select" /\ UNCHANGED <<filters, tried>>
    BY <1>1 DEF Search!Relax
  <2>. QED BY <1>0, <2>1, SearchFrame DEF SearchInv
<1>2. CASE left # {}
  <2>1. left \subseteq 1 .. 4
    BY FieldFacts DEF Search!Droppable
  <2> HIDE DEF left
  <2>2. \E k \in left : \A j \in left : k <= j
    <3>1. left \subseteq {1, 2, 3, 4}
      BY <2>1
    <3>2. CASE 1 \in left
      BY <3>1, <3>2
    <3>3. CASE 1 \notin left /\ 2 \in left
      BY <3>1, <3>3
    <3>4. CASE 1 \notin left /\ 2 \notin left /\ 3 \in left
      BY <3>1, <3>4
    <3>5. CASE 1 \notin left /\ 2 \notin left /\ 3 \notin left
      <4>1. \A j \in left : j = 4
        BY <3>1, <3>5
      <4>. QED BY <1>2, <4>1
    <3>. QED BY <3>2, <3>3, <3>4, <3>5
  <2> DEFINE Gone(g) == /\ filters' = [filters EXCEPT !.keep[g] = {}]
                        /\ tried' = tried \cup {g} /\ at' = "query"
  <2>3. PICK i \in left : (\A j \in left : i <= j) /\ Gone(Search!RelaxationSequence[i])
    <3> DEFINE k == CHOOSE i \in left : \A j \in left : i <= j
    <3>1. k \in left /\ \A j \in left : k <= j
      BY <2>2
    <3>2. Gone(Search!RelaxationSequence[k])
      BY <1>2 DEF Search!Relax, left
    <3>. QED BY <3>1, <3>2
  <2> DEFINE g == Search!RelaxationSequence[i]
  <2>4. \A f \in Asked.relaxable \ tried : \E j \in left : Search!RelaxationSequence[j] = f
    BY <1>0, AskedFacts, FieldFacts DEF Searching, Search!Droppable, left
  <2>5. i \in 1 .. 4 /\ g \in Asked.relaxable \ tried
    BY <1>0, <2>3, FieldFacts, AskedFacts DEF Searching, Search!Droppable, left
  <2>6. \A f \in Asked.relaxable \ tried : Later(f, g)
    <3> SUFFICES ASSUME NEW f \in Asked.relaxable \ tried PROVE Later(f, g)
      OBVIOUS
    <3>1. PICK j \in left : Search!RelaxationSequence[j] = f
      BY <2>4
    <3>2. i <= j /\ j \in 1 .. 4
      BY <2>3, FieldFacts DEF left, Search!Droppable
    <3>. QED BY <2>5, <3>1, <3>2 DEF Later
  <2>7. Later(g, g)
    BY <2>5, <2>6
  <2>8. Gone(g)
    BY <2>3
  <2> HIDE DEF g
  <2>9. Asked' = Asked
    BY <1>0 DEF Asked
  <2>10. filters.keep[g] = Search!Preference(context)[g] /\ g \in Search!Fields
    BY <1>0, <2>5, AskedFacts DEF Searching
  <2>11. Before(g)' = filters
    <3>1. /\ filters.keep = [f \in Search!Fields |-> filters.keep[f]]
          /\ filters = [keep |-> filters.keep, drop |-> filters.drop,
                       relaxable |-> filters.relaxable, contentType |-> filters.contentType]
      BY <1>0 DEF Searching
    <3>2. [filters' EXCEPT !.keep[g] = Search!Preference(context)[g]] = filters
      BY <2>8, <2>10, <3>1
    <3>. QED BY <1>0, <3>2 DEF Before
  <2>12. Searching'
    <3>1. filters' = [keep |-> [f \in Search!Fields |->
                                    IF f \in tried' THEN {} ELSE Asked.keep[f]],
                      drop |-> Asked.drop, relaxable |-> Asked.relaxable,
                      contentType |-> Asked.contentType]
      BY <1>0, <2>8 DEF Searching
    <3>. QED BY <1>0, <2>8, <2>5, <2>9, <3>1 DEF Searching, Search!HasData
  <2>13. DroppedWhenShort'
    <3>1. Found(Before(g))' = Found(filters)
      BY <1>0, <2>11 DEF Found
    <3>2. \A f \in tried' : Later(g, f)
      BY <1>0, <2>8, <2>5, <2>7
    <3>3. Cardinality(Found(Before(g)))' < Enough
      BY <1>0, <3>1
    <3>. QED BY <2>8, <3>2, <3>3 DEF DroppedWhenShort, Later
  <2>14. \A f \in tried', h \in Asked.relaxable \ tried' : Later(h, f)
    BY <1>0, <2>8, <2>6
  <2>15. \A x \in results' : Granted(x)'
    BY <1>0 DEF SearchInv, Granted, Search!HasData
  <2>. QED BY <1>0, <2>8, <2>9, <2>12, <2>13, <2>14, <2>15 DEF SearchInv, Later
<1>. QED BY <1>1, <1>2

\* A new user has asked for nothing that could be lost.
LEMMA SimilarStep == SearchInv /\ Search!Similar => SearchInv'
<1> SUFFICES ASSUME SearchInv, Search!Similar PROVE SearchInv'
  OBVIOUS
<1>1. /\ UNCHANGED <<intent, context, catalog, filters, tried, cards>>
      /\ at' = "select" /\ cards = {} /\ tried = {}
      /\ intent.confidence = "low" /\ ~Search!HasData(context)
  BY DEF SearchInv, Search!Similar
<1>2. \A x : Granted(x)
  BY <1>1 DEF Granted
<1>. QED BY <1>1, <1>2, SearchFrame DEF SearchInv, DroppedWhenShort

\* The candidates are among what was found, of the type that was asked for.
LEMMA SelectStep == SearchInv /\ (Search!Select \/ Search!Abort) => SearchInv'
<1> SUFFICES ASSUME SearchInv, Search!Select \/ Search!Abort PROVE SearchInv'
  OBVIOUS
<1>1. CASE Search!Select
  <2>1. UNCHANGED <<intent, context, catalog, filters, tried, results>>
        /\ at = "select" /\ at' = "done"
        /\ cards' \subseteq {x \in results : Search!Suitable(x)}
    BY <1>1 DEF Search!Select
  <2>. QED BY <2>1, SearchFrame DEF SearchInv, Search!Suitable
<1>2. CASE Search!Abort
  BY <1>2 DEF SearchInv, Search!Abort
<1>. QED BY <1>1, <1>2

LEMMA SearchStep == SearchInv /\ [Search!Next]_search => SearchInv'
<1>1. SearchInv /\ UNCHANGED search => SearchInv'
  BY SearchFrame DEF SearchInv, search
<1>. QED BY <1>1, AnalyzeStep, QueryStep, RelaxStep, SimilarStep, SelectStep DEF Search!Next

LEMMA KeptAndShort == SearchInv => Search!RequestIsKept /\ Search!RelaxedOnlyWhenShort
<1> SUFFICES ASSUME SearchInv PROVE Search!RequestIsKept /\ Search!RelaxedOnlyWhenShort
  OBVIOUS
<1>1. Search!RequestIsKept
  BY DEF SearchInv, Granted, Search!RequestIsKept
<1>2. ASSUME at \in {"select", "done"}, tried # {}
      PROVE  LET final == CHOOSE f \in tried : \A g \in tried : Later(f, g)
             IN  Cardinality(Found(Before(final))) < Enough
  <2>1. PICK g \in tried : /\ \A f \in tried : Later(g, f)
                           /\ Cardinality(Found(Before(g))) < Enough
    BY <1>2 DEF SearchInv, DroppedWhenShort
  <2>2. ASSUME NEW f \in tried, \A h \in tried : Later(f, h) PROVE f = g
    <3>1. Later(f, g) /\ Later(g, f)
      BY <2>1, <2>2
    <3>. QED BY <3>1, FieldFacts DEF Later
  <2>3. g = CHOOSE f \in tried : \A h \in tried : Later(f, h)
    BY <2>1, <2>2
  <2>. QED BY <2>1, <2>3
<1>3. Search!RelaxedOnlyWhenShort
  BY <1>2, SameCardinality DEF Search!RelaxedOnlyWhenShort, Later, Found, Before
<1>. QED BY <1>1, <1>3

\* Whatever is dropped to find enough, a candidate matches all the message asks for
\* and is nothing it excludes, and nothing is dropped that need not be: for every
\* database, every user and every message.
THEOREM RequestAlwaysKept == ServicesSpec => []RequestIsKept
<1>1. ServicesInit => (part = "search" => SearchInv)
  BY SearchInit DEF ServicesInit
<1>2. (part = "search" => SearchInv) /\ [ServicesNext]_<<part, backend>>
        => (part = "search" => SearchInv)'
  BY Frame, SearchStep
<1>3. (part = "search" => SearchInv) => RequestIsKept
  BY KeptAndShort DEF RequestIsKept
<1>. QED BY <1>1, <1>2, <1>3, PTL DEF ServicesSpec

-----------------------------------------------------------------------------
(* RelatedContents: what was blocked leaves the cache with the entry it is  *)
(* in, and no content is shown twice.                                      *)

LoadRecords == [key : Sources, at : Related!Steps, embedded : BOOLEAN, old : SUBSET Alike,
                new : SUBSET Alike, changed : BOOLEAN, ticked : BOOLEAN]
EntryRecords == [key : Sources, old : SUBSET Alike, new : SUBSET Alike, changed : BOOLEAN,
                 age : 0 .. TTL]

\* A content that is not blocked, or was blocked at most n ticks ago.
SeenWithin(c, n) == blockedFor[c] = Related!NotBlocked \/ blockedFor[c] <= n

Distinct(e) ==
    /\ ~e.changed => e.old \cap e.new = {}
    /\ Cardinality(e.old) + Cardinality(e.new) <= Slots

\* An entry was loaded at most a tick before it was stored, so that what it shows was
\* not blocked more than a tick before it came into the cache.
KeptEntries ==
    {e \in EntryRecords :
        /\ Distinct(e)
        /\ e.age < TTL => \A c \in e.old \cup e.new : SeenWithin(c, e.age + 1)}

\* A load takes established contents from those with metadata, recent ones from the
\* others, and does not outlive a second tick.
LoadHolds(l) ==
    /\ l.at \in {"source", "fresh"} => l.new = {}
    /\ l.at \in {"source", "fresh", "vector"} => l.old = {}
    /\ l.old \subseteq described
    /\ ~l.changed => l.new \cap described = {}
    /\ Cardinality(l.old) + Cardinality(l.new) <= Slots
    /\ \A c \in l.old \cup l.new : SeenWithin(c, IF l.ticked THEN 1 ELSE 0)

RelatedInv ==
    /\ blockedFor \in [Alike -> 0 .. Related!NotBlocked]
    /\ cache \in Seq(KeptEntries)
    /\ loads \subseteq LoadRecords
    /\ \A l \in loads : LoadHolds(l)
    /\ relatedAnswer # Related!NoAnswer => relatedAnswer.old \cup relatedAnswer.new \subseteq Alike
    /\ Related!BlockedAgesOut /\ Related!ShownOnce

\* What is taken out of the cache leaves a cache, without the entry of the content.
LEMMA OthersKept ==
  ASSUME NEW S, cache \in Seq(S), NEW k
  PROVE  /\ Related!Others(k) \in Seq(S)
         /\ Related!Places(k) # {} => Related!Entry(k) \in S
<1>1. Related!Places(k) # {} => (CHOOSE i \in Related!Places(k) : TRUE) \in DOMAIN cache
  BY DEF Related!Places
<1>2. Related!Others(k) = Keep(cache, {i \in DOMAIN cache : cache[i].key # k})
  BY DEF Related!Others, Related!Keep, Keep
<1>3. Related!Others(k) \in Seq(S)
  BY <1>2, KeepPicks
<1>. QED BY <1>1, <1>3, ElementOfSeq DEF Related!Entry

LEMMA AppendKept ==
  ASSUME NEW S, NEW s \in Seq(S), NEW e \in S
  PROVE  Append(s, e) \in Seq(S)
OBVIOUS

\* What an answer may show.
LEMMA ShowsWell ==
  ASSUME NEW k, NEW e, Related!Answer(k, e), blockedFor' = blockedFor,
         e.old \cup e.new \subseteq Alike, Distinct(e),
         \A c \in e.old \cup e.new : SeenWithin(c, TTL)
  PROVE  /\ relatedAnswer'.old \cup relatedAnswer'.new \subseteq Alike
         /\ Related!BlockedAgesOut' /\ Related!ShownOnce'
BY SameCardinality
DEF Related!Answer, Related!BlockedAgesOut, Related!ShownOnce, Distinct, SeenWithin

LEMMA RelatedInit == Related!Init => RelatedInv
<1> SUFFICES ASSUME Related!Init PROVE RelatedInv
  OBVIOUS
<1>1. blockedFor \in [Alike -> 0 .. Related!NotBlocked]
  BY RelatedAssumption DEF Related!Init, Related!NotBlocked
<1>2. cache \in Seq(KeptEntries)
  BY EmptySeq DEF Related!Init
<1>. QED BY <1>1, <1>2 DEF Related!Init, RelatedInv, Related!BlockedAgesOut, Related!ShownOnce

\* A hit shows an entry that is younger than its time to live.
LEMMA HitStep ==
  ASSUME RelatedInv, NEW k \in Sources, Related!Hit(k)
  PROVE  RelatedInv'
<1> DEFINE e == Related!Entry(k)
<1>1. e \in KeptEntries /\ Related!Others(k) \in Seq(KeptEntries) /\ e.age < TTL
      /\ Related!Answer(k, e) /\ cache' = Append(Related!Others(k), e)
      /\ UNCHANGED <<described, blockedFor, loads>>
  BY OthersKept DEF RelatedInv, Related!Hit
<1> HIDE DEF e
<1>2. e.age \in 0 .. TTL
  BY <1>1 DEF KeptEntries, EntryRecords
<1>3. \A c \in e.old \cup e.new : c \in Alike /\ SeenWithin(c, TTL)
  <2> SUFFICES ASSUME NEW c \in e.old \cup e.new PROVE c \in Alike /\ SeenWithin(c, TTL)
    OBVIOUS
  <2>1. c \in Alike
    BY <1>1 DEF KeptEntries, EntryRecords
  <2>2. blockedFor[c] \in Nat
    BY <2>1, RelatedAssumption DEF RelatedInv, Related!NotBlocked
  <2>. QED BY <1>1, <1>2, <2>1, <2>2, RelatedAssumption DEF KeptEntries, SeenWithin
<1>4. /\ relatedAnswer'.old \cup relatedAnswer'.new \subseteq Alike
      /\ Related!BlockedAgesOut' /\ Related!ShownOnce'
  BY <1>1, <1>3, ShowsWell DEF KeptEntries
<1>5. KeptEntries' = KeptEntries
  BY <1>1 DEF KeptEntries, SeenWithin
<1>6. cache' \in Seq(KeptEntries')
  BY <1>1, <1>5, AppendKept
<1>. QED BY <1>1, <1>4, <1>6 DEF RelatedInv, LoadHolds, SeenWithin

LEMMA MissStep ==
  ASSUME RelatedInv, NEW k \in Sources, Related!Miss(k)
  PROVE  RelatedInv'
<1>1. cache' \in Seq(KeptEntries) /\ loads' \subseteq loads \cup {Related!NewLoad(k)}
      /\ UNCHANGED <<described, blockedFor, relatedAnswer>>
  BY OthersKept DEF RelatedInv, Related!Miss
<1>2. KeptEntries' = KeptEntries
  BY <1>1 DEF KeptEntries, SeenWithin
<1>3. Related!NewLoad(k) \in LoadRecords /\ LoadHolds(Related!NewLoad(k))
  BY FS_EmptySet, RelatedAssumption
  DEF Related!NewLoad, LoadRecords, LoadHolds, Related!Steps
<1>4. \A l \in loads' : l \in LoadRecords /\ LoadHolds(l)'
  BY <1>1, <1>3 DEF RelatedInv, LoadHolds, SeenWithin
<1>. QED BY <1>1, <1>2, <1>4 DEF RelatedInv, Related!BlockedAgesOut, Related!ShownOnce

\* A load that goes on, or is given up.
LEMMA OnwardLoad ==
  ASSUME RelatedInv, NEW l \in loads, NEW m, m \in LoadRecords, LoadHolds(m),
         loads' \subseteq (loads \ {l}) \cup {m},
         UNCHANGED <<described, blockedFor, cache, relatedAnswer>>
  PROVE  RelatedInv'
<1>1. KeptEntries' = KeptEntries
  BY DEF KeptEntries, SeenWithin
<1>. QED BY <1>1 DEF RelatedInv, LoadHolds, SeenWithin, Related!BlockedAgesOut,
               Related!ShownOnce

LEMMA AlikeFinite ==
  ASSUME NEW s \in SUBSET Alike
  PROVE  IsFiniteSet(s) /\ Cardinality(s) \in Nat
BY FS_Subset, FS_CardinalityType, RelatedAssumption

\* The queries of a load: what they take is not blocked, and fills what is left.
LEMMA LoadStep ==
  ASSUME RelatedInv, NEW l \in loads,
         \/ Related!LoadSource(l) \/ Related!LoadFresh(l) \/ Related!LoadVector(l)
         \/ Related!LoadPopular(l) \/ Related!LoadFails(l)
  PROVE  RelatedInv'
<1>0. l \in LoadRecords /\ LoadHolds(l)
  BY DEF RelatedInv
<1>1. CASE Related!LoadSource(l)
  <2>1. PICK step \in {"fresh", "store"} :
          Related!Replace(l, [l EXCEPT !.embedded = l.key \in described, !.at = step])
    BY <1>1 DEF Related!LoadSource
  <2> DEFINE m == [l EXCEPT !.embedded = l.key \in described, !.at = step]
  <2>2. m \in LoadRecords
    <3>1. \A b \in BOOLEAN : [l EXCEPT !.embedded = b, !.at = step] \in LoadRecords
      BY <1>0 DEF LoadRecords, Related!Steps
    <3>2. (l.key \in described) \in BOOLEAN
      OBVIOUS
    <3>. QED BY <3>1, <3>2
  <2>3. /\ m.old = {} /\ m.new = {} /\ m.changed = l.changed /\ m.ticked = l.ticked
        /\ l.old = {} /\ l.new = {}
    BY <1>0, <1>1 DEF LoadRecords, LoadHolds, Related!LoadSource
  <2>4. LoadHolds(m)
    <3> HIDE DEF m
    <3>. QED BY <1>0, <2>3 DEF LoadHolds
  <2>. QED BY <1>1, <2>1, <2>2, <2>4, OnwardLoad DEF Related!LoadSource, Related!Replace
<1>2. CASE Related!LoadFresh(l)
  <2>1. PICK new \in Related!AtMost(FreshSlots, (Recent \cap Related!Visible) \ described) :
          Related!Replace(l, [l EXCEPT !.new = new, !.at = "vector"])
    BY <1>2 DEF Related!LoadFresh
  <2>2. /\ new \subseteq Related!Visible \ described /\ new \in SUBSET Alike
        /\ Related!Visible \subseteq Alike
    BY DEF Related!AtMost, Related!Visible
  <2>3. Cardinality(new) \in Nat /\ Cardinality(new) <= FreshSlots
    BY <2>2, AlikeFinite, SameCardinality, RelatedAssumption DEF Related!AtMost
  <2> DEFINE m == [l EXCEPT !.new = new, !.at = "vector"]
  <2>4. m \in LoadRecords
    BY <1>0, <2>2 DEF LoadRecords, Related!Steps
  <2>5. m.old = {} /\ m.new = new /\ m.at = "vector"
    BY <1>0, <1>2 DEF LoadRecords, LoadHolds, Related!LoadFresh
  <2>6. LoadHolds(m)
    <3> HIDE DEF m
    <3>1. \A c \in m.old \cup m.new : SeenWithin(c, IF m.ticked THEN 1 ELSE 0)
      BY <2>2, <2>5 DEF SeenWithin, Related!Visible
    <3>. QED BY <2>2, <2>3, <2>5, <3>1, FS_EmptySet, RelatedAssumption DEF LoadHolds
  <2>. QED BY <1>2, <2>1, <2>4, <2>6, OnwardLoad DEF Related!LoadFresh, Related!Replace
<1>3. CASE Related!LoadVector(l)
  <2>1. PICK old \in SUBSET (IF l.embedded THEN Related!Visible \cap described ELSE {}) :
          /\ Related!Cardinality(old) <= Related!Left(l)
          /\ Related!Replace(l, [l EXCEPT !.old = old, !.at = "popular"])
    BY <1>3 DEF Related!LoadVector
  <2>2. old \subseteq Related!Visible \cap described /\ old \in SUBSET Alike
    BY DEF Related!Visible
  <2>3. Cardinality(old) + Cardinality(l.new) <= Slots
    <3>1. Cardinality(old) \in Nat /\ Cardinality(l.new) \in Nat
      BY <1>0, <2>2, AlikeFinite DEF LoadRecords
    <3>2. Cardinality(old) <= Slots - Cardinality(l.new)
      BY <2>1, SameCardinality DEF Related!Left
    <3>. QED BY <3>1, <3>2, RelatedAssumption
  <2> DEFINE m == [l EXCEPT !.old = old, !.at = "popular"]
  <2>4. m \in LoadRecords
    BY <1>0, <2>2 DEF LoadRecords, Related!Steps
  <2>5. /\ m.old = old /\ m.new = l.new /\ m.at = "popular"
        /\ m.changed = l.changed /\ m.ticked = l.ticked
    BY <1>0 DEF LoadRecords
  <2>6. LoadHolds(m)
    <3> HIDE DEF m
    <3>1. \A c \in m.old \cup m.new : SeenWithin(c, IF m.ticked THEN 1 ELSE 0)
      BY <1>0, <2>2, <2>5 DEF SeenWithin, Related!Visible, LoadHolds
    <3>. QED BY <1>0, <2>2, <2>3, <2>5, <3>1 DEF LoadHolds
  <2>. QED BY <1>3, <2>1, <2>4, <2>6, OnwardLoad DEF Related!LoadVector, Related!Replace
<1>4. CASE Related!LoadPopular(l)
  <2> DEFINE pool == (Popular \cap Related!Visible \cap described) \ l.old
  <2>1. PICK added \in Related!AtMost(Related!Left(l) - Related!Cardinality(l.old), pool) :
          Related!Replace(l, [l EXCEPT !.old = @ \cup added, !.at = "store"])
    BY <1>4 DEF Related!LoadPopular
  <2>2. added \subseteq Related!Visible \cap described /\ added \in SUBSET Alike
        /\ pool \in SUBSET Alike
    BY DEF Related!AtMost, Related!Visible
  <2>3. Cardinality(l.old \cup added) + Cardinality(l.new) <= Slots
    <3>1. /\ IsFiniteSet(l.old) /\ IsFiniteSet(added)
          /\ Cardinality(l.old) \in Nat /\ Cardinality(l.new) \in Nat
          /\ Cardinality(added) \in Nat /\ Cardinality(pool) \in Nat
          /\ Cardinality(l.old \cap added) \in Nat
      BY <1>0, <2>2, AlikeFinite DEF LoadRecords
    <3>2. Cardinality(added) <= (Slots - Cardinality(l.new)) - Cardinality(l.old)
      <4> HIDE DEF pool
      <4>. QED BY <2>1, <3>1, SameCardinality, RelatedAssumption
               DEF Related!AtMost, Related!Left
    <3>3. Cardinality(l.old \cup added)
            = Cardinality(l.old) + Cardinality(added) - Cardinality(l.old \cap added)
      BY <3>1, FS_Union
    <3>. QED BY <3>1, <3>2, <3>3, RelatedAssumption
  <2> DEFINE m == [l EXCEPT !.old = @ \cup added, !.at = "store"]
  <2>4. m \in LoadRecords
    <3>1. l.old \cup added \in SUBSET Alike
      BY <1>0, <2>2 DEF LoadRecords
    <3>2. \A old \in SUBSET Alike : [l EXCEPT !.old = old, !.at = "store"] \in LoadRecords
      BY <1>0 DEF LoadRecords, Related!Steps
    <3>. QED BY <3>1, <3>2
  <2>5. /\ m.old = l.old \cup added /\ m.new = l.new /\ m.at = "store"
        /\ m.changed = l.changed /\ m.ticked = l.ticked
    BY <1>0 DEF LoadRecords
  <2>6. LoadHolds(m)
    <3> HIDE DEF m
    <3>1. \A c \in m.old \cup m.new : SeenWithin(c, IF m.ticked THEN 1 ELSE 0)
      BY <1>0, <2>2, <2>5 DEF SeenWithin, Related!Visible, LoadHolds
    <3>. QED BY <1>0, <2>2, <2>3, <2>5, <3>1 DEF LoadHolds
  <2>. QED BY <1>4, <2>1, <2>4, <2>6, OnwardLoad DEF Related!LoadPopular, Related!Replace
<1>5. CASE Related!LoadFails(l)
  BY <1>0, <1>5, OnwardLoad DEF Related!LoadFails
<1>. QED BY <1>1, <1>2, <1>3, <1>4, <1>5

\* What a load found is stored, and shown to the requests that wait for it.
LEMMA StoreStep ==
  ASSUME RelatedInv, NEW l \in loads, Related!Store(l)
  PROVE  RelatedInv'
<1> DEFINE kept == Related!Others(l.key)
           room == IF Len(kept) >= RelatedEntries
                     THEN SubSeq(kept, Len(kept) - RelatedEntries + 2, Len(kept)) ELSE kept
           e == [key |-> l.key, old |-> l.old, new |-> l.new, changed |-> l.changed, age |-> 0]
<1>1. /\ cache' = Append(room, e) /\ loads' = loads \ {l}
      /\ Related!Answer(l.key, l) /\ UNCHANGED <<described, blockedFor>>
  BY DEF Related!Store
<1>2. l \in LoadRecords /\ LoadHolds(l)
  BY DEF RelatedInv
<1>3. Distinct(l)
  BY <1>2 DEF LoadHolds, Distinct
<1>4. \A c \in l.old \cup l.new : SeenWithin(c, 1) /\ SeenWithin(c, TTL)
  <2> SUFFICES ASSUME NEW c \in l.old \cup l.new PROVE SeenWithin(c, 1) /\ SeenWithin(c, TTL)
    OBVIOUS
  <2>1. blockedFor[c] \in Nat
    BY <1>2, RelatedAssumption DEF RelatedInv, LoadRecords, Related!NotBlocked
  <2>2. SeenWithin(c, IF l.ticked THEN 1 ELSE 0)
    BY <1>2 DEF LoadHolds
  <2>. QED BY <2>1, <2>2, RelatedAssumption DEF SeenWithin
<1>5. e \in KeptEntries
  <2>1. e \in EntryRecords
    BY <1>2, RelatedAssumption DEF LoadRecords, EntryRecords
  <2>. QED BY <1>3, <1>4, <2>1 DEF KeptEntries, Distinct
<1>6. room \in Seq(KeptEntries)
  <2>1. kept \in Seq(KeptEntries)
    BY OthersKept DEF RelatedInv
  <2> HIDE DEF kept
  <2>2. Len(kept) \in Nat /\ \A i \in 1 .. Len(kept) : kept[i] \in KeptEntries
    BY <2>1, LenProperties, ElementOfSeq
  <2>3. ASSUME Len(kept) >= RelatedEntries
        PROVE  SubSeq(kept, Len(kept) - RelatedEntries + 2, Len(kept)) \in Seq(KeptEntries)
    <3>1. Len(kept) - RelatedEntries + 2 \in 1 .. Len(kept) + 1
      BY <2>2, <2>3, RelatedAssumption
    <3>. QED BY <2>2, <3>1, SubSeqProperties
  <2>. QED BY <2>1, <2>3
<1>7. cache' \in Seq(KeptEntries)
  <2> HIDE DEF room, e
  <2>. QED BY <1>1, <1>5, <1>6, AppendKept
<1>8. KeptEntries' = KeptEntries
  BY <1>1 DEF KeptEntries, SeenWithin
<1>9. /\ relatedAnswer'.old \cup relatedAnswer'.new \subseteq Alike
      /\ Related!BlockedAgesOut' /\ Related!ShownOnce'
  BY <1>1, <1>2, <1>3, <1>4, ShowsWell DEF LoadRecords
<1>. QED BY <1>1, <1>7, <1>8, <1>9 DEF RelatedInv, LoadHolds, SeenWithin

\* Metadata that arrives makes the answers under way ones that may repeat a content.
LEMMA DescribeStep ==
  ASSUME RelatedInv, NEW c \in Alike \cup Sources, Related!Describe(c)
  PROVE  RelatedInv'
<1>1. /\ loads' = {[l EXCEPT !.changed = TRUE] : l \in loads} /\ described \subseteq described'
      /\ UNCHANGED <<blockedFor, cache, relatedAnswer>>
  BY DEF Related!Describe
<1>2. KeptEntries' = KeptEntries
  BY <1>1 DEF KeptEntries, SeenWithin
<1>3. ASSUME NEW l \in loads
      PROVE  [l EXCEPT !.changed = TRUE] \in LoadRecords /\ LoadHolds([l EXCEPT !.changed = TRUE])'
  <2>1. l \in LoadRecords /\ LoadHolds(l)
    BY DEF RelatedInv
  <2> DEFINE m == [l EXCEPT !.changed = TRUE]
  <2>2. /\ m \in LoadRecords /\ m.at = l.at /\ m.old = l.old /\ m.new = l.new
        /\ m.ticked = l.ticked /\ m.changed
    BY <2>1 DEF LoadRecords
  <2> HIDE DEF m
  <2>3. LoadHolds(m)'
    BY <1>1, <2>1, <2>2 DEF LoadHolds, SeenWithin
  <2>. QED BY <2>2, <2>3 DEF m
<1>4. loads' \subseteq LoadRecords /\ \A m \in loads' : LoadHolds(m)'
  BY <1>1, <1>3
<1>. QED BY <1>1, <1>2, <1>4 DEF RelatedInv, Related!BlockedAgesOut, Related!ShownOnce

\* An administrator blocks a content, or takes that back: at once, or never again.
LEMMA ToggleStep ==
  ASSUME RelatedInv, NEW c \in Alike, Related!Toggle(c)
  PROVE  RelatedInv'
<1>1. /\ blockedFor' = [blockedFor EXCEPT ![c] = IF @ = Related!NotBlocked
                                                  THEN 0 ELSE Related!NotBlocked]
      /\ UNCHANGED <<described, cache, loads, relatedAnswer>>
  BY DEF Related!Toggle
<1>2. blockedFor' \in [Alike -> 0 .. Related!NotBlocked]
  <2>1. 0 \in 0 .. Related!NotBlocked /\ Related!NotBlocked \in 0 .. Related!NotBlocked
    BY RelatedAssumption DEF Related!NotBlocked
  <2>. QED BY <1>1, <2>1 DEF RelatedInv
<1>3. ASSUME NEW d \in Alike, NEW n \in Nat, SeenWithin(d, n) PROVE SeenWithin(d, n)'
  BY <1>1, <1>3, RelatedAssumption DEF RelatedInv, SeenWithin, Related!NotBlocked
<1>4. KeptEntries \subseteq KeptEntries'
  <2> SUFFICES ASSUME NEW e \in KeptEntries, e.age < TTL, NEW d \in e.old \cup e.new
               PROVE  SeenWithin(d, e.age + 1)'
    BY DEF KeptEntries, Distinct
  <2>1. d \in Alike /\ e.age + 1 \in Nat /\ SeenWithin(d, e.age + 1)
    BY RelatedAssumption DEF KeptEntries, EntryRecords
  <2>. QED BY <1>3, <2>1
<1>5. cache' \in Seq(KeptEntries')
  BY <1>1, <1>4, SeqMonotonic DEF RelatedInv
<1>6. \A l \in loads' : LoadHolds(l)'
  <2> SUFFICES ASSUME NEW l \in loads PROVE LoadHolds(l)'
    BY <1>1
  <2>1. l \in LoadRecords /\ LoadHolds(l)
    BY DEF RelatedInv
  <2>2. \A d \in l.old \cup l.new : SeenWithin(d, IF l.ticked THEN 1 ELSE 0)'
    BY <1>3, <2>1 DEF LoadHolds, LoadRecords
  <2>. QED BY <1>1, <2>1, <2>2 DEF LoadHolds
<1>7. Related!BlockedAgesOut'
  BY <1>1, RelatedAssumption DEF RelatedInv, Related!BlockedAgesOut, Related!NotBlocked
<1>. QED BY <1>1, <1>2, <1>5, <1>6, <1>7 DEF RelatedInv, Related!ShownOnce

\* Entries and contents age together.
LEMMA TickStep ==
  ASSUME RelatedInv, Related!Tick
  PROVE  RelatedInv'
<1>1. /\ blockedFor' = [c \in Alike |-> IF blockedFor[c] <= TTL THEN blockedFor[c] + 1
                                                               ELSE blockedFor[c]]
      /\ cache' = [i \in DOMAIN cache |-> [cache[i] EXCEPT !.age = IF @ < TTL THEN @ + 1 ELSE @]]
      /\ loads' = {[l EXCEPT !.ticked = TRUE] : l \in loads}
      /\ \A l \in loads : ~l.ticked
      /\ relatedAnswer' = Related!NoAnswer /\ described' = described
  BY DEF Related!Tick
<1>2. \A c \in Alike : blockedFor[c] \in 0 .. TTL + 2
  BY DEF RelatedInv, Related!NotBlocked
<1>3. blockedFor' \in [Alike -> 0 .. Related!NotBlocked]
  BY <1>1, <1>2, RelatedAssumption DEF Related!NotBlocked
<1>4. ASSUME NEW c \in Alike, NEW n \in 0 .. TTL, SeenWithin(c, n) PROVE SeenWithin(c, n + 1)'
  <2>1. blockedFor'[c] = IF blockedFor[c] <= TTL THEN blockedFor[c] + 1 ELSE blockedFor[c]
    BY <1>1
  <2>. QED BY <1>2, <1>4, <2>1, RelatedAssumption DEF SeenWithin, Related!NotBlocked
<1>5. cache' \in Seq(KeptEntries')
  <2>1. Len(cache) \in Nat /\ DOMAIN cache = 1 .. Len(cache)
        /\ \A i \in 1 .. Len(cache) : cache[i] \in KeptEntries
    BY LenProperties, ElementOfSeq DEF RelatedInv
  <2>2. ASSUME NEW e \in KeptEntries
        PROVE  [e EXCEPT !.age = IF @ < TTL THEN @ + 1 ELSE @] \in KeptEntries'
    <3>1. e \in EntryRecords /\ e.age \in 0 .. TTL /\ Distinct(e)
      BY DEF KeptEntries, EntryRecords
    <3>2. CASE e.age < TTL
      <4> DEFINE f == [e EXCEPT !.age = e.age + 1]
      <4>1. f = [e EXCEPT !.age = IF @ < TTL THEN @ + 1 ELSE @]
        BY <3>1, <3>2 DEF EntryRecords
      <4>2. e.age + 1 \in 0 .. TTL
        BY <3>1, <3>2, RelatedAssumption
      <4>3. f \in EntryRecords
        BY <3>1, <4>2 DEF EntryRecords
      <4>4. f.old = e.old /\ f.new = e.new /\ f.changed = e.changed /\ f.age = e.age + 1
        BY <3>1 DEF EntryRecords
      <4> HIDE DEF f
      <4>5. \A c \in e.old \cup e.new : c \in Alike /\ SeenWithin(c, e.age + 1)
        BY <3>1, <3>2 DEF KeptEntries, EntryRecords
      <4>6. \A c \in f.old \cup f.new : SeenWithin(c, f.age + 1)'
        BY <1>4, <4>2, <4>4, <4>5
      <4>7. Distinct(f)'
        BY <3>1, <4>4 DEF Distinct
      <4>. QED BY <4>1, <4>3, <4>6, <4>7 DEF KeptEntries
    <3>3. CASE ~(e.age < TTL)
      <4>1. [e EXCEPT !.age = IF @ < TTL THEN @ + 1 ELSE @] = e
        BY <3>1, <3>3 DEF EntryRecords
      <4>. QED BY <3>1, <3>3, <4>1 DEF KeptEntries, Distinct
    <3>. QED BY <3>2, <3>3
  <2>3. \A i \in 1 .. Len(cache) : cache'[i] \in KeptEntries'
    BY <1>1, <2>1, <2>2
  <2>. QED BY <1>1, <2>1, <2>3
<1>6. ASSUME NEW l \in loads
      PROVE  [l EXCEPT !.ticked = TRUE] \in LoadRecords /\ LoadHolds([l EXCEPT !.ticked = TRUE])'
  <2>1. l \in LoadRecords /\ LoadHolds(l) /\ ~l.ticked
    BY <1>1 DEF RelatedInv
  <2> DEFINE m == [l EXCEPT !.ticked = TRUE]
  <2>2. /\ m \in LoadRecords /\ m.at = l.at /\ m.old = l.old /\ m.new = l.new
        /\ m.ticked /\ m.changed = l.changed
    BY <2>1 DEF LoadRecords
  <2> HIDE DEF m
  <2>3. \A c \in l.old \cup l.new : c \in Alike /\ SeenWithin(c, 0)
    BY <2>1 DEF LoadHolds, LoadRecords
  <2>4. \A c \in m.old \cup m.new : SeenWithin(c, 1)'
    BY <1>4, <2>2, <2>3, RelatedAssumption
  <2>5. LoadHolds(m)'
    BY <1>1, <2>1, <2>2, <2>4 DEF LoadHolds
  <2>. QED BY <2>2, <2>5 DEF m
<1>7. loads' \subseteq LoadRecords /\ \A m \in loads' : LoadHolds(m)'
  BY <1>1, <1>6
<1>. QED BY <1>1, <1>3, <1>5, <1>7 DEF RelatedInv, Related!BlockedAgesOut, Related!ShownOnce,
        Related!NoAnswer

LEMMA RelatedStep == RelatedInv /\ [Related!Next]_related => RelatedInv'
<1>1. RelatedInv /\ UNCHANGED related => RelatedInv'
  BY DEF related, RelatedInv, KeptEntries, LoadHolds, SeenWithin, Related!BlockedAgesOut,
         Related!ShownOnce
<1>. QED BY <1>1, HitStep, MissStep, LoadStep, StoreStep, DescribeStep, ToggleStep, TickStep
         DEF Related!Next

\* A content that was blocked is shown for as long as entries live and no longer, and no
\* answer repeats a content or has more than the slots: for every size of the cache and
\* every time to live, whatever is loaded, described and blocked meanwhile.
THEOREM BlockedAlwaysAgesOut == ServicesSpec => []BlockedAgesOut
<1>1. ServicesInit => (part = "related" => RelatedInv)
  BY RelatedInit DEF ServicesInit
<1>2. (part = "related" => RelatedInv) /\ [ServicesNext]_<<part, backend>>
        => (part = "related" => RelatedInv)'
  BY Frame, RelatedStep
<1>3. (part = "related" => RelatedInv) => BlockedAgesOut
  BY DEF RelatedInv, BlockedAgesOut
<1>. QED BY <1>1, <1>2, <1>3, PTL DEF ServicesSpec

-----------------------------------------------------------------------------
(* Rankings, for any categories C and bound M on the fetches: a reader gets *)
(* a whole list, the one saved last.                                       *)

RankKeys(C) == [category : C, rank : 1 .. MaxRank, date : 0 .. MaxDay]

SyncJobs(C) == [at : {"fetch", "match"}, category : C, date : 0 .. MaxDay, stamp : 0 .. fetches,
                count : 0 .. MaxRank, done : Nat]
Edits(C)    == [at : {"save"}, key : RankKeys(C), stamp : 0 .. fetches]
NoJob       == [at |-> "idle"]

RankTypes(C) ==
    /\ fetches \in Nat /\ day \in 0 .. MaxDay
    /\ stampOf \in [RankKeys(C) -> 0 .. fetches]
    /\ sync \in [Syncs -> {NoJob} \cup SyncJobs(C)]
    /\ edit \in {NoJob} \cup Edits(C)
    /\ lastCount \in [C -> 0 .. MaxRank]
    /\ \A s \in overlapped : s \in Syncs /\ sync[s].at = "match"

\* The rows of a category with the latest stamp are the list saved last: one date, the
\* ranks from 1 on, and no more than it had items.
LatestIs(C, c, n) ==
    /\ n \in Nat \ {0} /\ lastCount[c] \in 1 .. MaxRank
    /\ \E d \in 0 .. MaxDay : \A k \in RankKeys(C) : k.category = c =>
         /\ stampOf[k] <= n
         /\ stampOf[k] = n <=> k.date = d /\ k.rank <= lastCount[c]

NoRows(C, c) == \A k \in RankKeys(C) : k.category = c => stampOf[k] = 0

\* A list that is being matched is newer than all that is there, and than what an edit
\* will write back, unless another one was saved meanwhile.
Ahead(C, s) ==
    /\ \A k \in RankKeys(C) : k.category = sync[s].category => stampOf[k] < sync[s].stamp
    /\ edit.at = "save" /\ edit.key.category = sync[s].category => edit.stamp < sync[s].stamp

ReaderSees(C) ==
    /\ reader.at \in {"idle", "rows", "answered"}
    /\ reader.at = "rows" =>
         /\ reader.category \in C /\ reader.raced \in BOOLEAN
         /\ ~reader.raced /\ reader.category \notin mixed
              => LatestIs(C, reader.category, reader.stamp)
    /\ reader.at = "answered" /\ ~reader.raced =>
         reader.ranks = 1 .. (IF reader.count < RankLimit THEN reader.count ELSE RankLimit)

RankInv(C) ==
    /\ RankTypes(C)
    /\ \A s \in Syncs \ overlapped : sync[s].at = "match" => Ahead(C, s)
    /\ \A c \in C \ mixed : NoRows(C, c) \/ \E n \in 1 .. fetches : LatestIs(C, c, n)
    /\ ReaderSees(C)

LEMMA RankKeysMeaning ==
  ASSUME NEW C, NEW M
  PROVE  /\ Lists(C, M)!Keys = RankKeys(C) /\ Lists(C, M)!Idle = NoJob /\ NoJob.at = "idle"
         /\ Lists(C, M)!NoRow = 0
         /\ \A S : Lists(C, M)!Cardinality(S) = Cardinality(S)
BY DEF Lists!Keys, Lists!Idle, Lists!NoRow, RankKeys, NoJob, Lists!Cardinality, Cardinality

LEMMA RankInit ==
  ASSUME NEW C, NEW M, Lists(C, M)!Init
  PROVE  RankInv(C)
<1>1. stampOf = [k \in RankKeys(C) |-> 0] /\ fetches = 0 /\ day = 0
      /\ sync = [s \in Syncs |-> NoJob]
      /\ edit = NoJob /\ reader = NoJob /\ lastCount = [c \in C |-> 0] /\ overlapped = {}
  BY RankKeysMeaning DEF Lists!Init
<1>2. RankTypes(C)
  BY <1>1, RankingAssumption DEF RankTypes
<1>3. \A c \in C : NoRows(C, c)
  BY <1>1 DEF NoRows
<1>4. \A s \in Syncs : sync[s].at = "idle"
  BY <1>1 DEF NoJob
<1>5. ReaderSees(C)
  BY <1>1 DEF ReaderSees, NoJob
<1>. QED BY <1>2, <1>3, <1>4, <1>5 DEF RankInv

\* Where no row changes, no list is saved and the reader waits.
LEMMA RankQuiet ==
  ASSUME NEW C, RankInv(C), RankTypes(C)', UNCHANGED <<stampOf, lastCount, mixed>>,
         fetches <= fetches', ReaderSees(C)',
         \A s \in Syncs \ overlapped' : sync'[s].at = "match" => Ahead(C, s)'
  PROVE  RankInv(C)'
<1>1. \A c, n : LatestIs(C, c, n)' = LatestIs(C, c, n)
  BY DEF LatestIs
<1>2. \A c : NoRows(C, c)' = NoRows(C, c)
  BY DEF NoRows
<1>3. 1 .. fetches \subseteq 1 .. fetches'
  BY DEF RankInv, RankTypes
<1>. QED BY <1>1, <1>2, <1>3 DEF RankInv

LEMMA ReaderWaits ==
  ASSUME NEW C, RankInv(C), UNCHANGED <<stampOf, lastCount, mixed, reader>>
  PROVE  ReaderSees(C)'
BY DEF RankInv, ReaderSees, LatestIs

\* A sync that starts, goes on or fails, and has not written anything.
LEMMA SyncMoves ==
  ASSUME NEW C, RankInv(C), NEW s \in Syncs, NEW y \in {NoJob} \cup SyncJobs(C),
         sync' = [sync EXCEPT ![s] = y], fetches' = fetches,
         UNCHANGED <<stampOf, day, edit, reader, lastCount, mixed>>,
         overlapped' = overlapped \/ overlapped' = overlapped \ {s},
         s \in overlapped' => y.at = "match",
         y.at = "match" => /\ sync[s].at = "match" /\ overlapped' = overlapped
                           /\ y.category = sync[s].category /\ y.stamp = sync[s].stamp
  PROVE  RankInv(C)'
<1>1. RankTypes(C)'
  BY DEF RankInv, RankTypes, SyncJobs, Edits
<1>2. ASSUME NEW z \in Syncs \ overlapped', sync'[z].at = "match" PROVE Ahead(C, z)'
  <2>1. CASE z = s
    BY <1>2, <2>1 DEF RankInv, RankTypes, Ahead
  <2>2. CASE z # s
    BY <1>2, <2>2 DEF RankInv, RankTypes, Ahead
  <2>. QED BY <2>1, <2>2
<1>3. fetches <= fetches'
  BY DEF RankInv, RankTypes
<1>. QED BY <1>1, <1>2, <1>3, RankQuiet, ReaderWaits

LEMMA StartStep ==
  ASSUME NEW C, NEW M, RankInv(C), NEW s \in Syncs, NEW c \in C,
         Lists(C, M)!Start(s, c) \/ Lists(C, M)!Retry(s, c)
  PROVE  RankInv(C)'
<1> DEFINE y == [at |-> "fetch", category |-> c, date |-> day, stamp |-> 0, count |-> 0, done |-> 0]
<1>1. sync[s].at = "idle" /\ sync' = [sync EXCEPT ![s] = y]
      /\ UNCHANGED <<stampOf, fetches, day, edit, reader, lastCount, overlapped, mixed>>
  BY DEF Lists!Start, Lists!Retry, Lists!table, Lists!saved
<1>2. y \in SyncJobs(C)
  BY RankingAssumption DEF SyncJobs, RankInv, RankTypes
<1>3. s \notin overlapped
  BY <1>1 DEF RankInv, RankTypes
<1>. QED BY <1>1, <1>2, <1>3, SyncMoves

LEMMA FailStep ==
  ASSUME NEW C, NEW M, RankInv(C), NEW s \in Syncs, Lists(C, M)!Fail(s)
  PROVE  RankInv(C)'
<1>1. sync' = [sync EXCEPT ![s] = NoJob] /\ overlapped' = overlapped \ {s}
      /\ UNCHANGED <<stampOf, fetches, day, edit, reader, lastCount, mixed>>
  BY RankKeysMeaning DEF Lists!Fail, Lists!table
<1>2. NoJob.at = "idle"
  BY DEF NoJob
<1>. QED BY <1>1, <1>2, SyncMoves

\* The stamp of a fetch is later than all there are.
LEMMA FetchStep ==
  ASSUME NEW C, NEW M, RankInv(C), NEW s \in Syncs, Lists(C, M)!Fetch(s)
  PROVE  RankInv(C)'
<1>1. CASE Lists(C, M)!Fail(s)
  BY <1>1, FailStep
<1>2. CASE ~Lists(C, M)!Fail(s)
  <2>1. PICK n \in 0 .. MaxRank :
          sync' = [sync EXCEPT ![s].at = "match", ![s].count = n, ![s].stamp = fetches + 1]
    BY <1>2 DEF Lists!Fetch
  <2>2. /\ fetches' = fetches + 1 /\ sync[s].at = "fetch"
        /\ UNCHANGED <<stampOf, day, edit, reader, lastCount, overlapped, mixed>>
    BY <1>2 DEF Lists!Fetch, Lists!saved
  <2>3. sync \in [Syncs -> {NoJob} \cup SyncJobs(C)]
      /\ sync[s] \in SyncJobs(C) /\ s \notin overlapped
        /\ fetches \in Nat
    BY <2>2 DEF RankInv, RankTypes, NoJob
  <2> DEFINE y == [sync[s] EXCEPT !.at = "match", !.count = n, !.stamp = fetches + 1]
  <2>4. sync' = [sync EXCEPT ![s] = y]
    BY <2>1, <2>3 DEF SyncJobs
  <2>5. y.at = "match" /\ y.stamp = fetches + 1 /\ y.category = sync[s].category
    BY <2>3 DEF SyncJobs
  <2>6. 0 .. fetches \subseteq 0 .. fetches' /\ fetches' \in Nat /\ fetches <= fetches'
        /\ fetches + 1 \in 0 .. fetches'
    BY <2>2, <2>3
  <2>7. y \in SyncJobs(C)'
    <3>1. sync[s] \in SyncJobs(C)'
      BY <2>3, <2>6 DEF SyncJobs
    <3>2. \A stamp \in 0 .. fetches' :
            [sync[s] EXCEPT !.at = "match", !.count = n, !.stamp = stamp] \in SyncJobs(C)'
      BY <3>1 DEF SyncJobs
    <3>. QED BY <2>6, <3>2
  <2> HIDE DEF y
  <2>8. RankTypes(C)'
    <3>1. SyncJobs(C) \subseteq SyncJobs(C)' /\ Edits(C) \subseteq Edits(C)'
      BY <2>6 DEF SyncJobs, Edits
    <3>2. sync' \in [Syncs -> {NoJob} \cup SyncJobs(C)']
      BY <2>3, <2>4, <2>7, <3>1
    <3>3. stampOf' \in [RankKeys(C) -> 0 .. fetches']
      BY <2>2, <2>6 DEF RankInv, RankTypes
    <3>4. \A z \in overlapped' : z \in Syncs /\ sync'[z].at = "match"
      BY <2>2, <2>3, <2>4 DEF RankInv, RankTypes
    <3>. QED BY <2>2, <2>6, <3>1, <3>2, <3>3, <3>4 DEF RankInv, RankTypes
  <2>9. ASSUME NEW z \in Syncs \ overlapped', sync'[z].at = "match" PROVE Ahead(C, z)'
    <3>1. CASE z = s
      <4>1. sync'[z].stamp = fetches + 1
        BY <2>3, <2>4, <2>5, <3>1
      <4>2. \A k \in RankKeys(C) : stampOf'[k] < fetches + 1
        BY <2>2, <2>3 DEF RankInv, RankTypes
      <4>3. edit'.at = "save" => edit'.stamp < fetches + 1
        BY <2>2, <2>3 DEF RankInv, RankTypes, Edits, NoJob
      <4>. QED BY <4>1, <4>2, <4>3 DEF Ahead
    <3>2. CASE z # s
      BY <2>2, <2>3, <2>4, <2>9, <3>2 DEF RankInv, Ahead
    <3>. QED BY <3>1, <3>2
  <2>. QED BY <2>2, <2>6, <2>8, <2>9, RankQuiet, ReaderWaits
<1>. QED BY <1>1, <1>2

LEMMA MatchStep ==
  ASSUME NEW C, NEW M, RankInv(C), NEW s \in Syncs, Lists(C, M)!Match(s)
  PROVE  RankInv(C)'
<1>1. sync[s].at = "match" /\ sync' = [sync EXCEPT ![s].done = @ + 1]
      /\ UNCHANGED <<stampOf, fetches, day, edit, reader, lastCount, overlapped, mixed>>
  BY DEF Lists!Match, Lists!table, Lists!saved
<1>2. sync \in [Syncs -> {NoJob} \cup SyncJobs(C)] /\ sync[s] \in SyncJobs(C)
  BY <1>1 DEF RankInv, RankTypes, NoJob
<1> DEFINE y == [sync[s] EXCEPT !.done = @ + 1]
<1>3. y \in SyncJobs(C) /\ y.at = sync[s].at /\ y.category = sync[s].category
      /\ y.stamp = sync[s].stamp
  <2>1. sync[s].done + 1 \in Nat
    BY <1>2 DEF SyncJobs
  <2>2. \A n \in Nat : [sync[s] EXCEPT !.done = n] \in SyncJobs(C)
    BY <1>2 DEF SyncJobs
  <2>. QED BY <1>2, <2>1, <2>2 DEF SyncJobs
<1>4. sync' = [sync EXCEPT ![s] = y]
  BY <1>1, <1>2
<1> HIDE DEF y
<1>. QED BY <1>1, <1>3, <1>4, SyncMoves

\* A list that is saved is the latest, unless another was saved while it was matched.
LEMMA SaveStep ==
  ASSUME NEW C, NEW M, RankInv(C), NEW s \in Syncs, Lists(C, M)!Save(s)
  PROVE  RankInv(C)'
<1>0. PICK y, c : y = sync[s] /\ c = y.category
  OBVIOUS
<1> USE <1>0
<1>1. /\ y.at = "match" /\ sync' = [sync EXCEPT ![s] = NoJob]
      /\ stampOf' = [k \in RankKeys(C) |->
                      IF k \in Lists(C, M)!KeysOf(y) THEN y.stamp ELSE stampOf[k]]
      /\ UNCHANGED <<fetches, day, edit>> /\ Lists(C, M)!Remember(s)
  BY RankKeysMeaning DEF Lists!Save, Lists!Ready
<1>2. /\ y \in SyncJobs(C) /\ fetches \in Nat /\ sync \in [Syncs -> {NoJob} \cup SyncJobs(C)]
      /\ stampOf \in [RankKeys(C) -> 0 .. fetches] /\ lastCount \in [C -> 0 .. MaxRank]
  BY <1>1 DEF RankInv, RankTypes, NoJob
<1>3. \A k \in RankKeys(C) :
        k \in Lists(C, M)!KeysOf(y) <=> k.category = c /\ k.date = y.date /\ k.rank <= y.count
  BY <1>2, RankingAssumption DEF RankKeys, SyncJobs, Lists!KeysOf
<1>4. CASE y.count = 0
  <2>1. stampOf' = stampOf
    <3>1. \A k \in RankKeys(C) : k.rank \in Nat \ {0}
      BY RankingAssumption DEF RankKeys
    <3>2. \A k \in RankKeys(C) : k \notin Lists(C, M)!KeysOf(y)
      BY <1>3, <1>4, <3>1
    <3>3. stampOf' = [k \in RankKeys(C) |-> stampOf[k]]
      BY <1>1, <3>2
    <3>. QED BY <1>2, <3>3
  <2>2. overlapped' = overlapped \ {s} /\ UNCHANGED <<lastCount, mixed, reader>>
    BY <1>1, <1>4 DEF Lists!Remember
  <2>. QED BY <1>1, <2>1, <2>2, SyncMoves DEF NoJob
<1>5. CASE y.count # 0
  <2>1. /\ overlapped' = (overlapped \cup {z \in Syncs : /\ sync[z].at = "match"
                                                        /\ sync[z].category = c}) \ {s}
        /\ lastCount' = [lastCount EXCEPT ![c] = y.count]
        /\ mixed' = IF s \in overlapped THEN mixed \cup {c} ELSE mixed \ {c}
        /\ reader' = IF reader.at = "rows" /\ reader.category = c
                       THEN [reader EXCEPT !.raced = TRUE] ELSE reader
    BY <1>1, <1>5 DEF Lists!Remember
  <2>2. y.count \in 1 .. MaxRank /\ y.stamp \in 0 .. fetches /\ c \in C /\ y.date \in 0 .. MaxDay
        /\ s \in Syncs
    BY <1>2, <1>5, RankingAssumption DEF SyncJobs
  <2>3. \A k \in RankKeys(C) : k.category # c => stampOf'[k] = stampOf[k]
    BY <1>1, <1>3
  <2>4. \A b \in C \ {c} : /\ NoRows(C, b)' = NoRows(C, b)
                           /\ \A n : LatestIs(C, b, n)' = LatestIs(C, b, n)
    BY <1>2, <2>1, <2>3 DEF NoRows, LatestIs
  <2>5. RankTypes(C)'
    <3>1. stampOf' \in [RankKeys(C) -> 0 .. fetches]
      BY <1>1, <1>2, <2>2
    <3>2. \A z \in overlapped' : z \in Syncs /\ sync'[z].at = "match"
      BY <1>1, <1>2, <2>1 DEF RankInv, RankTypes
    <3>3. lastCount' \in [C -> 0 .. MaxRank]
      BY <1>2, <2>1, <2>2
    <3>4. sync' \in [Syncs -> {NoJob} \cup SyncJobs(C)]
      BY <1>1, <1>2
    <3>. QED BY <1>1, <1>2, <3>1, <3>2, <3>3, <3>4 DEF RankInv, RankTypes, SyncJobs, Edits
  <2>6. ASSUME NEW z \in Syncs \ overlapped', sync'[z].at = "match" PROVE Ahead(C, z)'
    <3>1. z # s /\ z \notin overlapped /\ sync'[z] = sync[z] /\ sync[z].category # c
      BY <1>1, <1>2, <2>1, <2>6 DEF NoJob
    <3>. QED BY <1>1, <2>3, <2>6, <3>1 DEF RankInv, Ahead
  <2>7. s \notin overlapped => LatestIs(C, c, y.stamp)'
    <3> SUFFICES ASSUME s \notin overlapped PROVE LatestIs(C, c, y.stamp)'
      OBVIOUS
    <3>1. \A k \in RankKeys(C) : k.category = c => stampOf[k] < y.stamp /\ stampOf[k] \in Nat
      BY <1>1, <1>2 DEF RankInv, Ahead
    <3>2. y.stamp \in Nat \ {0}
      <4>1. [category |-> c, rank |-> 1, date |-> 0] \in RankKeys(C)
        BY <2>2, RankingAssumption DEF RankKeys
      <4>. QED BY <1>2, <2>2, <3>1, <4>1
    <3>3. lastCount'[c] = y.count
      BY <1>2, <2>1, <2>2
    <3>4. \A k \in RankKeys(C) : k.category = c =>
            /\ stampOf'[k] <= y.stamp
            /\ stampOf'[k] = y.stamp <=> k.date = y.date /\ k.rank <= y.count
      BY <1>1, <1>3, <3>1, <3>2
    <3>. QED BY <2>2, <3>2, <3>3, <3>4 DEF LatestIs
  <2>8. ASSUME NEW b \in C \ mixed'
        PROVE  NoRows(C, b)' \/ \E n \in 1 .. fetches' : LatestIs(C, b, n)'
    <3>1. CASE b = c
      BY <1>1, <1>2, <2>1, <2>2, <2>7, <2>8, <3>1 DEF LatestIs
    <3>2. CASE b # c
      BY <1>1, <2>1, <2>4, <2>8, <3>2 DEF RankInv
    <3>. QED BY <3>1, <3>2
  <2>9. ReaderSees(C)'
    <3>1. CASE reader.at = "rows" /\ reader.category = c
      BY <2>1, <2>2, <3>1 DEF RankInv, ReaderSees
    <3>2. CASE ~(reader.at = "rows" /\ reader.category = c)
      <4>1. reader' = reader
        BY <2>1, <3>2
      <4>2. reader.at = "rows" => reader.category \in C \ {c}
        BY <3>2 DEF RankInv, ReaderSees
      <4>3. reader.at = "rows" /\ ~reader.raced /\ reader.category \notin mixed'
              => LatestIs(C, reader.category, reader.stamp)'
        BY <2>1, <2>4, <4>2 DEF RankInv, ReaderSees
      <4>. QED BY <4>1, <4>2, <4>3 DEF RankInv, ReaderSees
    <3>. QED BY <3>1, <3>2
  <2>. QED BY <2>5, <2>6, <2>8, <2>9 DEF RankInv
<1>. QED BY <1>4, <1>5

LEMMA DayStep ==
  ASSUME NEW C, NEW M, RankInv(C), Lists(C, M)!NextDay
  PROVE  RankInv(C)'
<1>1. day' \in 0 .. MaxDay
      /\ UNCHANGED <<stampOf, fetches, sync, edit, reader, lastCount, overlapped, mixed>>
  BY RankingAssumption DEF Lists!NextDay, Lists!saved, RankInv, RankTypes
<1>2. RankTypes(C)'
  BY <1>1 DEF RankInv, RankTypes, SyncJobs, Edits
<1>3. \A s \in Syncs \ overlapped' : sync'[s].at = "match" => Ahead(C, s)'
  BY <1>1 DEF RankInv, Ahead
<1>. QED BY <1>1, <1>2, <1>3, RankQuiet, ReaderWaits DEF RankInv, RankTypes

\* What an edit has read is not newer than what is there.
LEMMA PosterReadStep ==
  ASSUME NEW C, NEW M, RankInv(C), Lists(C, M)!PosterRead
  PROVE  RankInv(C)'
<1>1. PICK k \in RankKeys(C) : edit' = [at |-> "save", key |-> k, stamp |-> stampOf[k]]
  BY RankKeysMeaning DEF Lists!PosterRead, Lists!RowsOf
<1>2. UNCHANGED <<stampOf, fetches, day, sync, reader, lastCount, overlapped, mixed>>
  BY DEF Lists!PosterRead, Lists!table, Lists!saved
<1>3. edit' \in Edits(C)
  BY <1>1 DEF Edits, RankInv, RankTypes
<1>4. RankTypes(C)'
  BY <1>2, <1>3 DEF RankInv, RankTypes, SyncJobs, Edits
<1>5. \A s \in Syncs \ overlapped' : sync'[s].at = "match" => Ahead(C, s)'
  BY <1>1, <1>2 DEF RankInv, Ahead
<1>. QED BY <1>2, <1>4, <1>5, RankQuiet, ReaderWaits DEF RankInv, RankTypes

\* An edit writes back what it has read: where the row has changed since, the category is
\* mixed from then on.
LEMMA PosterSaveStep ==
  ASSUME NEW C, NEW M, RankInv(C), Lists(C, M)!PosterSave
  PROVE  RankInv(C)'
<1>0. PICK k, n : k = edit.key /\ n = edit.stamp
  OBVIOUS
<1> USE <1>0
<1>1. /\ edit.at = "save" /\ stampOf' = [stampOf EXCEPT ![k] = n] /\ edit' = NoJob
      /\ mixed' = IF stampOf[k] # n THEN mixed \cup {k.category} ELSE mixed
      /\ reader' = IF stampOf[k] # n /\ reader.at = "rows" /\ reader.category = k.category
                     THEN [reader EXCEPT !.raced = TRUE] ELSE reader
      /\ UNCHANGED <<fetches, day, sync, lastCount, overlapped>>
  BY RankKeysMeaning DEF Lists!PosterSave
<1>2. k \in RankKeys(C) /\ n \in 0 .. fetches /\ stampOf \in [RankKeys(C) -> 0 .. fetches]
      /\ fetches \in Nat
  BY <1>1 DEF RankInv, RankTypes, Edits, NoJob
<1>3. RankTypes(C)'
  BY <1>1, <1>2 DEF RankInv, RankTypes, SyncJobs, Edits
<1>4. \A s \in Syncs \ overlapped' : sync'[s].at = "match" => Ahead(C, s)'
  BY <1>1, <1>2 DEF RankInv, Ahead, NoJob
<1>5. CASE stampOf[k] = n
  <2>1. stampOf' = stampOf /\ UNCHANGED <<mixed, reader>>
    BY <1>1, <1>2, <1>5
  <2>. QED BY <1>1, <1>2, <1>3, <1>4, <2>1, RankQuiet, ReaderWaits
<1>6. CASE stampOf[k] # n
  <2>1. \A b \in C \ {k.category} : /\ NoRows(C, b)' = NoRows(C, b)
                                    /\ \A m : LatestIs(C, b, m)' = LatestIs(C, b, m)
    BY <1>1, <1>2 DEF NoRows, LatestIs
  <2>2. ReaderSees(C)'
    <3>1. CASE reader.at = "rows" /\ reader.category = k.category
      BY <1>1, <1>6, <3>1 DEF RankInv, ReaderSees
    <3>2. CASE ~(reader.at = "rows" /\ reader.category = k.category)
      <4>1. reader' = reader
        BY <1>1, <3>2
      <4>2. reader.at = "rows" => reader.category \in C \ {k.category}
        BY <3>2 DEF RankInv, ReaderSees
      <4>3. reader.at = "rows" /\ ~reader.raced /\ reader.category \notin mixed'
              => LatestIs(C, reader.category, reader.stamp)'
        BY <1>1, <2>1, <4>2 DEF RankInv, ReaderSees
      <4>. QED BY <4>1, <4>2, <4>3 DEF RankInv, ReaderSees
    <3>. QED BY <3>1, <3>2
  <2>. QED BY <1>1, <1>3, <1>4, <1>6, <2>1, <2>2 DEF RankInv
<1>. QED BY <1>5, <1>6

\* The reader's own steps change nothing else.
LEMMA ReaderMoves ==
  ASSUME NEW C, RankInv(C), ReaderSees(C)',
         UNCHANGED <<stampOf, fetches, day, sync, edit, lastCount, overlapped, mixed>>
  PROVE  RankInv(C)'
<1>1. RankTypes(C)'
  BY DEF RankInv, RankTypes, SyncJobs, Edits
<1>2. \A s \in Syncs \ overlapped' : sync'[s].at = "match" => Ahead(C, s)'
  BY DEF RankInv, Ahead
<1>. QED BY <1>1, <1>2, RankQuiet DEF RankInv, RankTypes

\* The first query finds the stamp of the list saved last.
LEMMA FindLatestStep ==
  ASSUME NEW C, NEW M, RankInv(C), Lists(C, M)!FindLatest
  PROVE  RankInv(C)'
<1>1. PICK c \in C :
        /\ Lists(C, M)!RowsOf(c) # {}
        /\ reader' = [at |-> "rows", category |-> c, raced |-> FALSE,
                      stamp |-> Lists(C, M)!Max({stampOf[k] : k \in Lists(C, M)!RowsOf(c)})]
  BY DEF Lists!FindLatest
<1>2. UNCHANGED <<stampOf, fetches, day, sync, edit, lastCount, overlapped, mixed>>
  BY DEF Lists!FindLatest, Lists!table, Lists!saved
<1>3. ASSUME c \notin mixed
      PROVE  LatestIs(C, c, Lists(C, M)!Max({stampOf[k] : k \in Lists(C, M)!RowsOf(c)}))
  <2> DEFINE stamps == {stampOf[k] : k \in Lists(C, M)!RowsOf(c)}
  <2>1. ~NoRows(C, c)
    BY <1>1, RankKeysMeaning DEF NoRows, Lists!RowsOf
  <2>2. PICK n \in 1 .. fetches : LatestIs(C, c, n)
    BY <1>3, <2>1 DEF RankInv
  <2>3. PICK d \in 0 .. MaxDay : \A k \in RankKeys(C) : k.category = c =>
          /\ stampOf[k] <= n
          /\ stampOf[k] = n <=> k.date = d /\ k.rank <= lastCount[c]
    BY <2>2 DEF LatestIs
  <2>4. n \in stamps
    <3> DEFINE k == [category |-> c, rank |-> 1, date |-> d]
    <3>1. k \in RankKeys(C) /\ 1 <= lastCount[c]
      BY <2>2, RankingAssumption DEF RankKeys, LatestIs
    <3>2. stampOf[k] = n /\ n # 0
      BY <2>2, <2>3, <3>1 DEF LatestIs
    <3>3. k \in Lists(C, M)!RowsOf(c)
      BY <3>1, <3>2, RankKeysMeaning DEF Lists!RowsOf
    <3> HIDE DEF k
    <3>. QED BY <3>2, <3>3
  <2>5. \A m \in stamps : m <= n /\ m \in Nat
    BY <2>3, RankKeysMeaning DEF Lists!RowsOf, RankInv, RankTypes
  <2> HIDE DEF stamps
  <2>6. n = Lists(C, M)!Max(stamps)
    <3>1. \A m \in stamps : n >= m
      BY <2>4, <2>5
    <3>2. \A m \in stamps : (\A j \in stamps : m >= j) => m = n
      BY <2>4, <2>5
    <3>. QED BY <2>4, <3>1, <3>2 DEF Lists!Max
  <2>. QED BY <2>2, <2>6 DEF stamps
<1>4. ReaderSees(C)'
  <2>1. \A n : LatestIs(C, c, n)' = LatestIs(C, c, n)
    BY <1>2 DEF LatestIs
  <2>. QED BY <1>1, <1>2, <1>3, <2>1 DEF ReaderSees
<1>. QED BY <1>2, <1>4, ReaderMoves

\* The second one finds its rows, and takes the first of them.
LEMMA FindRowsStep ==
  ASSUME NEW C, NEW M, RankInv(C), Lists(C, M)!FindRows
  PROVE  RankInv(C)'
<1>0. PICK c, n : c = reader.category /\ n = reader.stamp
  OBVIOUS
<1> USE <1>0
<1> DEFINE ranks == {k.rank : k \in {l \in Lists(C, M)!RowsOf(c) : stampOf[l] = n}}
           taken == {i \in ranks : Lists(C, M)!Cardinality({j \in ranks : j <= i}) <= RankLimit}
<1>1. /\ reader.at = "rows"
      /\ reader' = [at |-> "answered", raced |-> reader.raced \/ c \in mixed,
                    count |-> lastCount[c], ranks |-> taken]
      /\ UNCHANGED <<stampOf, fetches, day, sync, edit, lastCount, overlapped, mixed>>
  BY DEF Lists!FindRows, Lists!table, Lists!saved
<1>2. ASSUME ~reader.raced, c \notin mixed
      PROVE  taken = 1 .. (IF lastCount[c] < RankLimit THEN lastCount[c] ELSE RankLimit)
  <2>1. LatestIs(C, c, n) /\ c \in C
    BY <1>1, <1>2 DEF RankInv, ReaderSees
  <2>2. PICK d \in 0 .. MaxDay : \A k \in RankKeys(C) : k.category = c =>
          (stampOf[k] = n <=> k.date = d /\ k.rank <= lastCount[c])
    BY <2>1 DEF LatestIs
  <2>3. lastCount[c] \in 1 .. MaxRank /\ n # 0
    BY <2>1 DEF LatestIs
  <2>4. ranks = 1 .. lastCount[c]
    <3>1. ASSUME NEW i \in ranks PROVE i \in 1 .. lastCount[c]
      <4>1. PICK k \in Lists(C, M)!RowsOf(c) : stampOf[k] = n /\ k.rank = i
        BY <3>1
      <4>2. k \in RankKeys(C) /\ k.category = c
        BY RankKeysMeaning DEF Lists!RowsOf
      <4>. QED BY <2>2, <2>3, <4>1, <4>2 DEF RankKeys
    <3>2. ASSUME NEW i \in 1 .. lastCount[c] PROVE i \in ranks
      <4> DEFINE k == [category |-> c, rank |-> i, date |-> d]
      <4>1. k \in RankKeys(C)
        BY <2>1, <2>3, RankingAssumption DEF RankKeys
      <4>2. stampOf[k] = n
        BY <2>2, <2>3, <4>1
      <4>3. k \in Lists(C, M)!RowsOf(c) /\ k.rank = i
        BY <2>3, <4>1, <4>2, RankKeysMeaning DEF Lists!RowsOf
      <4> HIDE DEF k
      <4>. QED BY <4>2, <4>3
    <3> HIDE DEF ranks
    <3>. QED BY <3>1, <3>2
  <2> HIDE DEF ranks
  <2>5. ASSUME NEW i \in 1 .. lastCount[c] PROVE Cardinality({j \in ranks : j <= i}) = i
    <3>1. {j \in ranks : j <= i} = 1 .. i
      BY <2>3, <2>4, RankingAssumption
    <3>2. Cardinality(1 .. i) = i
      BY <2>3, FS_Interval, RankingAssumption
    <3>. QED BY <3>1, <3>2
  <2>6. \A i \in 1 .. lastCount[c] : Lists(C, M)!Cardinality({j \in ranks : j <= i}) = i
    BY <2>5, RankKeysMeaning
  <2>. QED BY <2>3, <2>4, <2>6, RankingAssumption
<1>3. ReaderSees(C)'
  <2> HIDE DEF ranks, taken
  <2>. QED BY <1>1, <1>2 DEF ReaderSees
<1>. QED BY <1>1, <1>3, ReaderMoves

LEMMA ReaderLeavesStep ==
  ASSUME NEW C, NEW M, RankInv(C), Lists(C, M)!ReaderLeaves
  PROVE  RankInv(C)'
<1>1. reader' = NoJob
      /\ UNCHANGED <<stampOf, fetches, day, sync, edit, lastCount, overlapped, mixed>>
  BY RankKeysMeaning DEF Lists!ReaderLeaves, Lists!table, Lists!saved
<1>2. ReaderSees(C)'
  BY <1>1 DEF ReaderSees, NoJob
<1>. QED BY <1>1, <1>2, ReaderMoves

LEMMA RankStep ==
  ASSUME NEW C, NEW M, RankInv(C), [Lists(C, M)!Next]_ranking
  PROVE  RankInv(C)'
<1>1. CASE UNCHANGED ranking
  <2>1. ReaderSees(C)'
    BY <1>1, ReaderWaits DEF ranking
  <2>. QED BY <1>1, <2>1, ReaderMoves DEF ranking
<1>2. ASSUME NEW s \in Syncs, Lists(C, M)!Work(s) PROVE RankInv(C)'
  BY <1>2, FetchStep, MatchStep, SaveStep, FailStep DEF Lists!Work, Lists!SaveFails
<1>3. ASSUME NEW s \in Syncs, Lists(C, M)!BoxOfficeSync(s) \/ Lists(C, M)!TrendingSync(s)
      PROVE  RankInv(C)'
  BY <1>2, <1>3, StartStep DEF Lists!BoxOfficeSync, Lists!TrendingSync
<1>. QED BY <1>1, <1>3, DayStep, PosterReadStep, PosterSaveStep, FindLatestStep, FindRowsStep,
         ReaderLeavesStep DEF Lists!Next

LEMMA RankShows ==
  ASSUME NEW C, NEW M, RankInv(C)
  PROVE  Lists(C, M)!ListIsWhole
BY DEF RankInv, ReaderSees, Lists!ListIsWhole

RankingsInv ==
    /\ part = "box office" => RankInv(Weekly)
    /\ part = "trending" => RankInv(Trending)

\* A reader gets the ranks 1, 2, ... of the list that was saved last, although lists shrink,
\* dates change and it needs two queries, unless syncs of one category overlapped, an edit
\* wrote an old row back, or the list was written between its queries: for any number of
\* syncs, of ranks, of days and of fetches.
THEOREM ListAlwaysWhole == ServicesSpec => []ListIsWhole
<1>1. ServicesInit => RankingsInv
  <2> SUFFICES ASSUME ServicesInit PROVE RankingsInv
    OBVIOUS
  <2>1. CASE part = "box office"
    BY <2>1, RankInit DEF ServicesInit, RankingsInv
  <2>2. CASE part = "trending"
    BY <2>2, RankInit DEF ServicesInit, RankingsInv
  <2>. QED BY <2>1, <2>2 DEF RankingsInv
<1>2. RankingsInv /\ [ServicesNext]_<<part, backend>> => RankingsInv'
  <2> SUFFICES ASSUME RankingsInv, [ServicesNext]_<<part, backend>> PROVE RankingsInv'
    OBVIOUS
  <2>1. CASE part = "box office"
    <3>1. [Lists(Weekly, WeeklyFetches)!Next]_ranking
      BY <2>1, Frame
    <3>2. RankInv(Weekly)'
      BY <2>1, <3>1, RankStep DEF RankingsInv
    <3>. QED BY <2>1, <3>2, Frame DEF RankingsInv
  <2>2. CASE part = "trending"
    <3>1. [Lists(Trending, DailyFetches)!Next]_ranking
      BY <2>2, Frame
    <3>2. RankInv(Trending)'
      BY <2>2, <3>1, RankStep DEF RankingsInv
    <3>. QED BY <2>2, <3>2, Frame DEF RankingsInv
  <2>3. CASE part \notin {"box office", "trending"}
    BY <2>3, Frame DEF RankingsInv
  <2>. QED BY <2>1, <2>2, <2>3
<1>3. RankingsInv => ListIsWhole
  BY RankShows DEF RankingsInv, ListIsWhole
<1>. QED BY <1>1, <1>2, <1>3, PTL DEF ServicesSpec

-----------------------------------------------------------------------------
(* SocialSignup, for any social accounts A and nicknames N: sign-ins do not *)
(* disturb each other, and an account has one user, a nickname one owner.  *)

SignupPhases == {"home", "provider", "refused", "error", "done", "nickname", "ott",
           "provider-check", "nickname-check", "insert"}

SignupPage(A, N) ==
    [phase : SignupPhases, flow : Nat, token : A \cup {Nobody}, user : A \cup {Nobody},
     nickname : N \cup {Nobody}, status : {"idle", "checking", "available", "taken"},
     timer : BOOLEAN, checks : SUBSET (N \cup {Nobody}), signs : A \cup {Nobody}]

\* A state that is waited for has its cookie, or the cookie was used or expired; that
\* of a sign-in that went on, or was refused, is spent.
Waited(own) == <<own, own>> \in states \/ own \in spent

SignedInFollows(p, own) ==
    /\ p.phase = "provider" => Waited(own)
    /\ p.phase \notin {"home", "provider", "error"} => own \in spent

SignupInv(A, N) ==
    /\ page \in [Tabs -> SignupPage(A, N)]
    /\ signup \in A \cup {Nobody}
    /\ \A t \in Tabs : SignedInFollows(page[t], Signups(A, N)!StateOf(t))

LEMMA SignupInit ==
  ASSUME NEW A, NEW N, Signups(A, N)!Init
  PROVE  SignupInv(A, N)
BY DEF Signups!Init, SignupInv, SignupPage, SignupPhases, SignedInFollows, Signups!Blank

\* One page changes, and no state is forgotten that is not spent.
LEMMA SignupPageStep ==
  ASSUME NEW A, NEW N, SignupInv(A, N), NEW t \in Tabs, NEW q \in SignupPage(A, N),
         page' = [page EXCEPT ![t] = q],
         signup' \in A \cup {Nobody}, spent \subseteq spent',
         \A s \in states : s \in states' \/ s[2] \in spent',
         SignedInFollows(q, <<t, q.flow>>)'
  PROVE  SignupInv(A, N)'
<1>1. page' \in [Tabs -> SignupPage(A, N)] /\ page'[t] = q
      /\ \A u \in Tabs \ {t} : page'[u] = page[u]
  BY DEF SignupInv
<1>2. \A s : Waited(s) => Waited(s)'
  BY DEF Waited
<1>3. ASSUME NEW u \in Tabs \ {t} PROVE SignedInFollows(page[u], Signups(A, N)!StateOf(u))'
  BY <1>1, <1>2, <1>3 DEF SignupInv, SignedInFollows, Signups!StateOf
<1>4. SignedInFollows(page[t], Signups(A, N)!StateOf(t))'
  BY <1>1 DEF Signups!StateOf, SignedInFollows
<1>. QED BY <1>1, <1>3, <1>4 DEF SignupInv

\* A page that stays at or after the sign-in it has come back from.
LEMMA SignupOnwardStep ==
  ASSUME NEW A, NEW N, SignupInv(A, N), NEW t \in Tabs, NEW q \in SignupPage(A, N),
         page' = [page EXCEPT ![t] = q],
         q.flow = page[t].flow, page[t].phase \notin {"home", "provider", "error"},
         signup' \in A \cup {Nobody}, UNCHANGED <<states, spent>>
  PROVE  SignupInv(A, N)'
<1>1. <<t, q.flow>> \in spent
  BY DEF SignupInv, SignedInFollows, Signups!StateOf
<1>2. SignedInFollows(q, <<t, q.flow>>)'
  BY <1>1 DEF SignedInFollows, Waited
<1>. QED BY <1>2, SignupPageStep

\* The same when the phase stays and only what the modal shows changes.
LEMMA SignupModalPage ==
  ASSUME NEW A, NEW N, SignupInv(A, N), NEW t \in Tabs, NEW q \in SignupPage(A, N),
         page' = [page EXCEPT ![t] = q],
         q.flow = page[t].flow, q.phase = page[t].phase,
         UNCHANGED <<states, signup, spent>>
  PROVE  SignupInv(A, N)'
<1>1. SignedInFollows(q, <<t, q.flow>>)'
  BY DEF SignupInv, SignedInFollows, Waited, Signups!StateOf
<1>. QED BY <1>1, SignupPageStep DEF SignupInv

\* The redirect and the callback.
LEMMA SignupCallbackStep ==
  ASSUME NEW A, NEW N, SignupInv(A, N), NEW t \in Tabs,
         \/ Signups(A, N)!Begin(t) \/ Signups(A, N)!CallbackInvalid(t)
         \/ Signups(A, N)!CallbackFails(t) \/ Signups(A, N)!Replay(t)
         \/ Signups(A, N)!GoHome(t)
         \/ \E i \in A : Signups(A, N)!CallbackKnown(t, i) \/ Signups(A, N)!CallbackNew(t, i)
  PROVE  SignupInv(A, N)'
<1>0. page \in [Tabs -> SignupPage(A, N)] /\ page[t] \in SignupPage(A, N)
      /\ SignedInFollows(page[t], Signups(A, N)!StateOf(t))
      /\ signup \in A \cup {Nobody}
  BY DEF SignupInv
<1>1. CASE Signups(A, N)!Begin(t)
  <2> DEFINE q == [page[t] EXCEPT !.phase = "provider", !.flow = @ + 1]
  <2>1. q \in SignupPage(A, N) /\ q.phase = "provider" /\ q.flow = page[t].flow + 1
    <3>1. page[t].flow + 1 \in Nat
      BY <1>0 DEF SignupPage
    <3>2. \A n \in Nat : [page[t] EXCEPT !.phase = "provider",
        !.flow = n] \in SignupPage(A, N)
      BY <1>0 DEF SignupPage, SignupPhases
    <3>. QED BY <1>0, <3>1, <3>2 DEF SignupPage
  <2>2. page' = [page EXCEPT ![t] = q]
    BY <1>0, <1>1 DEF Signups!Begin, SignupPage
  <2> HIDE DEF q
  <2>3. <<<<t, q.flow>>, <<t, q.flow>>>> \in states'
    BY <1>1, <2>1 DEF Signups!Begin, Signups!SetState, Signups!StateName
  <2>4. page' \in [Tabs -> SignupPage(A, N)] /\ page'[t] = q
        /\ \A u \in Tabs \ {t} : page'[u] = page[u]
    BY <1>0, <2>1, <2>2
  <2>5. \A u \in Tabs \ {t} : Signups(A, N)!StateOf(u)' = Signups(A, N)!StateOf(u)
        /\ (Waited(Signups(A, N)!StateOf(u)) => Waited(Signups(A, N)!StateOf(u))')
    BY <1>1, <2>4 DEF Signups!Begin, Signups!SetState, Signups!StateName, Signups!StateOf,
         Waited
  <2>6. \A u \in Tabs \ {t} : SignedInFollows(page[u], Signups(A, N)!StateOf(u))'
    BY <1>1, <2>4, <2>5 DEF SignupInv, SignedInFollows, Signups!Begin
  <2>7. SignedInFollows(page[t], Signups(A, N)!StateOf(t))'
    BY <2>1, <2>3, <2>4 DEF SignedInFollows, Signups!StateOf, Waited
  <2>. QED BY <1>0, <1>1, <2>4, <2>6, <2>7 DEF SignupInv, Signups!Begin
<1>2. CASE Signups(A, N)!CallbackInvalid(t)
  <2>1. PICK q \in SignupPage(A, N) : /\ page' = [page EXCEPT ![t] = q]
                          /\ q.phase = "refused" /\ q.flow = page[t].flow
    <3>1. [page[t] EXCEPT !.phase = "refused"] \in SignupPage(A, N)
      BY <1>0 DEF SignupPage, SignupPhases
    <3>. QED BY <1>0, <1>2, <3>1 DEF Signups!CallbackInvalid, SignupPage
  <2>2. Signups(A, N)!StateOf(t) \in spent
    BY <1>0, <1>2 DEF Signups!CallbackInvalid, Signups!Verified, Signups!StateName,
         SignedInFollows, Waited
  <2>3. SignedInFollows(q, <<t, q.flow>>)'
    BY <1>2, <2>1, <2>2 DEF SignedInFollows, Signups!StateOf, Signups!CallbackInvalid
  <2>. QED BY <1>0, <1>2, <2>1, <2>3, SignupPageStep DEF Signups!CallbackInvalid
<1>3. CASE Signups(A, N)!CallbackFails(t)
  <2>1. PICK q \in SignupPage(A, N) : page' = [page EXCEPT ![t] = q] /\ q.phase = "error"
    <3>1. [page[t] EXCEPT !.phase = "error"] \in SignupPage(A, N)
      BY <1>0 DEF SignupPage, SignupPhases
    <3>. QED BY <1>0, <1>3, <3>1 DEF Signups!CallbackFails, SignupPage
  <2>2. SignedInFollows(q, <<t, q.flow>>)'
    BY <2>1 DEF SignedInFollows
  <2>3. spent \subseteq spent' /\ \A s \in states : s \in states' \/ s[2] \in spent'
    BY <1>3 DEF Signups!CallbackFails, Signups!Spend
  <2>. QED BY <1>0, <1>3, <2>1, <2>2, <2>3, SignupPageStep DEF Signups!CallbackFails
<1>4. ASSUME NEW q \in SignupPage(A, N), page' = [page EXCEPT ![t] = q],
             q.flow = page[t].flow,
             signup' \in A \cup {Nobody}, Signups(A, N)!Spend(t)
      PROVE  SignupInv(A, N)'
  <2>1. spent \subseteq spent' /\ \A s \in states : s \in states' \/ s[2] \in spent'
    BY <1>4 DEF Signups!Spend
  <2>2. SignedInFollows(q, <<t, q.flow>>)'
    BY <1>4 DEF Signups!Spend, Signups!StateOf, SignedInFollows, Waited
  <2>. QED BY <1>4, <2>1, <2>2, SignupPageStep
<1>5. ASSUME NEW i \in A, Signups(A, N)!CallbackKnown(t, i) PROVE SignupInv(A, N)'
  <2> DEFINE q == [page[t] EXCEPT !.phase = "done", !.user = i]
  <2>1. q \in SignupPage(A, N) /\ q.flow = page[t].flow
    BY <1>0 DEF SignupPage, SignupPhases
  <2>2. page' = [page EXCEPT ![t] = q]
    BY <1>0, <1>5 DEF Signups!CallbackKnown
  <2>. QED BY <1>4, <1>5, <2>1, <2>2 DEF Signups!CallbackKnown
<1>6. ASSUME NEW i \in A, Signups(A, N)!CallbackNew(t, i) PROVE SignupInv(A, N)'
  <2> DEFINE q == [page[t] EXCEPT !.phase = "nickname", !.token = i]
  <2>1. q \in SignupPage(A, N) /\ q.flow = page[t].flow
    BY <1>0 DEF SignupPage, SignupPhases
  <2>2. page' = [page EXCEPT ![t] = q]
    BY <1>0, <1>6 DEF Signups!CallbackNew
  <2>. QED BY <1>4, <1>6, <2>1, <2>2 DEF Signups!CallbackNew
<1>7. CASE Signups(A, N)!Replay(t)
  <2> DEFINE q == [Signups(A, N)!Blank EXCEPT !.phase = "provider", !.flow = page[t].flow,
                                !.token = page[t].token]
  <2>1. q \in SignupPage(A, N) /\ q.flow = page[t].flow
    BY <1>0 DEF SignupPage, SignupPhases, Signups!Blank
  <2>. QED BY <1>0, <1>7, <2>1, SignupOnwardStep DEF Signups!Replay
<1>8. CASE Signups(A, N)!GoHome(t)
  <2> DEFINE q == [Signups(A, N)!Blank EXCEPT !.flow = page[t].flow,
      !.token = page[t].token]
  <2>1. q \in SignupPage(A, N) /\ q.flow = page[t].flow
    BY <1>0 DEF SignupPage, SignupPhases, Signups!Blank
  <2>. QED BY <1>0, <1>8, <2>1, SignupOnwardStep DEF Signups!GoHome
<1>. QED BY <1>1, <1>2, <1>3, <1>5, <1>6, <1>7, <1>8

\* The nickname modal.
LEMMA SignupModalStep ==
  ASSUME NEW A, NEW N, SignupInv(A, N), NEW t \in Tabs,
         \/ Signups(A, N)!SendCheck(t) \/ Signups(A, N)!NextStep(t)
         \/ Signups(A, N)!BackToNickname(t)
         \/ \E name \in N : \/ Signups(A, N)!Type(t, name)
                            \/ Signups(A, N)!CheckAnswered(t, name)
  PROVE  SignupInv(A, N)'
<1>0. page \in [Tabs -> SignupPage(A, N)] /\ page[t] \in SignupPage(A, N)
      /\ signup \in A \cup {Nobody}
  BY DEF SignupInv
<1>1. CASE Signups(A, N)!SendCheck(t)
  <2> DEFINE q == [page[t] EXCEPT !.timer = FALSE, !.checks = @ \cup {page[t].nickname}]
  <2>1. q \in SignupPage(A, N) /\ q.flow = page[t].flow /\ q.phase = page[t].phase
    BY <1>0 DEF SignupPage
  <2>2. page' = [page EXCEPT ![t] = q]
    BY <1>0, <1>1 DEF Signups!SendCheck
  <2>. QED BY <1>1, <2>1, <2>2, SignupModalPage DEF Signups!SendCheck
<1>2. CASE Signups(A, N)!NextStep(t)
  <2> DEFINE q == [page[t] EXCEPT !.phase = "ott"]
  <2>1. q \in SignupPage(A, N) /\ q.flow = page[t].flow
    BY <1>0 DEF SignupPage, SignupPhases
  <2>2. page' = [page EXCEPT ![t] = q]
    BY <1>0, <1>2 DEF Signups!NextStep
  <2>. QED BY <1>0, <1>2, <2>1, <2>2, SignupOnwardStep DEF Signups!NextStep
<1>3. CASE Signups(A, N)!BackToNickname(t)
  <2> DEFINE q == [page[t] EXCEPT !.phase = "nickname"]
  <2>1. q \in SignupPage(A, N) /\ q.flow = page[t].flow
    BY <1>0 DEF SignupPage, SignupPhases
  <2>2. page' = [page EXCEPT ![t] = q]
    BY <1>0, <1>3 DEF Signups!BackToNickname
  <2>. QED BY <1>0, <1>3, <2>1, <2>2, SignupOnwardStep DEF Signups!BackToNickname
<1>4. ASSUME NEW name \in N, Signups(A, N)!Type(t, name) PROVE SignupInv(A, N)'
  <2> DEFINE q == [page[t] EXCEPT !.nickname = name, !.status = "checking", !.timer = TRUE]
  <2>1. q \in SignupPage(A, N) /\ q.flow = page[t].flow /\ q.phase = page[t].phase
    BY <1>0 DEF SignupPage
  <2>2. page' = [page EXCEPT ![t] = q]
    BY <1>0, <1>4 DEF Signups!Type
  <2>. QED BY <1>4, <2>1, <2>2, SignupModalPage DEF Signups!Type
<1>5. ASSUME NEW name \in N, Signups(A, N)!CheckAnswered(t, name) PROVE SignupInv(A, N)'
  <2>1. PICK answer :
        /\ answer \in {IF Signups(A, N)!Taken(name) THEN "taken" ELSE "available", "idle"}
                      /\ page' = [page EXCEPT ![t].checks = @ \ {name},
                          ![t].status = answer]
    BY <1>5 DEF Signups!CheckAnswered
  <2>2. answer \in {"taken", "available", "idle"}
    BY <2>1
  <2> DEFINE q == [page[t] EXCEPT !.checks = @ \ {name}, !.status = answer]
  <2>3. q.flow = page[t].flow /\ q.phase = page[t].phase
    BY <1>0 DEF SignupPage
  <2>4. q \in SignupPage(A, N)
    <3>1. page[t].checks \ {name} \in SUBSET (N \cup {Nobody})
      BY <1>0 DEF SignupPage
    <3>2. \A c \in SUBSET (N \cup {Nobody}) :
            [page[t] EXCEPT !.checks = c, !.status = answer] \in SignupPage(A, N)
      BY <1>0, <2>2 DEF SignupPage
    <3>. QED BY <3>1, <3>2
  <2>5. page' = [page EXCEPT ![t] = q]
    BY <1>0, <2>1 DEF SignupPage
  <2>. QED BY <1>5, <2>3, <2>4, <2>5, SignupModalPage DEF Signups!CheckAnswered
<1>. QED BY <1>1, <1>2, <1>3, <1>4, <1>5

\* Completing the sign-up.
LEMMA SignupCompletionStep ==
  ASSUME NEW A, NEW N, SignupInv(A, N), NEW t \in Tabs,
         \/ Signups(A, N)!Submit(t) \/ Signups(A, N)!CheckIdentity(t)
         \/ Signups(A, N)!CheckNickname(t) \/ Signups(A, N)!Insert(t)
  PROVE  SignupInv(A, N)'
<1>0. page \in [Tabs -> SignupPage(A, N)] /\ page[t] \in SignupPage(A, N)
      /\ signup \in A \cup {Nobody}
  BY DEF SignupInv
<1>1. ASSUME NEW phase \in SignupPhases, NEW signs \in A \cup {Nobody},
             page' = [page EXCEPT ![t] = [page[t] EXCEPT !.phase = phase, !.signs = signs]],
             page[t].phase \notin {"home", "provider", "error"},
             signup' \in A \cup {Nobody}, UNCHANGED <<states, spent>>
      PROVE  SignupInv(A, N)'
  <2> DEFINE q == [page[t] EXCEPT !.phase = phase, !.signs = signs]
  <2>1. q \in SignupPage(A, N) /\ q.flow = page[t].flow
    BY <1>0 DEF SignupPage
  <2>. QED BY <1>1, <2>1, SignupOnwardStep
<1>2. CASE Signups(A, N)!Submit(t)
  <2>1. \E signs \in A \cup {Nobody} :
          page' = [page EXCEPT ![t] = [page[t] EXCEPT !.phase = "provider-check",
              !.signs = signs]]
    BY <1>0, <1>2 DEF Signups!Submit, SignupPage
  <2>. QED BY <1>0, <1>1, <1>2, <2>1 DEF Signups!Submit, SignupPhases
<1>3. ASSUME Signups(A, N)!Refuse(t), page[t].phase \notin {"home", "provider",
             "error"} PROVE SignupInv(A, N)'
  <2>1. page' = [page EXCEPT ![t] = [page[t] EXCEPT !.phase = "ott", !.signs = Nobody]]
    BY <1>0, <1>3 DEF Signups!Refuse
  <2>. QED BY <1>1, <1>3, <2>1 DEF Signups!Refuse, SignupPhases
<1>4. ASSUME NEW phase \in SignupPhases, page' = [page EXCEPT ![t].phase = phase],
             page[t].phase \notin {"home", "provider", "error"},
             UNCHANGED <<states, signup, spent>>
      PROVE  SignupInv(A, N)'
  <2> DEFINE q == [page[t] EXCEPT !.phase = phase]
  <2>1. q \in SignupPage(A, N) /\ q.flow = page[t].flow
    BY <1>0 DEF SignupPage
  <2>2. page' = [page EXCEPT ![t] = q]
    BY <1>0, <1>4
  <2>. QED BY <1>0, <1>4, <2>1, <2>2, SignupOnwardStep
<1>5. CASE Signups(A, N)!CheckIdentity(t)
  BY <1>3, <1>4, <1>5 DEF Signups!CheckIdentity, SignupPhases
<1>6. CASE Signups(A, N)!CheckNickname(t)
  BY <1>3, <1>4, <1>6 DEF Signups!CheckNickname, SignupPhases
<1>7. CASE Signups(A, N)!Insert(t)
  <2>1. CASE ~Signups(A, N)!Insertable(t)
    BY <1>3, <1>7, <2>1 DEF Signups!Insert
  <2>2. CASE Signups(A, N)!Insertable(t)
    <3> DEFINE q == [Signups(A, N)!Blank EXCEPT !.phase = "done", !.flow = page[t].flow,
                                  !.user = page[t].signs]
    <3>1. q \in SignupPage(A, N) /\ q.flow = page[t].flow
      BY <1>0 DEF SignupPage, SignupPhases, Signups!Blank
    <3>. QED BY <1>0, <1>7, <2>2, <3>1, SignupOnwardStep DEF Signups!Insert
  <2>. QED BY <2>1, <2>2
<1>. QED BY <1>2, <1>5, <1>6, <1>7

LEMMA SignupStep ==
  ASSUME NEW A, NEW N
  PROVE  SignupInv(A, N) /\ [Signups(A, N)!Next]_signups => SignupInv(A, N)'
<1> SUFFICES ASSUME SignupInv(A, N), [Signups(A, N)!Next]_signups PROVE SignupInv(A, N)'
  OBVIOUS
<1>1. ASSUME UNCHANGED page, signup' \in A \cup {Nobody}, spent \subseteq spent',
             \A s \in states : s \in states' \/ s[2] \in spent'
      PROVE  SignupInv(A, N)'
  BY <1>1 DEF SignupInv, SignedInFollows, Waited, Signups!StateOf
<1>2. ASSUME NEW c \in states, Signups(A, N)!StateExpires(c) PROVE SignupInv(A, N)'
  BY <1>1, <1>2 DEF Signups!StateExpires, SignupInv
<1>3. ASSUME NEW i \in A, Signups(A, N)!SignupExpires(i) PROVE SignupInv(A, N)'
  BY <1>1, <1>3 DEF Signups!SignupExpires, SignupInv
<1>4. CASE UNCHANGED signups
  BY <1>1, <1>4 DEF signups, SignupInv
<1>. QED BY <1>2, <1>3, <1>4, SignupCallbackStep, SignupModalStep, SignupCompletionStep
         DEF Signups!Next

\* Each sign-in has a state cookie of its own, and a callback is refused only when that
\* one was used or expired.
LEMMA SignupFlows ==
  ASSUME NEW A, NEW N
  PROVE  SignupInv(A, N) => Signups(A, N)!FlowsIndependent
BY DEF SignupInv, SignedInFollows, Signups!FlowsIndependent

\* The insertion keeps both uniqueness constraints, and nothing else adds a user.
LEMMA SignupUniqueStep ==
  ASSUME NEW A, NEW N, Signups(A, N)!OneAccountEach, [Signups(A, N)!Next]_signups
  PROVE  Signups(A, N)!OneAccountEach'
<1>1. ASSUME NEW t \in Tabs, Signups(A, N)!Insert(t) PROVE Signups(A, N)!OneAccountEach'
  BY <1>1 DEF Signups!Insert, Signups!Insertable, Signups!Registered, Signups!Taken,
          Signups!Refuse, Signups!OneAccountEach
<1>2. CASE UNCHANGED users
  BY <1>2 DEF Signups!OneAccountEach
<1>. QED BY <1>1, <1>2 DEF Signups!Next, signups, Signups!Begin, Signups!CallbackInvalid,
         Signups!CallbackFails, Signups!Replay, Signups!GoHome, Signups!SendCheck,
         Signups!NextStep, Signups!BackToNickname, Signups!Submit, Signups!CheckIdentity,
         Signups!CheckNickname, Signups!Refuse, Signups!CallbackKnown, Signups!CallbackNew,
         Signups!Type, Signups!CheckAnswered, Signups!StateExpires, Signups!SignupExpires

LEMMA SignupUnique ==
  ASSUME NEW A, NEW N, Signups(A, N)!Init
  PROVE  Signups(A, N)!OneAccountEach
BY DEF Signups!Init, Signups!OneAccountEach

\* What holds of the sign-ups of accounts A among nicknames N.
SignedUp(A, N) == SignupInv(A, N) /\ Signups(A, N)!OneAccountEach

LEMMA SignedUpStep ==
  ASSUME NEW A, NEW N, SignedUp(A, N), [Signups(A, N)!Next]_signups
  PROVE  SignedUp(A, N)'
BY SignupStep, SignupUniqueStep DEF SignedUp

SignupsInv ==
    /\ part = "two persons" => SignedUp(Identities, OneNickname)
    /\ part = "one person" => SignedUp(OneIdentity, Nicknames)

\* However sign-ups interleave, an identity has one account and a nickname one owner; and
\* no sign-in is refused because of one in another tab.
THEOREM AlwaysOneAccountEach == ServicesSpec => []OneAccountEach
<1>1. ServicesInit => SignupsInv
  <2> SUFFICES ASSUME ServicesInit PROVE SignupsInv
    OBVIOUS
  <2>1. CASE part = "two persons"
    BY <2>1, SignupInit, SignupUnique DEF ServicesInit, SignupsInv, SignedUp
  <2>2. CASE part = "one person"
    BY <2>2, SignupInit, SignupUnique DEF ServicesInit, SignupsInv, SignedUp
  <2>. QED BY <2>1, <2>2 DEF SignupsInv
<1>2. SignupsInv /\ [ServicesNext]_<<part, backend>> => SignupsInv'
  <2> SUFFICES ASSUME SignupsInv, [ServicesNext]_<<part, backend>> PROVE SignupsInv'
    OBVIOUS
  <2>1. CASE part = "two persons"
    <3>1. [Signups(Identities, OneNickname)!Next]_signups
      BY <2>1, Frame
    <3>2. SignedUp(Identities, OneNickname)'
      BY <2>1, <3>1, SignedUpStep DEF SignupsInv
    <3>. QED BY <2>1, <3>2, Frame DEF SignupsInv
  <2>2. CASE part = "one person"
    <3>1. [Signups(OneIdentity, Nicknames)!Next]_signups
      BY <2>2, Frame
    <3>2. SignedUp(OneIdentity, Nicknames)'
      BY <2>2, <3>1, SignedUpStep DEF SignupsInv
    <3>. QED BY <2>2, <3>2, Frame DEF SignupsInv
  <2>3. CASE part \notin {"two persons", "one person"}
    BY <2>3, Frame DEF SignupsInv
  <2>. QED BY <2>1, <2>2, <2>3
<1>3. SignupsInv => OneAccountEach
  BY SignupFlows DEF SignupsInv, SignedUp, OneAccountEach
<1>. QED BY <1>1, <1>2, <1>3, PTL DEF ServicesSpec

-----------------------------------------------------------------------------
(* PersonCatalog: the bytes that are counted are those of the entries.      *)

PersonEntry == [key : Persons, size : Nat, young : BOOLEAN]

\* g gives the bytes of the first entries.
IsSum(g, s) == g = [i \in 0 .. Len(s) |-> IF i = 0 THEN 0 ELSE g[i - 1] + s[i].size]

LEMMA TotalRuns ==
  ASSUME NEW s, Len(s) \in Nat
  PROVE  \E g : IsSum(g, s) /\ People!Total(s) = g[Len(s)]
<1> DEFINE Runs(n, g) == g = [i \in 0 .. n |-> IF i = 0 THEN 0 ELSE g[i - 1] + s[i].size]
           S == {n \in Nat : \E g : Runs(n, g)}
<1>1. 0 \in S
  <2>1. Runs(0, [i \in 0 .. 0 |-> 0])
    OBVIOUS
  <2>. QED BY <2>1
<1>2. ASSUME NEW n \in Nat, n \in S PROVE n + 1 \in S
  <2>1. PICK g : Runs(n, g)
    BY <1>2
  <2> DEFINE h == [i \in 0 .. n + 1 |-> IF i = n + 1 THEN g[n] + s[i].size ELSE g[i]]
  <2>2. ASSUME NEW i \in 0 .. n + 1
        PROVE  h[i] = IF i = 0 THEN 0 ELSE h[i - 1] + s[i].size
    <3>1. CASE i \in 0 .. n
      <4>1. g[i] = IF i = 0 THEN 0 ELSE g[i - 1] + s[i].size
        BY <2>1, <3>1
      <4>2. h[i] = g[i] /\ (i # 0 => h[i - 1] = g[i - 1])
        BY <3>1
      <4>. QED BY <4>1, <4>2
    <3>2. CASE i = n + 1
      <4>1. h[i - 1] = g[n] /\ i # 0
        BY <3>2
      <4>. QED BY <3>2, <4>1
    <3>. QED BY <3>1, <3>2
  <2>3. Runs(n + 1, h)
    <3>1. h = [i \in 0 .. n + 1 |-> h[i]]
      OBVIOUS
    <3> HIDE DEF h
    <3>. QED BY <2>2, <3>1
  <2>. HIDE DEF Runs
  <2>. QED BY <2>3
<1>3. Len(s) \in S
  <2> HIDE DEF S
  <2>. QED BY <1>1, <1>2, SetInduction
<1>4. PICK g : IsSum(g, s)
  BY <1>3 DEF IsSum
<1> DEFINE k == CHOOSE f :
                  f = [i \in 0 .. Len(s) |-> IF i = 0 THEN 0 ELSE f[i - 1] + s[i].size]
<1>5. IsSum(k, s)
  BY <1>4 DEF IsSum
<1>6. People!Total(s) = k[Len(s)]
  BY DEF People!Total
<1> HIDE DEF k
<1>. QED BY <1>5, <1>6

LEMMA TotalEmpty == People!Total(<<>>) = 0
<1>1. Len(<<>>) = 0
  OBVIOUS
<1>2. PICK g : IsSum(g, <<>>) /\ People!Total(<<>>) = g[Len(<<>>)]
  BY <1>1, TotalRuns
<1>3. g[0] = 0
  BY <1>1, <1>2 DEF IsSum
<1>. QED BY <1>1, <1>2, <1>3

LEMMA TotalAppend ==
  ASSUME NEW X, NEW s \in Seq(X), NEW x \in X
  PROVE  People!Total(Append(s, x)) = People!Total(s) + x.size
<1> DEFINE t == Append(s, x)
           n == Len(s)
<1>1. /\ Len(t) = n + 1 /\ n \in Nat /\ t[n + 1] = x
      /\ \A i \in 1 .. n : t[i] = s[i]
  OBVIOUS
<1> HIDE DEF t
<1>2. PICK g : IsSum(g, t) /\ People!Total(t) = g[n + 1]
  <2>1. \E g : IsSum(g, t) /\ People!Total(t) = g[Len(t)]
    BY <1>1, TotalRuns
  <2>. QED BY <1>1, <2>1
<1>3. PICK h : IsSum(h, s) /\ People!Total(s) = h[n]
  BY <1>1, TotalRuns
<1> DEFINE S == {m \in Nat : m <= n => g[m] = h[m]}
<1>4. 0 \in S
  <2>1. g[0] = 0 /\ h[0] = 0
    BY <1>1, <1>2, <1>3 DEF IsSum
  <2>. QED BY <2>1
<1>5. ASSUME NEW m \in Nat, m \in S PROVE m + 1 \in S
  <2>1. SUFFICES ASSUME m + 1 <= n PROVE g[m + 1] = h[m + 1]
    OBVIOUS
  <2>2. /\ m + 1 \in 0 .. Len(t) /\ m + 1 \in 0 .. Len(s) /\ m + 1 # 0 /\ (m + 1) - 1 = m
        /\ g[m] = h[m] /\ t[m + 1] = s[m + 1]
    BY <1>1, <1>5, <2>1
  <2>3. g[m + 1] = g[m] + t[m + 1].size /\ h[m + 1] = h[m] + s[m + 1].size
    BY <1>2, <1>3, <2>2 DEF IsSum
  <2>. QED BY <2>2, <2>3
<1>6. g[n] = h[n]
  <2>1. n \in S
    <3> HIDE DEF S
    <3>. QED BY <1>1, <1>4, <1>5, SetInduction
  <2>. QED BY <2>1
<1>7. g[n + 1] = g[n] + t[n + 1].size
  <2>1. n + 1 \in 0 .. Len(t) /\ n + 1 # 0 /\ (n + 1) - 1 = n
    BY <1>1
  <2>. QED BY <1>2, <2>1 DEF IsSum
<1>. QED BY <1>1, <1>2, <1>3, <1>6, <1>7 DEF t

LEMMA TotalNat ==
  ASSUME NEW s \in Seq(PersonEntry)
  PROVE  People!Total(s) \in Nat
<1> DEFINE S == {t \in Seq(PersonEntry) : People!Total(t) \in Nat}
<1>1. <<>> \in S
  BY TotalEmpty
<1>2. ASSUME NEW f \in Seq(PersonEntry), NEW x \in PersonEntry, f \in S
      PROVE  Append(f, x) \in S
  <2>1. x.size \in Nat /\ Append(f, x) \in Seq(PersonEntry)
    BY DEF PersonEntry
  <2>. QED BY <1>2, <2>1, TotalAppend
<1>3. s \in S
  <2> HIDE DEF S
  <2>. QED BY <1>1, <1>2, ListInduction
<1>. QED BY <1>3

\* What a filter keeps and what it drops are the whole, in bytes and in number.
LEMMA KeepSplits ==
  ASSUME NEW s \in Seq(PersonEntry), NEW I, NEW J,
         \A i \in 1 .. Len(s) : i \in I <=> i \notin J
  PROVE  /\ People!Total(Keep(s, I)) + People!Total(Keep(s, J)) = People!Total(s)
         /\ Len(Keep(s, I)) + Len(Keep(s, J)) = Len(s)
<1> DEFINE Whole(t) == /\ People!Total(Keep(t, I)) + People!Total(Keep(t, J)) = People!Total(t)
                       /\ Len(Keep(t, I)) + Len(Keep(t, J)) = Len(t)
           S == {t \in Seq(PersonEntry) :
                   (\A i \in 1 .. Len(t) : i \in I <=> i \notin J) => Whole(t)}
<1>1. <<>> \in S
  <2>1. <<>> \in Seq(PersonEntry) /\ Len(<<>>) = 0
    OBVIOUS
  <2>2. Whole(<<>>)
    BY <2>1, KeepEmpty, TotalEmpty
  <2>. QED BY <2>1, <2>2
<1>2. ASSUME NEW f \in Seq(PersonEntry), NEW x \in PersonEntry, f \in S
      PROVE  Append(f, x) \in S
  <2> DEFINE n == Len(f)
             t == Append(f, x)
  <2>1. /\ t \in Seq(PersonEntry) /\ Len(t) = n + 1 /\ n \in Nat /\ x.size \in Nat
    BY DEF PersonEntry
  <2>2. SUFFICES ASSUME \A i \in 1 .. n + 1 : i \in I <=> i \notin J
                 PROVE  Whole(t)
    BY <2>1
  <2>3. Whole(f)
    BY <1>2, <2>1, <2>2
  <2>4. n + 1 \in I <=> n + 1 \notin J
    BY <2>1, <2>2
  <2>5. /\ Keep(f, I) \in Seq(PersonEntry) /\ Keep(f, J) \in Seq(PersonEntry)
        /\ People!Total(Keep(f, I)) \in Nat /\ People!Total(Keep(f, J)) \in Nat
    BY KeepPicks, TotalNat
  <2>6. People!Total(t) = People!Total(f) + x.size
    BY TotalAppend
  <2>7. CASE n + 1 \in I
    <3>1. Keep(t, I) = Append(Keep(f, I), x) /\ Keep(t, J) = Keep(f, J)
      BY <2>4, <2>7, KeepAppend
    <3>2. People!Total(Keep(t, I)) = People!Total(Keep(f, I)) + x.size
      BY <2>5, <3>1, TotalAppend
    <3>3. Len(Keep(t, I)) = Len(Keep(f, I)) + 1 /\ Len(Keep(f, I)) \in Nat /\ Len(Keep(f, J)) \in Nat
      BY <2>5, <3>1
    <3> HIDE DEF t
    <3>. QED BY <2>1, <2>3, <2>5, <2>6, <3>1, <3>2, <3>3
  <2>8. CASE n + 1 \in J
    <3>1. Keep(t, J) = Append(Keep(f, J), x) /\ Keep(t, I) = Keep(f, I)
      BY <2>4, <2>8, KeepAppend
    <3>2. People!Total(Keep(t, J)) = People!Total(Keep(f, J)) + x.size
      BY <2>5, <3>1, TotalAppend
    <3>3. Len(Keep(t, J)) = Len(Keep(f, J)) + 1 /\ Len(Keep(f, I)) \in Nat /\ Len(Keep(f, J)) \in Nat
      BY <2>5, <3>1
    <3> HIDE DEF t
    <3>. QED BY <2>1, <2>3, <2>5, <2>6, <3>1, <3>2, <3>3
  <2>. QED BY <2>4, <2>7, <2>8
<1>3. s \in S
  <2> HIDE DEF S
  <2>. QED BY <1>1, <1>2, ListInduction
<1>. QED BY <1>3

LEMMA TotalConcat ==
  ASSUME NEW a \in Seq(PersonEntry), NEW b \in Seq(PersonEntry)
  PROVE  People!Total(a \o b) = People!Total(a) + People!Total(b)
<1> DEFINE S == {t \in Seq(PersonEntry) :
                   People!Total(a \o t) = People!Total(a) + People!Total(t)}
<1>1. <<>> \in S
  <2>1. a \o <<>> = a /\ <<>> \in Seq(PersonEntry)
    OBVIOUS
  <2>2. People!Total(a) \in Nat
    BY TotalNat
  <2>. QED BY <2>1, <2>2, TotalEmpty
<1>2. ASSUME NEW f \in Seq(PersonEntry), NEW x \in PersonEntry, f \in S
      PROVE  Append(f, x) \in S
  <2>1. Append(f, x) \in Seq(PersonEntry) /\ a \o f \in Seq(PersonEntry)
    OBVIOUS
  <2>2. a \o Append(f, x) = Append(a \o f, x)
    OBVIOUS
  <2>3. /\ People!Total(Append(f, x)) = People!Total(f) + x.size
        /\ People!Total(Append(a \o f, x)) = People!Total(a \o f) + x.size
    BY <2>1, TotalAppend
  <2>4. /\ People!Total(a) \in Nat /\ People!Total(f) \in Nat /\ x.size \in Nat
        /\ People!Total(a \o f) = People!Total(a) + People!Total(f)
    BY <1>2, <2>1, TotalNat DEF PersonEntry
  <2>5. People!Total(a \o Append(f, x)) = People!Total(a \o f) + x.size
    BY <2>2, <2>3
  <2>6. People!Total(a \o Append(f, x)) = People!Total(a) + People!Total(Append(f, x))
    BY <2>3, <2>4, <2>5
  <2>. QED BY <2>1, <2>6
<1>3. b \in S
  <2> HIDE DEF S
  <2>. QED BY <1>1, <1>2, ListInduction
<1>. QED BY <1>3

\* What is left when there is room fits, and is a part of what there was.
LEMMA RoomFits ==
  ASSUME NEW s \in Seq(PersonEntry), OneEach(s), NEW size \in Nat, size <= MaxBytes
  PROVE  /\ People!Room(s, size) \in Seq(PersonEntry) /\ OneEach(People!Room(s, size))
         /\ \A i \in 1 .. Len(People!Room(s, size)) :
              \E m \in 1 .. Len(s) : People!Room(s, size)[i] = s[m]
         /\ Len(People!Room(s, size)) < PersonEntries
         /\ People!Total(People!Room(s, size)) + size <= MaxBytes
<1> DEFINE Stops(n) == People!Fits(People!After(s, n), size) \/ n = Len(s)
           Least(n) == Stops(n) /\ \A m \in 0 .. n - 1 : ~People!Fits(People!After(s, m), size)
           B == {n \in 0 .. Len(s) : Stops(n)}
           R == {p \in Nat \X Nat : p[1] < p[2]}
           k == CHOOSE n \in 0 .. Len(s) : Least(n)
           rest == People!After(s, k)
<1>0. Len(s) \in Nat /\ MaxBytes \in Nat /\ PersonEntries \in Nat \ {0}
  BY PersonAssumption
<1>1. \E n \in 0 .. Len(s) : Least(n)
  <2>1. Len(s) \in B /\ B \subseteq Nat
    BY <1>0
  <2>2. \E x \in B : \A y \in B : ~(<<y, x>> \in R)
    <3>1. IsWellFoundedOn(R, Nat)
      BY NatLessThanWellFounded DEF OpToRel
    <3> HIDE DEF B, R
    <3>. QED BY <2>1, <3>1, WFMin
  <2>3. PICK x \in B : \A y \in B : ~(y < x)
    BY <2>1, <2>2
  <2>4. \A m \in 0 .. x - 1 : m \in 0 .. Len(s) /\ m < x
    BY <1>0, <2>1
  <2>5. Stops(x) /\ \A m \in 0 .. x - 1 : ~Stops(m)
    BY <2>3, <2>4
  <2>6. Least(x) /\ x \in 0 .. Len(s)
    BY <2>5
  <2>. QED BY <2>6
<1>2. k \in 0 .. Len(s) /\ Stops(k)
  <2> HIDE DEF Stops
  <2>. QED BY <1>1
<1>3. People!Room(s, size) = rest
  BY DEF People!Room
<1> HIDE DEF k
<1>4. /\ rest \in Seq(PersonEntry) /\ Len(rest) = Len(s) - k
      /\ \A i \in 1 .. Len(rest) : k + i \in 1 .. Len(s) /\ rest[i] = s[k + i]
  <2>1. rest = SubSeq(s, k + 1, Len(s))
    BY DEF People!After
  <2>2. \A i \in k + 1 .. Len(s) : i \in 1 .. Len(s)
    BY <1>0, <1>2
  <2>3. k + 1 <= Len(s) + 1
    BY <1>0, <1>2
  <2> HIDE DEF rest
  <2>4. rest \in Seq(PersonEntry) /\ Len(rest) = Len(s) - k
    BY <1>0, <1>2, <2>1, <2>2, <2>3
  <2>5. \A i \in 1 .. Len(rest) : k + i \in 1 .. Len(s)
    BY <1>0, <1>2, <2>4
  <2>6. \A i \in 1 .. Len(rest) : rest[i] = s[k + i]
    BY <1>0, <1>2, <2>1, <2>2, <2>3, <2>4
  <2>. QED BY <2>4, <2>5, <2>6
<1>5. People!Fits(rest, size)
  <2>1. CASE k = Len(s)
    <3>1. rest = <<>>
      <4> HIDE DEF rest
      <4>1. Len(rest) = 0
        BY <1>0, <1>4, <2>1
      <4>. QED BY <1>4, <4>1
    <3>2. People!Total(rest) = 0 /\ Len(rest) = 0
      BY <3>1, TotalEmpty
    <3>. QED BY <1>0, <3>2 DEF People!Fits
  <2>. QED BY <1>2, <2>1
<1> HIDE DEF rest
<1>6. OneEach(rest)
  <2>1. SUFFICES ASSUME NEW i \in 1 .. Len(rest), NEW j \in 1 .. Len(rest),
                        rest[i].key = rest[j].key
                 PROVE  i = j
    BY DEF OneEach
  <2>2. k + i = k + j
    BY <1>4, <2>1 DEF OneEach
  <2>3. k \in Nat /\ i \in Nat /\ j \in Nat
    BY <1>2, <1>4
  <2>. QED BY <2>2, <2>3
<1>. QED BY <1>3, <1>4, <1>5, <1>6 DEF People!Fits

PersonStates ==
    {[at |-> "idle"]}
    \cup [at : {"answered"}, how : {"young", "fetched", "not found", "error", "stale"}]
    \cup [at : {"fetch"}, key : Persons, known : BOOLEAN, attempt : Nat]

\* A request that fetches has a person to fetch.
LEMMA PersonState ==
  ASSUME NEW q \in PersonStates
  PROVE  /\ q.at \in {"idle", "fetch", "answered"}
         /\ q.at = "fetch" =>
              \E k \in Persons, b \in BOOLEAN, n \in Nat :
                q = [at |-> "fetch", key |-> k, known |-> b, attempt |-> n]
<1> DEFINE A == [at : {"answered"}, how : {"young", "fetched", "not found", "error", "stale"}]
           F == [at : {"fetch"}, key : Persons, known : BOOLEAN, attempt : Nat]
<1>1. q = [at |-> "idle"] \/ q \in A \/ q \in F
  BY DEF PersonStates
<1>2. CASE q = [at |-> "idle"]
  BY <1>2
<1>3. CASE q \in A
  <2>1. q.at = "answered"
    BY <1>3
  <2>. QED BY <2>1
<1>4. CASE q \in F
  <2>1. /\ q = [at |-> q.at, key |-> q.key, known |-> q.known, attempt |-> q.attempt]
        /\ q.at = "fetch" /\ q.key \in Persons /\ q.known \in BOOLEAN /\ q.attempt \in Nat
    BY <1>4
  <2>. QED BY <2>1
<1>. QED BY <1>1, <1>2, <1>3, <1>4

LEMMA PersonKeep ==
  ASSUME NEW s, NEW I
  PROVE  People!Keep(s, I) = Keep(s, I)
BY DEF People!Keep, Keep

PersonInv ==
    /\ entries \in Seq(PersonEntry) /\ OneEach(entries)
    /\ bytes = People!Total(entries) /\ bytes <= MaxBytes /\ Len(entries) <= PersonEntries
    /\ person \in [Requests -> PersonStates]

LEMMA PersonInit ==
  ASSUME People!Init
  PROVE  PersonInv
<1>1. entries = <<>> /\ bytes = 0 /\ person = [r \in Requests |-> [at |-> "idle"]]
  BY DEF People!Init, People!Idle
<1>2. Len(<<>>) = 0 /\ <<>> \in Seq(PersonEntry)
  OBVIOUS
<1>3. OneEach(entries)
  BY <1>1, <1>2 DEF OneEach
<1>4. person \in [Requests -> PersonStates]
  BY <1>1 DEF PersonStates
<1>. QED BY <1>1, <1>2, <1>3, <1>4, TotalEmpty, PersonAssumption DEF PersonInv

\* The entry of a person and those of the others are the whole cache.
LEMMA PersonParts ==
  ASSUME PersonInv, NEW p
  PROVE  /\ People!Others(p) \in Seq(PersonEntry) /\ OneEach(People!Others(p))
         /\ \A i \in 1 .. Len(People!Others(p)) : People!Others(p)[i].key # p
         /\ People!Find(p) \in Seq(PersonEntry) /\ OneEach(People!Find(p))
         /\ \A i \in 1 .. Len(People!Find(p)) : People!Find(p)[i].key = p
         /\ People!Total(People!Others(p)) + People!Total(People!Find(p)) = bytes
         /\ Len(People!Others(p)) + Len(People!Find(p)) = Len(entries)
<1> DEFINE I == {i \in DOMAIN entries : entries[i].key # p}
           J == {i \in DOMAIN entries : entries[i].key = p}
           a == Keep(entries, I)
           b == Keep(entries, J)
<1>1. People!Others(p) = a /\ People!Find(p) = b
  BY PersonKeep DEF People!Others, People!Find
<1>2. entries \in Seq(PersonEntry) /\ OneEach(entries) /\ bytes = People!Total(entries)
  BY DEF PersonInv
<1>3. \A i \in 1 .. Len(entries) : i \in I <=> i \notin J
  BY <1>2
<1>4. \A i \in 1 .. Len(entries) : (i \in I <=> entries[i].key # p) /\ (i \in J <=> entries[i].key = p)
  BY <1>2
<1> HIDE DEF I, J
<1>5. /\ a \in Seq(PersonEntry) /\ OneEach(a)
      /\ \A i \in 1 .. Len(a) : \E m \in 1 .. Len(entries) : m \in I /\ a[i] = entries[m]
  BY <1>2, KeepOneEach
<1>6. /\ b \in Seq(PersonEntry) /\ OneEach(b)
      /\ \A i \in 1 .. Len(b) : \E m \in 1 .. Len(entries) : m \in J /\ b[i] = entries[m]
  BY <1>2, KeepOneEach
<1>7. /\ People!Total(a) + People!Total(b) = People!Total(entries)
      /\ Len(a) + Len(b) = Len(entries)
  BY <1>2, <1>3, KeepSplits
<1> HIDE DEF a, b
<1>. QED BY <1>1, <1>2, <1>4, <1>5, <1>6, <1>7

LEMMA PersonGetStep ==
  ASSUME PersonInv, NEW r \in Requests, NEW p \in Persons, People!Get(r, p)
  PROVE  PersonInv'
<1> DEFINE a == People!Others(p)
           b == People!Find(p)
           new == IF b # <<>> /\ Head(b).young THEN [at |-> "answered", how |-> "young"]
                  ELSE [at |-> "fetch", key |-> p, known |-> b # <<>>, attempt |-> 0]
<1>1. entries' = a \o b /\ bytes' = bytes /\ person' = [person EXCEPT ![r] = new]
  BY DEF People!Get
<1>2. /\ a \in Seq(PersonEntry) /\ OneEach(a) /\ \A i \in 1 .. Len(a) : a[i].key # p
      /\ b \in Seq(PersonEntry) /\ OneEach(b) /\ \A i \in 1 .. Len(b) : b[i].key = p
      /\ People!Total(a) + People!Total(b) = bytes
      /\ Len(a) + Len(b) = Len(entries)
  BY PersonParts
<1>3. new \in PersonStates
  <2>1. [at |-> "answered", how |-> "young"] \in PersonStates
    BY DEF PersonStates
  <2>2. [at |-> "fetch", key |-> p, known |-> b # <<>>, attempt |-> 0] \in PersonStates
    BY DEF PersonStates
  <2>. QED BY <2>1, <2>2
<1> HIDE DEF a, b, new
<1>4. /\ a \o b \in Seq(PersonEntry) /\ Len(a \o b) = Len(a) + Len(b)
      /\ People!Total(a \o b) = People!Total(a) + People!Total(b)
  BY <1>2, TotalConcat
<1>5. OneEach(a \o b)
  <2>1. SUFFICES ASSUME NEW i \in 1 .. Len(a \o b), NEW j \in 1 .. Len(a \o b),
                        (a \o b)[i].key = (a \o b)[j].key
                 PROVE  i = j
    BY DEF OneEach
  <2>2. Len(a) \in Nat /\ Len(b) \in Nat /\ i \in Nat /\ j \in Nat
    BY <1>2, <1>4
  <2>3. \A m \in 1 .. Len(a \o b) :
          \/ m <= Len(a) /\ m \in 1 .. Len(a) /\ (a \o b)[m] = a[m]
          \/ m > Len(a) /\ m - Len(a) \in 1 .. Len(b) /\ (a \o b)[m] = b[m - Len(a)]
    BY <1>2, <1>4, <2>2
  <2>4. CASE i <= Len(a) /\ j <= Len(a)
    BY <1>2, <2>1, <2>2, <2>3, <2>4 DEF OneEach
  <2>5. CASE i > Len(a) /\ j > Len(a)
    <3>1. i - Len(a) = j - Len(a)
      BY <1>2, <2>1, <2>2, <2>3, <2>5 DEF OneEach
    <3>. QED BY <2>2, <3>1
  <2>6. CASE (i <= Len(a) /\ j > Len(a)) \/ (i > Len(a) /\ j <= Len(a))
    BY <1>2, <2>1, <2>2, <2>3, <2>6
  <2>. QED BY <2>2, <2>4, <2>5, <2>6
<1>6. person' \in [Requests -> PersonStates]
  BY <1>1, <1>3 DEF PersonInv
<1>. QED BY <1>1, <1>2, <1>4, <1>5, <1>6 DEF PersonInv

\* What a fetch writes: the count stays that of the entries.
LEMMA PersonSet ==
  ASSUME PersonInv, NEW p \in Persons, NEW size \in Sizes, People!Set(p, size)
  PROVE  /\ entries' \in Seq(PersonEntry) /\ OneEach(entries')
         /\ bytes' = People!Total(entries') /\ bytes' <= MaxBytes
         /\ Len(entries') <= PersonEntries
<1> DEFINE a == People!Others(p)
           b == People!Find(p)
           kept == People!Room(a, size)
           new == [key |-> p, size |-> size, young |-> TRUE]
<1>1. /\ a \in Seq(PersonEntry) /\ OneEach(a) /\ \A i \in 1 .. Len(a) : a[i].key # p
      /\ b \in Seq(PersonEntry)
      /\ People!Total(a) + People!Total(b) = bytes
      /\ Len(a) + Len(b) = Len(entries)
  BY PersonParts
<1>2. /\ People!Total(a) \in Nat /\ People!Total(b) \in Nat /\ size \in Nat
      /\ MaxBytes \in Nat /\ PersonEntries \in Nat /\ Len(a) \in Nat /\ Len(b) \in Nat
  BY <1>1, TotalNat, PersonAssumption
<1>3. CASE size > MaxBytes
  <2>1. entries' = a /\ bytes' = bytes - People!Total(b)
    BY <1>3 DEF People!Set
  <2> HIDE DEF a, b
  <2>. QED BY <1>1, <1>2, <2>1 DEF PersonInv
<1>4. CASE ~(size > MaxBytes)
  <2>1. /\ entries' = Append(kept, new)
        /\ bytes' = bytes - People!Total(b) - (People!Total(a) - People!Total(kept)) + size
    BY <1>4 DEF People!Set
  <2> HIDE DEF a, b
  <2>2. size <= MaxBytes
    BY <1>2, <1>4
  <2>3. /\ kept \in Seq(PersonEntry) /\ OneEach(kept)
        /\ \A i \in 1 .. Len(kept) : \E m \in 1 .. Len(a) : kept[i] = a[m]
        /\ Len(kept) < PersonEntries
        /\ People!Total(kept) + size <= MaxBytes
    BY <1>1, <1>2, <2>2, RoomFits
  <2>4. new \in PersonEntry /\ new.size = size /\ new.key = p
    BY <1>2 DEF PersonEntry
  <2> HIDE DEF kept, new
  <2>5. People!Total(kept) \in Nat /\ Len(kept) \in Nat
    BY <2>3, TotalNat
  <2>6. People!Total(entries') = People!Total(kept) + size
    BY <2>1, <2>3, <2>4, TotalAppend
  <2>7. bytes' = People!Total(kept) + size
    BY <1>1, <1>2, <2>1, <2>5
  <2>8. /\ entries' \in Seq(PersonEntry) /\ Len(entries') = Len(kept) + 1
        /\ entries'[Len(kept) + 1] = new
        /\ \A i \in 1 .. Len(kept) : entries'[i] = kept[i]
    BY <2>1, <2>3, <2>4
  <2>9. OneEach(entries')
    <3>1. \A i \in 1 .. Len(kept) : kept[i].key # p
      BY <1>1, <2>3
    <3>2. \A i \in 1 .. Len(entries') : i \in 1 .. Len(kept) \/ i = Len(kept) + 1
      BY <2>5, <2>8
    <3>. QED BY <2>3, <2>4, <2>8, <3>1, <3>2 DEF OneEach
  <2>10. Len(entries') <= PersonEntries
    BY <1>2, <2>3, <2>5, <2>8
  <2>. QED BY <2>3, <2>6, <2>7, <2>8, <2>9, <2>10
<1>. QED BY <1>3, <1>4

LEMMA PersonAnswer ==
  ASSUME PersonInv, NEW r \in Requests,
         NEW how \in {"young", "fetched", "not found", "error", "stale"}, People!Answer(r, how)
  PROVE  person' \in [Requests -> PersonStates]
<1>1. person' = [person EXCEPT ![r] = [at |-> "answered", how |-> how]]
  BY DEF People!Answer
<1>2. [at |-> "answered", how |-> how] \in PersonStates
  BY DEF PersonStates
<1>. QED BY <1>1, <1>2 DEF PersonInv

LEMMA PersonFetchedStep ==
  ASSUME PersonInv, NEW r \in Requests, People!Fetched(r)
  PROVE  PersonInv'
<1>1. person[r].key \in Persons
  <2>1. person[r] \in PersonStates /\ person[r].at = "fetch"
    BY DEF PersonInv, People!Fetched
  <2>2. PICK k \in Persons, b \in BOOLEAN, n \in Nat :
           person[r] = [at |-> "fetch", key |-> k, known |-> b, attempt |-> n]
    BY <2>1, PersonState
  <2>. QED BY <2>2
<1>2. PICK size \in Sizes : People!Set(person[r].key, size)
  BY DEF People!Fetched
<1>3. /\ entries' \in Seq(PersonEntry) /\ OneEach(entries')
      /\ bytes' = People!Total(entries') /\ bytes' <= MaxBytes
      /\ Len(entries') <= PersonEntries
  BY <1>1, <1>2, PersonSet
<1>4. person' \in [Requests -> PersonStates]
  BY PersonAnswer DEF People!Fetched
<1>. QED BY <1>3, <1>4 DEF PersonInv

\* The steps that leave the cache alone.
LEMMA PersonQuietStep ==
  ASSUME PersonInv, NEW r \in Requests,
         People!Refused(r) \/ People!Transient(r) \/ People!Leave(r)
  PROVE  PersonInv'
<1>1. entries' = entries /\ bytes' = bytes
  BY DEF People!Refused, People!Transient, People!Leave
<1>2. ASSUME People!Refused(r) PROVE person' \in [Requests -> PersonStates]
  BY <1>2, PersonAnswer DEF People!Refused
<1>3. ASSUME People!Transient(r) PROVE person' \in [Requests -> PersonStates]
  <2>1. CASE person' = [person EXCEPT ![r].attempt = @ + 1]
    <3>1. PICK k \in Persons, b \in BOOLEAN, n \in Nat :
             person[r] = [at |-> "fetch", key |-> k, known |-> b, attempt |-> n]
      <4>1. person[r] \in PersonStates /\ person[r].at = "fetch"
        BY <1>3 DEF PersonInv, People!Transient
      <4>. QED BY <4>1, PersonState
    <3> DEFINE new == [person[r] EXCEPT !.attempt = @ + 1]
    <3>2. new = [at |-> "fetch", key |-> k, known |-> b, attempt |-> n + 1]
      BY <3>1
    <3>3. new \in PersonStates
      <4> DEFINE F == [at : {"fetch"}, key : Persons, known : BOOLEAN, attempt : Nat]
      <4>1. n + 1 \in Nat
        OBVIOUS
      <4>2. [at |-> "fetch", key |-> k, known |-> b, attempt |-> n + 1] \in F
        BY <4>1
      <4>3. F \subseteq PersonStates
        BY DEF PersonStates
      <4> HIDE DEF F
      <4>. QED BY <3>2, <4>2, <4>3
    <3>4. person' = [person EXCEPT ![r] = new]
      BY <2>1
    <3> HIDE DEF new
    <3>. QED BY <3>3, <3>4 DEF PersonInv
  <2>2. CASE People!Answer(r, IF person[r].known THEN "stale" ELSE "error")
    BY <2>2, PersonAnswer
  <2>. QED BY <1>3, <2>1, <2>2 DEF People!Transient
<1>4. ASSUME People!Leave(r) PROVE person' \in [Requests -> PersonStates]
  BY <1>4 DEF People!Leave, People!Idle, PersonInv, PersonStates
<1>. QED BY <1>1, <1>2, <1>3, <1>4 DEF PersonInv

\* Lists of the same sizes have the same bytes.
LEMMA TotalSame ==
  ASSUME NEW s \in Seq(PersonEntry), NEW t \in Seq(PersonEntry), Len(s) = Len(t),
         \A i \in 1 .. Len(s) : s[i].size = t[i].size
  PROVE  People!Total(s) = People!Total(t)
<1>0. Len(s) \in Nat /\ Len(t) \in Nat
  OBVIOUS
<1>1. PICK g : IsSum(g, s) /\ People!Total(s) = g[Len(s)]
  BY <1>0, TotalRuns
<1>2. PICK h : IsSum(h, t) /\ People!Total(t) = h[Len(t)]
  BY <1>0, TotalRuns
<1> DEFINE S == {m \in Nat : m <= Len(s) => g[m] = h[m]}
<1>3. 0 \in S
  <2>1. g[0] = 0 /\ h[0] = 0
    BY <1>0, <1>1, <1>2 DEF IsSum
  <2>. QED BY <2>1
<1>4. ASSUME NEW m \in Nat, m \in S PROVE m + 1 \in S
  <2>1. SUFFICES ASSUME m + 1 <= Len(s) PROVE g[m + 1] = h[m + 1]
    OBVIOUS
  <2>2. /\ m + 1 \in 0 .. Len(t) /\ m + 1 \in 0 .. Len(s) /\ m + 1 # 0 /\ (m + 1) - 1 = m
        /\ g[m] = h[m] /\ s[m + 1].size = t[m + 1].size
    BY <1>0, <1>4, <2>1
  <2>3. g[m + 1] = g[m] + s[m + 1].size /\ h[m + 1] = h[m] + t[m + 1].size
    BY <1>1, <1>2, <2>2 DEF IsSum
  <2>. QED BY <2>2, <2>3
<1>5. Len(s) \in S
  <2> HIDE DEF S
  <2>. QED BY <1>0, <1>3, <1>4, SetInduction
<1>. QED BY <1>1, <1>2, <1>5

LEMMA PersonGrowsOldStep ==
  ASSUME PersonInv, People!GrowsOld
  PROVE  PersonInv'
<1>1. PICK i \in DOMAIN entries : entries' = [entries EXCEPT ![i].young = FALSE]
  BY DEF People!GrowsOld
<1>2. bytes' = bytes /\ person' = person
  BY DEF People!GrowsOld
<1>3. entries \in Seq(PersonEntry) /\ entries[i] \in PersonEntry /\ Len(entries) \in Nat
  BY <1>1 DEF PersonInv
<1> DEFINE new == [entries[i] EXCEPT !.young = FALSE]
<1>4. new \in PersonEntry /\ new.key = entries[i].key /\ new.size = entries[i].size
  BY <1>3 DEF PersonEntry
<1>5. entries' = [entries EXCEPT ![i] = new]
  BY <1>1
<1> HIDE DEF new
<1>6. entries' \in Seq(PersonEntry) /\ Len(entries') = Len(entries)
  BY <1>3, <1>4, <1>5
<1>7. \A m \in 1 .. Len(entries) :
        entries'[m].size = entries[m].size /\ entries'[m].key = entries[m].key
  BY <1>3, <1>4, <1>5
<1>8. OneEach(entries')
  BY <1>6, <1>7 DEF OneEach, PersonInv
<1>9. People!Total(entries') = People!Total(entries)
  BY <1>3, <1>6, <1>7, TotalSame
<1>. QED BY <1>2, <1>6, <1>8, <1>9 DEF PersonInv

LEMMA PersonCleanupStep ==
  ASSUME PersonInv, People!Cleanup
  PROVE  PersonInv'
<1> DEFINE I == {i \in DOMAIN entries : entries[i].young}
           J == {i \in DOMAIN entries : ~entries[i].young}
           a == Keep(entries, I)
           b == Keep(entries, J)
<1>1. entries' = a /\ bytes' = bytes - People!Total(b) /\ person' = person
  BY PersonKeep DEF People!Cleanup
<1>2. entries \in Seq(PersonEntry) /\ OneEach(entries) /\ bytes = People!Total(entries)
  BY DEF PersonInv
<1>3. \A i \in 1 .. Len(entries) : i \in I <=> i \notin J
  BY <1>2
<1> HIDE DEF I, J
<1>4. a \in Seq(PersonEntry) /\ OneEach(a)
  BY <1>2, KeepOneEach
<1>5. b \in Seq(PersonEntry)
  BY <1>2, KeepOneEach
<1>6. /\ People!Total(a) + People!Total(b) = People!Total(entries)
      /\ Len(a) + Len(b) = Len(entries)
  BY <1>2, <1>3, KeepSplits
<1> HIDE DEF a, b
<1>7. /\ People!Total(a) \in Nat /\ People!Total(b) \in Nat /\ Len(a) \in Nat /\ Len(b) \in Nat
      /\ MaxBytes \in Nat /\ PersonEntries \in Nat
  BY <1>4, <1>5, TotalNat, PersonAssumption
<1>8. bytes' = People!Total(a) /\ bytes' <= MaxBytes /\ Len(a) <= PersonEntries
  BY <1>1, <1>2, <1>6, <1>7 DEF PersonInv
<1>. QED BY <1>1, <1>4, <1>8 DEF PersonInv

LEMMA PersonStep == PersonInv /\ [People!Next]_people => PersonInv'
<1> SUFFICES ASSUME PersonInv, [People!Next]_people PROVE PersonInv'
  OBVIOUS
<1>1. CASE UNCHANGED people
  BY <1>1 DEF people, PersonInv
<1>2. CASE People!Next
  BY <1>2, PersonGetStep, PersonFetchedStep, PersonQuietStep, PersonGrowsOldStep,
     PersonCleanupStep DEF People!Next
<1>. QED BY <1>1, <1>2

LEMMA PersonShows == PersonInv => People!TypeOK /\ People!BytesCounted
<1> SUFFICES ASSUME PersonInv PROVE People!TypeOK /\ People!BytesCounted
  OBVIOUS
<1>1. \A r \in Requests : person[r].at \in {"idle", "fetch", "answered"}
  BY PersonState DEF PersonInv
<1>2. DOMAIN entries = 1 .. Len(entries)
  BY DEF PersonInv
<1>. QED BY <1>1, <1>2 DEF PersonInv, OneEach, People!TypeOK, People!BytesCounted

\* The byte count of the person cache is that of its entries, and neither limit is exceeded,
\* through every replacement, eviction and cleanup: for every size and number of entries.
THEOREM BytesAlwaysCounted == ServicesSpec => []BytesCounted
<1>1. ServicesInit => (part = "people" => PersonInv)
  BY PersonInit DEF ServicesInit
<1>2. (part = "people" => PersonInv) /\ [ServicesNext]_<<part, backend>>
        => (part = "people" => PersonInv)'
  BY Frame, PersonStep
<1>3. (part = "people" => PersonInv) => BytesCounted
  BY PersonShows DEF BytesCounted
<1>. QED BY <1>1, <1>2, <1>3, PTL DEF ServicesSpec

-----------------------------------------------------------------------------
(* Types: what every component keeps of its variables.                      *)

ImageRequestTypes ==
    [phase : {"ended", "delete", "upload", "save"}, op : {"upload", "remove"},
     old : Images!Urls, new : Images!Urls]

\* A request changes, and the bucket and the row as it says.
LEMMA ImageRequest ==
  ASSUME Images!TypeOK, NEW r \in ImageRequests, NEW q \in ImageRequestTypes,
         request' = [request EXCEPT ![r] = q],
         image' \in Images!Urls, shown' \in Images!Urls,
         objects' \subseteq used', used' \subseteq ImageKeys
  PROVE  Images!TypeOK'
<1>1. request' \in [ImageRequests -> ImageRequestTypes]
  BY DEF Images!TypeOK, ImageRequestTypes
<1>. QED BY <1>1 DEF Images!TypeOK, ImageRequestTypes, Images!Urls

LEMMA ImageStep == Images!TypeOK /\ [Images!Next]_images => Images!TypeOK'
<1> SUFFICES ASSUME Images!TypeOK, [Images!Next]_images PROVE Images!TypeOK'
  OBVIOUS
<1>0. /\ request \in [ImageRequests -> ImageRequestTypes]
      /\ image \in Images!Urls /\ shown \in Images!Urls
      /\ objects \subseteq used /\ used \subseteq ImageKeys
  BY DEF Images!TypeOK, ImageRequestTypes
<1>1. CASE UNCHANGED images
  BY <1>1 DEF images, Images!TypeOK, Images!Urls
<1>2. Images!Ended \in ImageRequestTypes /\ "none" \in Images!Urls
  BY DEF Images!Ended, ImageRequestTypes, Images!Urls
<1>3. ASSUME NEW r \in ImageRequests, NEW op \in {"upload", "remove"}, Images!Read(r, op)
      PROVE  Images!TypeOK'
  <2> DEFINE q == [Images!Ended EXCEPT !.phase = "delete", !.op = op, !.old = image]
  <2>1. q \in ImageRequestTypes
    BY <1>0, <1>2 DEF ImageRequestTypes
  <2>2. request' = [request EXCEPT ![r] = q]
    BY <1>3 DEF Images!Read
  <2> HIDE DEF q
  <2>. QED BY <1>0, <1>3, <2>1, <2>2, ImageRequest DEF Images!Read
<1>4. ASSUME NEW r \in ImageRequests, Images!DeleteOld(r) PROVE Images!TypeOK'
  <2> DEFINE q == [request[r] EXCEPT !.phase =
                     IF request[r].op = "upload" THEN "upload" ELSE "save"]
  <2>1. q \in ImageRequestTypes
    BY <1>0 DEF ImageRequestTypes
  <2>2. request' = [request EXCEPT ![r] = q] /\ objects' \subseteq objects
    BY <1>0, <1>4 DEF Images!DeleteOld
  <2> HIDE DEF q
  <2>. QED BY <1>0, <1>4, <2>1, <2>2, ImageRequest DEF Images!DeleteOld
<1>5. ASSUME NEW r \in ImageRequests, NEW k \in ImageKeys, Images!Upload(r, k)
      PROVE  Images!TypeOK'
  <2> DEFINE q == [request[r] EXCEPT !.phase = "save", !.new = k]
  <2>1. k \in Images!Urls
    BY DEF Images!Urls
  <2>2. q \in ImageRequestTypes
    BY <1>0, <2>1 DEF ImageRequestTypes
  <2>3. request' = [request EXCEPT ![r] = q]
    BY <1>0, <1>5 DEF Images!Upload, ImageRequestTypes
  <2>4. objects' \subseteq used' /\ used' \subseteq ImageKeys
    BY <1>0, <1>5 DEF Images!Upload
  <2> HIDE DEF q
  <2>. QED BY <1>0, <1>5, <2>2, <2>3, <2>4, ImageRequest DEF Images!Upload
<1>6. ASSUME NEW r \in ImageRequests, Images!Save(r) PROVE Images!TypeOK'
  <2>1. request[r].new \in Images!Urls
    BY <1>0 DEF ImageRequestTypes
  <2>2. image' \in Images!Urls /\ shown' \in Images!Urls
    BY <1>0, <1>6, <2>1 DEF Images!Save, Images!Saved
  <2>. QED BY <1>0, <1>2, <1>6, <2>2, ImageRequest DEF Images!Save
<1>7. ASSUME NEW r \in ImageRequests, Images!Fail(r) PROVE Images!TypeOK'
  BY <1>0, <1>2, <1>7, ImageRequest DEF Images!Fail
<1>. QED BY <1>1, <1>3, <1>4, <1>5, <1>6, <1>7 DEF Images!Next

LEMMA ImageInit == Images!Init => Images!TypeOK
BY DEF Images!Init, Images!TypeOK, Images!Urls, Images!Ended

\* What is chosen was found, what was found is in the database, and what was dropped may be.
SearchTypes ==
    /\ results \subseteq catalog /\ cards \subseteq results /\ tried \subseteq filters.relaxable
    /\ Cardinality(cards) <= CardLimit

LEMMA SearchTypesInit ==
  ASSUME Search!Init
  PROVE  SearchTypes
BY FS_EmptySet, SearchAssumption DEF Search!Init, SearchTypes

LEMMA SearchTypesStep ==
  ASSUME SearchInv, SearchTypes, [Search!Next]_search
  PROVE  SearchTypes'
<1>0. CardLimit \in Nat /\ Cardinality({}) = 0
  BY FS_EmptySet, SearchAssumption
<1>1. CASE UNCHANGED search
  BY <1>1 DEF search, SearchTypes
<1>2. CASE Search!NothingToSearch
  BY <1>2 DEF Search!NothingToSearch, SearchTypes
<1>3. CASE Search!Analyze
  <2>1. tried = {} /\ UNCHANGED <<catalog, tried, results, cards>>
    BY <1>3 DEF Search!Analyze, SearchInv
  <2>. QED BY <2>1 DEF SearchTypes
<1>4. CASE Search!Query
  <2>1. results' \subseteq catalog /\ cards = {} /\ UNCHANGED <<catalog, filters, tried, cards>>
    BY <1>4 DEF Search!Query, Search!Answers, SearchInv
  <2>. QED BY <1>0, <2>1 DEF SearchTypes
<1>5. CASE Search!Relax
  <2>1. UNCHANGED <<catalog, results, cards>>
    BY <1>5 DEF Search!Relax
  <2>2. CASE Search!Droppable(filters) = {}
    BY <1>5, <2>1, <2>2 DEF Search!Relax, SearchTypes
  <2>3. CASE Search!Droppable(filters) # {}
    <3> DEFINE left == Search!Droppable(filters)
               g == Search!RelaxationSequence[CHOOSE i \in left : \A j \in left : i <= j]
    <3>1. filters' = [filters EXCEPT !.keep[g] = {}] /\ tried' = tried \cup {g}
      BY <1>5, <2>3 DEF Search!Relax
    <3>2. filters = [keep |-> filters.keep, drop |-> filters.drop,
                     relaxable |-> filters.relaxable, contentType |-> filters.contentType]
      BY <1>5 DEF Search!Relax, SearchInv, Searching
    <3>3. \E i \in left : \A j \in left : i <= j
      <4>1. left \subseteq {1, 2, 3, 4}
        BY FieldFacts DEF Search!Droppable
      <4> HIDE DEF left
      <4>. QED BY <2>3, <4>1 DEF left
    <3>4. g \in filters.relaxable
      <4>1. \A i \in left : Search!RelaxationSequence[i] \in filters.relaxable
        BY DEF Search!Droppable
      <4> HIDE DEF left
      <4>. QED BY <3>3, <4>1
    <3> HIDE DEF g
    <3>5. filters'.relaxable = filters.relaxable
      BY <3>1, <3>2
    <3>. QED BY <2>1, <3>1, <3>4, <3>5 DEF SearchTypes
  <2>. QED BY <2>2, <2>3
<1>6. CASE Search!Similar
  <2>1. results' \subseteq catalog /\ cards = {} /\ UNCHANGED <<catalog, filters, tried, cards>>
    BY <1>6 DEF Search!Similar, Search!Answers, SearchInv
  <2>. QED BY <1>0, <2>1 DEF SearchTypes
<1>7. CASE Search!Select
  <2> DEFINE good == {x \in results : Search!Suitable(x)}
  <2>1. /\ cards' \subseteq good /\ UNCHANGED <<catalog, filters, tried, results>>
        /\ Cardinality(cards') = IF Cardinality(good) < CardLimit THEN Cardinality(good)
                                                                   ELSE CardLimit
    BY <1>7, SameCardinality DEF Search!Select
  <2>2. IsFiniteSet(catalog) /\ good \subseteq catalog
    BY SearchAssumption DEF SearchInv, SearchTypes
  <2> HIDE DEF good
  <2>3. Cardinality(good) \in Nat
    BY <2>2, FS_Subset, FS_CardinalityType
  <2>4. Cardinality(cards') <= CardLimit
    BY <1>0, <2>1, <2>3
  <2>5. cards' \subseteq results
    BY <2>1 DEF good
  <2>. QED BY <2>1, <2>4, <2>5 DEF SearchTypes
<1>8. CASE Search!Abort
  BY <1>0, <1>8 DEF Search!Abort, SearchTypes
<1>. QED BY <1>1, <1>2, <1>3, <1>4, <1>5, <1>6, <1>7, <1>8 DEF Search!Next

LEMMA SearchTyped == SearchInv /\ SearchTypes => Search!TypeOK
BY SameCardinality DEF SearchInv, SearchTypes, Search!TypeOK

\* The clock of the rankings stays within its bound.
LEMMA RankClock ==
  ASSUME NEW C, NEW M, RankInv(C), fetches <= M, [Lists(C, M)!Next]_ranking, M \in Nat
  PROVE  fetches' <= M
<1>0. fetches \in Nat
  BY DEF RankInv, RankTypes
<1>1. CASE UNCHANGED fetches
  BY <1>1
<1>2. ASSUME NEW s \in Syncs, Lists(C, M)!Fetch(s) PROVE fetches' <= M
  <2>1. CASE Lists(C, M)!Fail(s)
    BY <1>1, <2>1 DEF Lists!Fail, Lists!table
  <2>2. CASE ~Lists(C, M)!Fail(s)
    <3>1. fetches < M /\ fetches' = fetches + 1
      BY <1>2, <2>2 DEF Lists!Fetch
    <3>. QED BY <1>0, <3>1
  <2>. QED BY <2>1, <2>2
<1>3. ASSUME NEW s \in Syncs, Lists(C, M)!Work(s) PROVE fetches' <= M
  BY <1>1, <1>2, <1>3 DEF Lists!Work, Lists!Fail, Lists!Match, Lists!Save, Lists!SaveFails,
     Lists!table
<1>4. ASSUME NEW s \in Syncs, Lists(C, M)!BoxOfficeSync(s) \/ Lists(C, M)!TrendingSync(s)
      PROVE  fetches' <= M
  BY <1>1, <1>3, <1>4 DEF Lists!BoxOfficeSync, Lists!TrendingSync, Lists!Retry, Lists!Start,
     Lists!table
<1>. QED BY <1>1, <1>4 DEF Lists!Next, ranking, Lists!table, Lists!NextDay, Lists!PosterRead,
        Lists!PosterSave, Lists!FindLatest, Lists!FindRows, Lists!ReaderLeaves

LEMMA RankTyped ==
  ASSUME NEW C, NEW M \in Nat, RankInv(C), fetches <= M
  PROVE  Lists(C, M)!TypeOK
<1>1. fetches \in 0 .. M
  BY DEF RankInv, RankTypes
<1>2. \A s \in Syncs : sync[s].at \in {"idle", "fetch", "match"}
  <2> SUFFICES ASSUME NEW s \in Syncs PROVE sync[s].at \in {"idle", "fetch", "match"}
    OBVIOUS
  <2>1. sync[s] = NoJob \/ sync[s] \in SyncJobs(C)
    BY DEF RankInv, RankTypes
  <2>. QED BY <2>1 DEF NoJob, SyncJobs
<1>. QED BY <1>1, <1>2, RankKeysMeaning DEF RankInv, RankTypes, Lists!TypeOK


\* The cache of related contents has one entry for a content and no more than its limit, and
\* one load of a content is under way at most.
OneLoadEach(s) == \A l, m \in s : l.key = m.key => l = m

RelatedTypes ==
    /\ described \subseteq Alike \cup Sources
    /\ Len(cache) <= RelatedEntries /\ OneEach(cache) /\ OneLoadEach(loads)

LEMMA OthersWithout ==
  ASSUME RelatedInv, RelatedTypes, NEW k
  PROVE  /\ Related!Others(k) \in Seq(KeptEntries) /\ OneEach(Related!Others(k))
         /\ \A i \in 1 .. Len(Related!Others(k)) : Related!Others(k)[i].key # k
         /\ Len(Related!Others(k)) <= RelatedEntries
         /\ Related!Places(k) # {} => Len(Related!Others(k)) < RelatedEntries
<1> DEFINE I == {i \in DOMAIN cache : cache[i].key # k}
           o == Keep(cache, I)
<1>1. Related!Others(k) = o
  BY DEF Related!Others, Related!Keep, Keep
<1>2. cache \in Seq(KeptEntries) /\ OneEach(cache) /\ Len(cache) <= RelatedEntries
      /\ Len(cache) \in Nat /\ DOMAIN cache = 1 .. Len(cache) /\ RelatedEntries \in Nat
  BY LenProperties, RelatedAssumption DEF RelatedInv, RelatedTypes
<1>3. \A i \in 1 .. Len(cache) : i \in I <=> cache[i].key # k
  BY <1>2
<1>4. Related!Places(k) # {} => \E i \in 1 .. Len(cache) : i \notin I
  BY <1>2, <1>3 DEF Related!Places
<1> HIDE DEF I
<1>5. /\ o \in Seq(KeptEntries) /\ OneEach(o)
      /\ \A i \in 1 .. Len(o) : \E m \in 1 .. Len(cache) : m \in I /\ o[i] = cache[m]
  BY <1>2, KeepOneEach
<1>6. Len(o) <= Len(cache) /\ Len(o) \in Nat
      /\ ((\E i \in 1 .. Len(cache) : i \notin I) => Len(o) < Len(cache))
  BY <1>2, KeepShorter
<1> HIDE DEF o
<1>. QED BY <1>1, <1>2, <1>3, <1>4, <1>5, <1>6

LEMMA OneMore ==
  ASSUME NEW X, NEW s \in Seq(X), OneEach(s), NEW e \in X,
         \A i \in 1 .. Len(s) : s[i].key # e.key
  PROVE  OneEach(Append(s, e)) /\ Len(Append(s, e)) = Len(s) + 1
<1>1. /\ Len(Append(s, e)) = Len(s) + 1 /\ Len(s) \in Nat
      /\ \A i \in 1 .. Len(s) : Append(s, e)[i] = s[i]
      /\ Append(s, e)[Len(s) + 1] = e
  OBVIOUS
<1> DEFINE t == Append(s, e)
<1> HIDE DEF t
<1>2. \A i \in 1 .. Len(s) + 1 : i \in 1 .. Len(s) \/ i = Len(s) + 1
  BY <1>1
<1>3. OneEach(t)
  BY <1>1, <1>2 DEF OneEach, t
<1>. QED BY <1>1, <1>3 DEF t

LEMMA RelatedTypesInit ==
  ASSUME Related!Init
  PROVE  RelatedTypes
<1>1. Len(<<>>) = 0
  OBVIOUS
<1>. QED BY <1>1, RelatedAssumption DEF Related!Init, RelatedTypes, OneEach, OneLoadEach

LEMMA HitTypes ==
  ASSUME RelatedInv, RelatedTypes, NEW k \in Sources, Related!Hit(k)
  PROVE  RelatedTypes'
<1> DEFINE o == Related!Others(k)
           e == Related!Entry(k)
<1>1. Related!Places(k) # {} /\ cache' = Append(o, e) /\ UNCHANGED <<described, loads>>
  BY DEF Related!Hit
<1>2. e.key = k
  BY <1>1 DEF Related!Entry, Related!Places
<1>3. e \in KeptEntries
  BY <1>1, OthersKept DEF RelatedInv
<1>4. /\ o \in Seq(KeptEntries) /\ OneEach(o) /\ \A i \in 1 .. Len(o) : o[i].key # k
      /\ Len(o) < RelatedEntries
  BY <1>1, OthersWithout
<1> HIDE DEF o, e
<1>5. OneEach(cache') /\ Len(cache') = Len(o) + 1
  BY <1>1, <1>2, <1>3, <1>4, OneMore
<1>6. Len(cache') <= RelatedEntries
  BY <1>4, <1>5, RelatedAssumption
<1>. QED BY <1>1, <1>5, <1>6 DEF RelatedTypes

LEMMA MissTypes ==
  ASSUME RelatedInv, RelatedTypes, NEW k \in Sources, Related!Miss(k)
  PROVE  RelatedTypes'
<1>1. cache' = Related!Others(k) /\ UNCHANGED described
  BY DEF Related!Miss
<1>2. OneEach(cache') /\ Len(cache') <= RelatedEntries
  BY <1>1, OthersWithout
<1>3. Related!NewLoad(k).key = k
  BY DEF Related!NewLoad
<1>4. OneLoadEach(loads')
  BY <1>3 DEF Related!Miss, RelatedTypes, OneLoadEach
<1>. QED BY <1>1, <1>2, <1>4 DEF RelatedTypes

LEMMA LoadTypes ==
  ASSUME RelatedInv, RelatedTypes, NEW l \in loads,
         \/ Related!LoadSource(l) \/ Related!LoadFresh(l) \/ Related!LoadVector(l)
         \/ Related!LoadPopular(l) \/ Related!LoadFails(l)
  PROVE  RelatedTypes'
<1>0. l \in LoadRecords
  BY DEF RelatedInv
<1>1. UNCHANGED <<described, cache>>
  BY DEF Related!LoadSource, Related!LoadFresh, Related!LoadVector, Related!LoadPopular,
     Related!LoadFails
<1>2. loads' = loads \ {l} \/ \E m : m.key = l.key /\ loads' = (loads \ {l}) \cup {m}
  BY <1>0 DEF Related!LoadSource, Related!LoadFresh, Related!LoadVector, Related!LoadPopular,
     Related!LoadFails, Related!Replace, LoadRecords
<1>3. OneLoadEach(loads')
  BY <1>2 DEF RelatedTypes, OneLoadEach
<1>. QED BY <1>1, <1>3 DEF RelatedTypes

LEMMA StoreTypes ==
  ASSUME RelatedInv, RelatedTypes, NEW l \in loads, Related!Store(l)
  PROVE  RelatedTypes'
<1> DEFINE kept == Related!Others(l.key)
           room == IF Len(kept) >= RelatedEntries
                     THEN SubSeq(kept, Len(kept) - RelatedEntries + 2, Len(kept)) ELSE kept
           e == [key |-> l.key, old |-> l.old, new |-> l.new, changed |-> l.changed, age |-> 0]
<1>1. /\ cache' = Append(room, e) /\ loads' = loads \ {l} /\ UNCHANGED described
  BY DEF Related!Store
<1>2. /\ kept \in Seq(KeptEntries) /\ OneEach(kept)
      /\ \A i \in 1 .. Len(kept) : kept[i].key # l.key
      /\ Len(kept) <= RelatedEntries /\ RelatedEntries \in Nat \ {0}
  BY OthersWithout, RelatedAssumption
<1>3. e.key = l.key
  OBVIOUS
<1> HIDE DEF kept, e
<1>4. /\ room \in Seq(KeptEntries) /\ Len(room) < RelatedEntries
      /\ OneEach(room) /\ \A i \in 1 .. Len(room) : room[i].key # l.key
  <2>0. Len(kept) \in Nat
    BY <1>2
  <2>1. CASE Len(kept) >= RelatedEntries
    <3>1. room = SubSeq(kept, 2, Len(kept))
      BY <1>2, <2>0, <2>1
    <3>2. 2 <= Len(kept) + 1 /\ \A i \in 2 .. Len(kept) : i \in 1 .. Len(kept)
      BY <1>2, <2>0, <2>1
    <3> HIDE DEF room
    <3>3. room \in Seq(KeptEntries) /\ Len(room) = Len(kept) - 1
      <4>1. room \in Seq(KeptEntries)
        BY <1>2, <2>0, <3>1, SubSeqProperties
      <4>2. 2 \in Int /\ Len(kept) \in Int /\ 1 <= Len(kept)
              /\ \A i \in 2 .. Len(kept) : kept[i] \in KeptEntries
        BY <1>2, <2>0, <2>1, <3>2
      <4>3. Len(SubSeq(kept, 2, Len(kept)))
              = IF 2 <= Len(kept) THEN Len(kept) - 2 + 1 ELSE 0
        BY <4>2, SubSeqProperties
      <4>4. Len(room) = Len(kept) - 1
        BY <3>1, <4>2, <4>3
      <4>. QED BY <4>1, <4>4
    <3>4. \A i \in 1 .. Len(room) : i + 1 \in 1 .. Len(kept) /\ room[i] = kept[i + 1]
      BY <1>2, <2>0, <3>1, <3>2, <3>3
    <3>5. OneEach(room)
      <4>1. SUFFICES ASSUME NEW i \in 1 .. Len(room), NEW j \in 1 .. Len(room),
                            room[i].key = room[j].key
                     PROVE  i = j
        BY DEF OneEach
      <4>2. i + 1 = j + 1
        BY <1>2, <3>4, <4>1 DEF OneEach
      <4>. QED BY <4>2
    <3>. QED BY <1>2, <2>0, <3>3, <3>4, <3>5
  <2>2. CASE ~(Len(kept) >= RelatedEntries)
    BY <1>2, <2>0, <2>2
  <2>. QED BY <2>1, <2>2
<1> HIDE DEF room
<1>6. OneEach(cache') /\ Len(cache') = Len(room) + 1
  <2>1. room \in Seq(KeptEntries \cup {e})
    BY <1>4, SeqMonotonic
  <2>. QED BY <1>1, <1>3, <1>4, <2>1, OneMore
<1>7. Len(cache') <= RelatedEntries
  BY <1>2, <1>4, <1>6
<1>8. OneLoadEach(loads')
  BY <1>1 DEF RelatedTypes, OneLoadEach
<1>. QED BY <1>1, <1>6, <1>7, <1>8 DEF RelatedTypes

\* A step that changes every load and every entry, and none of their keys.
LEMMA SameKeys ==
  ASSUME RelatedTypes, described' \subseteq Alike \cup Sources,
         Len(cache') = Len(cache), \A i \in 1 .. Len(cache) : cache'[i].key = cache[i].key,
         \A m \in loads' : \E l \in loads : m.key = l.key,
         \A l, m \in loads' : l.key = m.key => l = m
  PROVE  RelatedTypes'
BY DEF RelatedTypes, OneEach, OneLoadEach

LEMMA RelatedTypesStep ==
  ASSUME RelatedInv, RelatedTypes, [Related!Next]_related
  PROVE  RelatedTypes'
<1>0. /\ cache \in Seq(KeptEntries) /\ Len(cache) \in Nat /\ DOMAIN cache = 1 .. Len(cache)
      /\ \A i \in 1 .. Len(cache) : cache[i] \in EntryRecords
      /\ loads \subseteq LoadRecords
  BY LenProperties DEF RelatedInv, KeptEntries
<1>1. CASE UNCHANGED related
  BY <1>1 DEF related, RelatedTypes, OneEach, OneLoadEach
<1>2. ASSUME NEW c \in Alike \cup Sources, Related!Describe(c) PROVE RelatedTypes'
  <2> DEFINE again(l) == [l EXCEPT !.changed = TRUE]
  <2>1. /\ described' = described \cup {c} /\ loads' = {again(l) : l \in loads}
        /\ UNCHANGED cache
    BY <1>2 DEF Related!Describe
  <2>2. \A l \in loads : again(l).key = l.key
    BY <1>0 DEF LoadRecords
  <2> HIDE DEF again
  <2>3. /\ described' \subseteq Alike \cup Sources
        /\ Len(cache') = Len(cache) /\ \A i \in 1 .. Len(cache) : cache'[i].key = cache[i].key
        /\ \A m \in loads' : \E l \in loads : m.key = l.key
    BY <2>1, <2>2 DEF RelatedTypes
  <2>4. \A l, m \in loads' : l.key = m.key => l = m
    BY <2>1, <2>2 DEF RelatedTypes, OneLoadEach
  <2>. QED BY <2>3, <2>4, SameKeys
<1>3. ASSUME NEW c \in Alike, Related!Toggle(c) PROVE RelatedTypes'
  BY <1>3 DEF Related!Toggle, RelatedTypes, OneEach, OneLoadEach
<1>4. CASE Related!Tick
  <2> DEFINE again(l) == [l EXCEPT !.ticked = TRUE]
             older(e) == [e EXCEPT !.age = IF @ < TTL THEN @ + 1 ELSE @]
  <2>1. /\ UNCHANGED described /\ loads' = {again(l) : l \in loads}
        /\ cache' = [i \in DOMAIN cache |-> older(cache[i])]
    BY <1>4 DEF Related!Tick
  <2>2. /\ \A l \in loads : again(l).key = l.key
        /\ \A e \in EntryRecords : older(e).key = e.key
    BY <1>0 DEF LoadRecords, EntryRecords
  <2> HIDE DEF again, older
  <2>3. DOMAIN cache' = 1 .. Len(cache)
        /\ \A i \in 1 .. Len(cache) : cache'[i] = older(cache[i])
    BY <1>0, <2>1
  <2>4. Len(cache') = Len(cache)
    <3> DEFINE n == Len(cache)
               f(i) == older(cache[i])
    <3>1. n \in Nat /\ cache' = [i \in 1 .. n |-> f(i)]
      BY <1>0, <2>1
    <3> HIDE DEF n, f
    <3>2. cache' \in Seq({f(i) : i \in 1 .. n})
      BY <3>1
    <3>3. Len(cache') = n
      BY <3>1, <3>2
    <3>. QED BY <3>3 DEF n
  <2>5. /\ described' \subseteq Alike \cup Sources
        /\ \A i \in 1 .. Len(cache) : cache'[i].key = cache[i].key
        /\ \A m \in loads' : \E l \in loads : m.key = l.key
    BY <1>0, <2>1, <2>2, <2>3 DEF RelatedTypes
  <2>6. \A l, m \in loads' : l.key = m.key => l = m
    BY <2>1, <2>2 DEF RelatedTypes, OneLoadEach
  <2>. QED BY <2>4, <2>5, <2>6, SameKeys
<1>. QED BY <1>1, <1>2, <1>3, <1>4, HitTypes, MissTypes, LoadTypes, StoreTypes DEF Related!Next

LEMMA RelatedTyped == RelatedInv /\ RelatedTypes => Related!TypeOK
<1> SUFFICES ASSUME RelatedInv, RelatedTypes PROVE Related!TypeOK
  OBVIOUS
<1>1. DOMAIN cache = 1 .. Len(cache)
  BY LenProperties DEF RelatedInv
<1>2. \A l \in loads : l.key \in Sources /\ l.at \in Related!Steps
  BY DEF RelatedInv, LoadRecords
<1>. QED BY <1>1, <1>2 DEF RelatedInv, RelatedTypes, OneEach, OneLoadEach, Related!TypeOK

LEMMA PersonTyped == PersonInv => People!TypeOK
<1> SUFFICES ASSUME PersonInv PROVE People!TypeOK
  OBVIOUS
<1>1. \A q \in PersonStates : q.at \in {"idle", "fetch", "answered"}
  BY PersonState
<1>. QED BY <1>1, LenProperties DEF PersonInv, PersonEntry, OneEach, People!TypeOK

\* A nickname was typed before it is checked or signed up with, and who signs up has
\* been named by the provider.
PageTyped(p, A, N) ==
    /\ p.flow \in 0 .. MaxFlows /\ p.checks \subseteq N
    /\ p.timer \/ p.checks # {} \/ p.status # "idle" => p.nickname \in N
    /\ p.phase \in {"ott", "provider-check", "nickname-check", "insert"} => p.nickname \in N
    /\ p.phase \in {"nickname-check", "insert"} => p.signs \in A

SignupTypes(A, N) ==
    /\ \A c \in states : c[2] \in Signups(A, N)!States
    /\ valid \subseteq A /\ users \subseteq Signups(A, N)!Users
    /\ spent \subseteq Signups(A, N)!States
    /\ \A t \in Tabs : PageTyped(page[t], A, N)

LEMMA SignupTypesInit ==
  ASSUME NEW A, NEW N, Signups(A, N)!Init
  PROVE  SignupTypes(A, N)
BY SignupAssumption DEF Signups!Init, SignupTypes, PageTyped, Signups!Blank

\* A page that is typed has typed states, used ones included.
LEMMA SignupTypesPage ==
  ASSUME NEW A, NEW N, SignupInv(A, N), SignupTypes(A, N), NEW t \in Tabs,
         NEW q \in SignupPage(A, N), page' = [page EXCEPT ![t] = q], PageTyped(q, A, N),
         \A c \in states' : c \in states \/ c[2] = <<t, q.flow>>,
         spent' \subseteq spent \cup {Signups(A, N)!StateOf(t)},
         valid' \subseteq A, users' \subseteq Signups(A, N)!Users
  PROVE  SignupTypes(A, N)'
<1>1. page'[t] = q /\ \A u \in Tabs \ {t} : page'[u] = page[u]
  BY DEF SignupInv
<1>2. \A n \in 0 .. MaxFlows : <<t, n>> \in Signups(A, N)!States
  BY DEF Signups!States
<1>3. \A u \in Tabs : PageTyped(page[u], A, N)'
  BY <1>1 DEF SignupTypes, PageTyped
<1>4. \A c \in states' : c[2] \in Signups(A, N)!States
  BY <1>2 DEF SignupTypes, PageTyped
<1>5. spent' \subseteq Signups(A, N)!States
  BY <1>2 DEF SignupTypes, PageTyped, Signups!StateOf
<1>. QED BY <1>3, <1>4, <1>5 DEF SignupTypes, Signups!States, Signups!Users

\* The fields of a page.
LEMMA SignupFields ==
  ASSUME NEW A, NEW N, SignupInv(A, N), SignupTypes(A, N), NEW t \in Tabs
  PROVE  /\ page \in [Tabs -> SignupPage(A, N)] /\ page[t] \in SignupPage(A, N)
         /\ PageTyped(page[t], A, N) /\ page[t].phase \in SignupPhases
         /\ valid \subseteq A /\ users \subseteq Signups(A, N)!Users
         /\ page[t].flow \in Nat
BY DEF SignupInv, SignupTypes, SignupPage

\* Another phase of a sign-in whose page is otherwise as it was.
LEMMA SignupTypesPhase ==
  ASSUME NEW A, NEW N, SignupInv(A, N), SignupTypes(A, N), NEW t \in Tabs,
         NEW q \in SignupPage(A, N), page' = [page EXCEPT ![t] = q],
         q.flow = page[t].flow, q.checks = page[t].checks, q.timer = page[t].timer,
         q.status = page[t].status, q.nickname = page[t].nickname,
         q.phase \in {"ott", "provider-check", "nickname-check", "insert"}
           => page[t].nickname \in N,
         q.phase \in {"nickname-check", "insert"} => q.signs \in A,
         states' \subseteq states, spent' \subseteq spent \cup {Signups(A, N)!StateOf(t)},
         valid' \subseteq A, users' = users
  PROVE  SignupTypes(A, N)'
<1>1. PageTyped(q, A, N)
  BY SignupFields DEF PageTyped
<1>2. users' \subseteq Signups(A, N)!Users
  BY SignupFields
<1>. QED BY <1>1, <1>2, SignupTypesPage

\* The redirect and the callback.
LEMMA SignupTypesCallback ==
  ASSUME NEW A, NEW N, SignupInv(A, N), SignupTypes(A, N), NEW t \in Tabs,
         \/ Signups(A, N)!Begin(t) \/ Signups(A, N)!CallbackInvalid(t)
         \/ Signups(A, N)!CallbackFails(t) \/ Signups(A, N)!Replay(t)
         \/ Signups(A, N)!GoHome(t)
         \/ \E i \in A : Signups(A, N)!CallbackKnown(t, i) \/ Signups(A, N)!CallbackNew(t, i)
  PROVE  SignupTypes(A, N)'
<1>0. /\ page \in [Tabs -> SignupPage(A, N)] /\ page[t] \in SignupPage(A, N)
      /\ PageTyped(page[t], A, N) /\ valid \subseteq A /\ users \subseteq Signups(A, N)!Users
      /\ page[t].flow \in Nat /\ MaxFlows \in Nat
  BY SignupFields, SignupAssumption
<1>1. CASE Signups(A, N)!Begin(t)
  <2> DEFINE p == [page[t] EXCEPT !.phase = "provider"]
             n == page[t].flow + 1
             q == [p EXCEPT !.flow = n]
  <2>1. n \in 0 .. MaxFlows /\ n \in Nat
    BY <1>0, <1>1 DEF Signups!Begin
  <2>2. p \in SignupPage(A, N) /\ p.phase = "provider" /\ p.checks = page[t].checks
        /\ p.timer = page[t].timer /\ p.status = page[t].status
        /\ p.nickname = page[t].nickname /\ p.flow = page[t].flow
    BY <1>0 DEF SignupPage, SignupPhases
  <2>3. page' = [page EXCEPT ![t] = q]
    BY <1>0, <1>1 DEF Signups!Begin, SignupPage
  <2> HIDE DEF p, n
  <2>4. q \in SignupPage(A, N) /\ q.phase = "provider" /\ q.checks = page[t].checks
        /\ q.timer = page[t].timer /\ q.status = page[t].status
        /\ q.nickname = page[t].nickname /\ q.flow = n
    BY <2>1, <2>2 DEF SignupPage
  <2> HIDE DEF q
  <2>5. PageTyped(q, A, N)
    BY <1>0, <2>1, <2>4 DEF PageTyped
  <2>6. \A c \in states' : c \in states \/ c[2] = <<t, q.flow>>
    BY <1>1, <2>4 DEF Signups!Begin, Signups!SetState, n
  <2>. QED BY <1>0, <1>1, <2>3, <2>4, <2>5, <2>6, SignupTypesPage DEF Signups!Begin
<1>2. ASSUME NEW phase \in {"refused", "error"}, page' = [page EXCEPT ![t].phase = phase],
             states' \subseteq states, spent' \subseteq spent \cup {Signups(A, N)!StateOf(t)},
             UNCHANGED <<valid, users>>
      PROVE  SignupTypes(A, N)'
  <2> DEFINE q == [page[t] EXCEPT !.phase = phase]
  <2>1. q \in SignupPage(A, N) /\ q.phase = phase /\ q.checks = page[t].checks
        /\ q.timer = page[t].timer /\ q.status = page[t].status
        /\ q.nickname = page[t].nickname /\ q.flow = page[t].flow
    BY <1>0 DEF SignupPage, SignupPhases
  <2>2. page' = [page EXCEPT ![t] = q]
    BY <1>0, <1>2
  <2> HIDE DEF q
  <2>. QED BY <1>0, <1>2, <2>1, <2>2, SignupTypesPhase
<1>3. CASE Signups(A, N)!CallbackInvalid(t)
  BY <1>2, <1>3 DEF Signups!CallbackInvalid
<1>4. CASE Signups(A, N)!CallbackFails(t)
  BY <1>2, <1>4 DEF Signups!CallbackFails, Signups!Spend
<1>5. ASSUME NEW i \in A, Signups(A, N)!CallbackKnown(t, i) PROVE SignupTypes(A, N)'
  <2> DEFINE q == [page[t] EXCEPT !.phase = "done", !.user = i]
  <2>1. q \in SignupPage(A, N) /\ q.phase = "done" /\ q.checks = page[t].checks
        /\ q.timer = page[t].timer /\ q.status = page[t].status
        /\ q.nickname = page[t].nickname /\ q.flow = page[t].flow
    BY <1>0 DEF SignupPage, SignupPhases
  <2>2. page' = [page EXCEPT ![t] = q] /\ states' \subseteq states /\ valid' \subseteq A
        /\ spent' \subseteq spent \cup {Signups(A, N)!StateOf(t)} /\ users' = users
    BY <1>0, <1>5 DEF Signups!CallbackKnown, Signups!Spend
  <2> HIDE DEF q
  <2>. QED BY <1>0, <2>1, <2>2, SignupTypesPhase
<1>6. ASSUME NEW i \in A, Signups(A, N)!CallbackNew(t, i) PROVE SignupTypes(A, N)'
  <2> DEFINE q == [page[t] EXCEPT !.phase = "nickname", !.token = i]
  <2>1. q \in SignupPage(A, N) /\ q.phase = "nickname" /\ q.checks = page[t].checks
        /\ q.timer = page[t].timer /\ q.status = page[t].status
        /\ q.nickname = page[t].nickname /\ q.flow = page[t].flow
    BY <1>0 DEF SignupPage, SignupPhases
  <2>2. page' = [page EXCEPT ![t] = q] /\ states' \subseteq states /\ valid' \subseteq A
        /\ spent' \subseteq spent \cup {Signups(A, N)!StateOf(t)} /\ users' = users
    BY <1>0, <1>6 DEF Signups!CallbackNew, Signups!Spend
  <2> HIDE DEF q
  <2>. QED BY <1>0, <2>1, <2>2, SignupTypesPhase
<1>7. ASSUME NEW q, q \in SignupPage(A, N), page' = [page EXCEPT ![t] = q],
             q.flow = page[t].flow, q.checks = {}, q.timer = FALSE, q.status = "idle",
             q.phase \in {"home", "provider"}, UNCHANGED <<states, valid, users, spent>>
      PROVE  SignupTypes(A, N)'
  <2>1. PageTyped(q, A, N)
    BY <1>0, <1>7 DEF PageTyped
  <2>. QED BY <1>0, <1>7, <2>1, SignupTypesPage
<1>8. CASE Signups(A, N)!Replay(t)
  <2> DEFINE q == [Signups(A, N)!Blank EXCEPT !.phase = "provider", !.flow = page[t].flow,
                                !.token = page[t].token]
  <2>1. q \in SignupPage(A, N) /\ q.flow = page[t].flow /\ q.checks = {}
        /\ q.timer = FALSE /\ q.status = "idle" /\ q.phase = "provider"
    BY <1>0 DEF SignupPage, SignupPhases, Signups!Blank
  <2>. QED BY <1>0, <1>7, <1>8, <2>1 DEF Signups!Replay
<1>9. CASE Signups(A, N)!GoHome(t)
  <2> DEFINE q == [Signups(A, N)!Blank EXCEPT !.flow = page[t].flow, !.token = page[t].token]
  <2>1. q \in SignupPage(A, N) /\ q.flow = page[t].flow /\ q.checks = {}
        /\ q.timer = FALSE /\ q.status = "idle" /\ q.phase = "home"
    BY <1>0 DEF SignupPage, SignupPhases, Signups!Blank
  <2>. QED BY <1>0, <1>7, <1>9, <2>1 DEF Signups!GoHome
<1>. QED BY <1>1, <1>3, <1>4, <1>5, <1>6, <1>8, <1>9

\* The nickname modal.
LEMMA SignupTypesModal ==
  ASSUME NEW A, NEW N, SignupInv(A, N), SignupTypes(A, N), NEW t \in Tabs,
         \/ Signups(A, N)!SendCheck(t) \/ Signups(A, N)!NextStep(t)
         \/ Signups(A, N)!BackToNickname(t)
         \/ \E name \in N : \/ Signups(A, N)!Type(t, name)
                            \/ Signups(A, N)!CheckAnswered(t, name)
  PROVE  SignupTypes(A, N)'
<1>0. /\ page \in [Tabs -> SignupPage(A, N)] /\ page[t] \in SignupPage(A, N)
      /\ PageTyped(page[t], A, N) /\ valid \subseteq A /\ users \subseteq Signups(A, N)!Users
  BY SignupFields
<1>1. ASSUME NEW q, q \in SignupPage(A, N), page' = [page EXCEPT ![t] = q],
             q.flow = page[t].flow, q.phase = page[t].phase, q.signs = page[t].signs,
             q.nickname \in N, q.checks \subseteq N,
             UNCHANGED <<states, valid, users, spent>>
      PROVE  SignupTypes(A, N)'
  <2>1. PageTyped(q, A, N)
    BY <1>0, <1>1 DEF PageTyped
  <2>. QED BY <1>0, <1>1, <2>1, SignupTypesPage
<1>2. CASE Signups(A, N)!SendCheck(t)
  <2> DEFINE checks == page[t].checks \cup {page[t].nickname}
             q == [page[t] EXCEPT !.timer = FALSE, !.checks = checks]
  <2>1. page' = [page EXCEPT ![t] = q]
    BY <1>0, <1>2 DEF Signups!SendCheck
  <2>2. page[t].nickname \in N /\ checks \subseteq N
    BY <1>0, <1>2 DEF PageTyped, Signups!SendCheck
  <2> HIDE DEF checks
  <2>3. q \in SignupPage(A, N) /\ q.flow = page[t].flow /\ q.phase = page[t].phase
        /\ q.signs = page[t].signs /\ q.nickname = page[t].nickname /\ q.checks = checks
    BY <1>0, <2>2 DEF SignupPage
  <2> HIDE DEF q
  <2>. QED BY <1>1, <1>2, <2>1, <2>2, <2>3 DEF Signups!SendCheck
<1>3. ASSUME NEW phase \in {"ott", "nickname"}, page' = [page EXCEPT ![t].phase = phase],
             page[t].nickname \in N, UNCHANGED <<states, valid, users, spent>>
      PROVE  SignupTypes(A, N)'
  <2> DEFINE q == [page[t] EXCEPT !.phase = phase]
  <2>1. q \in SignupPage(A, N) /\ q.phase = phase /\ q.checks = page[t].checks
        /\ q.timer = page[t].timer /\ q.status = page[t].status
        /\ q.nickname = page[t].nickname /\ q.flow = page[t].flow
    BY <1>0 DEF SignupPage, SignupPhases
  <2>2. page' = [page EXCEPT ![t] = q]
    BY <1>0, <1>3
  <2> HIDE DEF q
  <2>. QED BY <1>0, <1>3, <2>1, <2>2, SignupTypesPhase
<1>4. CASE Signups(A, N)!NextStep(t)
  <2>1. page[t].nickname \in N
    BY <1>0, <1>4 DEF Signups!NextStep, PageTyped
  <2>. QED BY <1>3, <1>4, <2>1 DEF Signups!NextStep
<1>5. CASE Signups(A, N)!BackToNickname(t)
  <2>1. page[t].nickname \in N
    BY <1>0, <1>5 DEF Signups!BackToNickname, PageTyped
  <2>. QED BY <1>3, <1>5, <2>1 DEF Signups!BackToNickname
<1>6. ASSUME NEW name \in N, Signups(A, N)!Type(t, name) PROVE SignupTypes(A, N)'
  <2> DEFINE q == [page[t] EXCEPT !.nickname = name, !.status = "checking", !.timer = TRUE]
  <2>1. q \in SignupPage(A, N) /\ q.flow = page[t].flow /\ q.phase = page[t].phase
        /\ q.signs = page[t].signs /\ q.nickname = name /\ q.checks = page[t].checks
    BY <1>0 DEF SignupPage
  <2>2. page' = [page EXCEPT ![t] = q] /\ page[t].checks \subseteq N
    BY <1>0, <1>6 DEF Signups!Type, PageTyped
  <2> HIDE DEF q
  <2>. QED BY <1>1, <1>6, <2>1, <2>2 DEF Signups!Type
<1>7. ASSUME NEW name \in N, Signups(A, N)!CheckAnswered(t, name) PROVE SignupTypes(A, N)'
  <2>1. PICK answer :
        /\ answer \in {IF Signups(A, N)!Taken(name) THEN "taken" ELSE "available", "idle"}
        /\ page' = [page EXCEPT ![t].checks = @ \ {name}, ![t].status = answer]
    BY <1>7 DEF Signups!CheckAnswered
  <2>2. answer \in {"taken", "available", "idle"}
    BY <2>1
  <2> DEFINE checks == page[t].checks \ {name}
             q == [page[t] EXCEPT !.checks = checks, !.status = answer]
  <2>3. page' = [page EXCEPT ![t] = q]
    BY <1>0, <2>1 DEF SignupPage
  <2>4. page[t].nickname \in N /\ checks \subseteq N
    BY <1>0, <1>7 DEF PageTyped, Signups!CheckAnswered
  <2> HIDE DEF checks
  <2>5. q \in SignupPage(A, N) /\ q.flow = page[t].flow /\ q.phase = page[t].phase
        /\ q.signs = page[t].signs /\ q.nickname = page[t].nickname /\ q.checks = checks
    BY <1>0, <2>2, <2>4 DEF SignupPage
  <2> HIDE DEF q
  <2>. QED BY <1>1, <1>7, <2>3, <2>4, <2>5 DEF Signups!CheckAnswered
<1>. QED BY <1>2, <1>4, <1>5, <1>6, <1>7

\* Completing the sign-up.
LEMMA SignupTypesCompletion ==
  ASSUME NEW A, NEW N, SignupInv(A, N), SignupTypes(A, N), NEW t \in Tabs,
         \/ Signups(A, N)!Submit(t) \/ Signups(A, N)!CheckIdentity(t)
         \/ Signups(A, N)!CheckNickname(t) \/ Signups(A, N)!Insert(t)
  PROVE  SignupTypes(A, N)'
<1>0. /\ page \in [Tabs -> SignupPage(A, N)] /\ page[t] \in SignupPage(A, N)
      /\ PageTyped(page[t], A, N) /\ valid \subseteq A /\ users \subseteq Signups(A, N)!Users
      /\ signup \in A \cup {Nobody}
  BY SignupFields DEF SignupInv
<1>1. ASSUME NEW phase \in SignupPhases, NEW signs \in A \cup {Nobody},
             page' = [page EXCEPT ![t] = [page[t] EXCEPT !.phase = phase, !.signs = signs]],
             page[t].nickname \in N,
             phase \in {"nickname-check", "insert"} => signs \in A,
             UNCHANGED <<states, valid, users, spent>>
      PROVE  SignupTypes(A, N)'
  <2> DEFINE q == [page[t] EXCEPT !.phase = phase, !.signs = signs]
  <2>1. q \in SignupPage(A, N) /\ q.phase = phase /\ q.checks = page[t].checks
        /\ q.timer = page[t].timer /\ q.status = page[t].status /\ q.signs = signs
        /\ q.nickname = page[t].nickname /\ q.flow = page[t].flow
    BY <1>0 DEF SignupPage
  <2>2. page' = [page EXCEPT ![t] = q]
    BY <1>1
  <2> HIDE DEF q
  <2>. QED BY <1>0, <1>1, <2>1, <2>2, SignupTypesPhase
<1>2. CASE Signups(A, N)!Submit(t)
  <2>1. \E signs \in A \cup {Nobody} :
          page' = [page EXCEPT ![t] = [page[t] EXCEPT !.phase = "provider-check",
              !.signs = signs]]
    BY <1>0, <1>2 DEF Signups!Submit, SignupPage
  <2>2. page[t].nickname \in N
    BY <1>0, <1>2 DEF Signups!Submit, PageTyped
  <2>. QED BY <1>1, <1>2, <2>1, <2>2 DEF Signups!Submit, SignupPhases
<1>3. ASSUME Signups(A, N)!Refuse(t), page[t].nickname \in N, UNCHANGED users
      PROVE  SignupTypes(A, N)'
  <2>1. page' = [page EXCEPT ![t] = [page[t] EXCEPT !.phase = "ott", !.signs = Nobody]]
    BY <1>0, <1>3 DEF Signups!Refuse
  <2>. QED BY <1>1, <1>3, <2>1 DEF Signups!Refuse, SignupPhases
<1>4. ASSUME NEW phase \in {"nickname-check", "insert"}, page' = [page EXCEPT ![t].phase = phase],
             page[t].nickname \in N, page[t].signs \in A,
             UNCHANGED <<states, valid, users, spent>>
      PROVE  SignupTypes(A, N)'
  <2> DEFINE q == [page[t] EXCEPT !.phase = phase]
  <2>1. q \in SignupPage(A, N) /\ q.phase = phase /\ q.checks = page[t].checks
        /\ q.timer = page[t].timer /\ q.status = page[t].status /\ q.signs = page[t].signs
        /\ q.nickname = page[t].nickname /\ q.flow = page[t].flow
    BY <1>0 DEF SignupPage, SignupPhases
  <2>2. page' = [page EXCEPT ![t] = q]
    BY <1>0, <1>4
  <2> HIDE DEF q
  <2>. QED BY <1>0, <1>4, <2>1, <2>2, SignupTypesPhase
<1>5. CASE Signups(A, N)!CheckIdentity(t)
  <2>1. page[t].nickname \in N
    BY <1>0, <1>5 DEF Signups!CheckIdentity, PageTyped
  <2>2. CASE page[t].signs \notin valid \/ Signups(A, N)!Registered(page[t].signs)
    BY <1>3, <1>5, <2>1, <2>2 DEF Signups!CheckIdentity, Signups!Refuse
  <2>3. CASE ~(page[t].signs \notin valid \/ Signups(A, N)!Registered(page[t].signs))
    BY <1>0, <1>4, <1>5, <2>1, <2>3 DEF Signups!CheckIdentity
  <2>. QED BY <2>2, <2>3
<1>6. CASE Signups(A, N)!CheckNickname(t)
  <2>1. page[t].nickname \in N /\ page[t].signs \in A
    BY <1>0, <1>6 DEF Signups!CheckNickname, PageTyped
  <2>2. CASE Signups(A, N)!Taken(page[t].nickname)
    BY <1>3, <1>6, <2>1, <2>2 DEF Signups!CheckNickname, Signups!Refuse
  <2>3. CASE ~Signups(A, N)!Taken(page[t].nickname)
    BY <1>4, <1>6, <2>1, <2>3 DEF Signups!CheckNickname
  <2>. QED BY <2>2, <2>3
<1>7. CASE Signups(A, N)!Insert(t)
  <2>1. page[t].nickname \in N /\ page[t].signs \in A
    BY <1>0, <1>7 DEF Signups!Insert, PageTyped
  <2>2. CASE ~Signups(A, N)!Insertable(t)
    BY <1>3, <1>7, <2>1, <2>2 DEF Signups!Insert, Signups!Refuse
  <2>3. CASE Signups(A, N)!Insertable(t)
    <3> DEFINE q == [Signups(A, N)!Blank EXCEPT !.phase = "done", !.flow = page[t].flow,
                                  !.user = page[t].signs]
               u == [identity |-> page[t].signs, nickname |-> page[t].nickname]
    <3>1. q \in SignupPage(A, N) /\ q.flow = page[t].flow /\ q.checks = {}
          /\ q.timer = FALSE /\ q.status = "idle" /\ q.phase = "done"
      BY <1>0 DEF SignupPage, SignupPhases, Signups!Blank
    <3>2. u \in Signups(A, N)!Users
      BY <2>1 DEF Signups!Users
    <3>3. page' = [page EXCEPT ![t] = q] /\ users' = users \cup {u}
          /\ UNCHANGED <<states, valid, spent>>
      BY <1>7, <2>3 DEF Signups!Insert
    <3> HIDE DEF q, u
    <3>4. PageTyped(q, A, N)
      BY <1>0, <3>1 DEF PageTyped
    <3>. QED BY <1>0, <3>1, <3>2, <3>3, <3>4, SignupTypesPage
  <2>. QED BY <2>2, <2>3
<1>. QED BY <1>2, <1>5, <1>6, <1>7

LEMMA SignupTypesStep ==
  ASSUME NEW A, NEW N, SignupInv(A, N), SignupTypes(A, N), [Signups(A, N)!Next]_signups
  PROVE  SignupTypes(A, N)'
<1>1. ASSUME UNCHANGED <<page, users>>, valid' \subseteq A, states' \subseteq states,
             spent' \subseteq Signups(A, N)!States
      PROVE  SignupTypes(A, N)'
  <2>1. Signups(A, N)!States' = Signups(A, N)!States /\ Signups(A, N)!Users' = Signups(A, N)!Users
    BY DEF Signups!States, Signups!Users
  <2>. QED BY <1>1, <2>1 DEF SignupTypes, PageTyped
<1>2. ASSUME NEW c \in states, Signups(A, N)!StateExpires(c) PROVE SignupTypes(A, N)'
  BY <1>1, <1>2 DEF Signups!StateExpires, SignupTypes
<1>3. ASSUME NEW i \in A, Signups(A, N)!SignupExpires(i) PROVE SignupTypes(A, N)'
  BY <1>1, <1>3 DEF Signups!SignupExpires, SignupTypes
<1>4. CASE UNCHANGED signups
  BY <1>1, <1>4 DEF signups, SignupTypes
<1>. QED BY <1>2, <1>3, <1>4, SignupTypesCallback, SignupTypesModal, SignupTypesCompletion
         DEF Signups!Next

LEMMA SignupTyped ==
  ASSUME NEW A, NEW N, SignupInv(A, N), SignupTypes(A, N)
  PROVE  Signups(A, N)!TypeOK
BY DEF SignupInv, SignupPage, SignupPhases, SignupTypes, PageTyped, Signups!TypeOK

Typed ==
    /\ CatalogueInv
    /\ part = "box office" => RankInv(Weekly) /\ fetches <= WeeklyFetches
    /\ part = "trending" => RankInv(Trending) /\ fetches <= DailyFetches
    /\ part = "search" => SearchInv /\ SearchTypes
    /\ part = "related" => RelatedInv /\ RelatedTypes
    /\ part = "people" => PersonInv
    /\ part = "two persons" =>
         SignupInv(Identities, OneNickname) /\ SignupTypes(Identities, OneNickname)
    /\ part = "one person" =>
         SignupInv(OneIdentity, Nicknames) /\ SignupTypes(OneIdentity, Nicknames)
    /\ part = "image" => Images!TypeOK

LEMMA TypedStep ==
  ASSUME Typed, [ServicesNext]_<<part, backend>>
  PROVE  Typed'
<1>1. CatalogueInv'
  BY Frame, CatalogueNext DEF Typed
<1>2. part = "box office" => RankInv(Weekly)' /\ fetches' <= WeeklyFetches
  <2> SUFFICES ASSUME part = "box office"
               PROVE  RankInv(Weekly)' /\ fetches' <= WeeklyFetches
    OBVIOUS
  <2>1. [Lists(Weekly, WeeklyFetches)!Next]_ranking /\ WeeklyFetches \in Nat
    BY Frame, RankingAssumption
  <2>. QED BY <2>1, RankStep, RankClock DEF Typed
<1>3. part = "trending" => RankInv(Trending)' /\ fetches' <= DailyFetches
  <2> SUFFICES ASSUME part = "trending"
               PROVE  RankInv(Trending)' /\ fetches' <= DailyFetches
    OBVIOUS
  <2>1. [Lists(Trending, DailyFetches)!Next]_ranking /\ DailyFetches \in Nat
    BY Frame, RankingAssumption
  <2>. QED BY <2>1, RankStep, RankClock DEF Typed
<1>4. part = "search" => SearchInv' /\ SearchTypes'
  BY Frame, SearchStep, SearchTypesStep DEF Typed
<1>5. part = "related" => RelatedInv' /\ RelatedTypes'
  BY Frame, RelatedStep, RelatedTypesStep DEF Typed
<1>6. part = "people" => PersonInv'
  BY Frame, PersonStep DEF Typed
<1>7. part = "two persons" =>
        SignupInv(Identities, OneNickname)' /\ SignupTypes(Identities, OneNickname)'
  <2> SUFFICES ASSUME part = "two persons"
               PROVE  SignupInv(Identities, OneNickname)' /\ SignupTypes(Identities, OneNickname)'
    OBVIOUS
  <2>1. [Signups(Identities, OneNickname)!Next]_signups
    BY Frame
  <2>. QED BY <2>1, SignupStep, SignupTypesStep DEF Typed
<1>8. part = "one person" =>
        SignupInv(OneIdentity, Nicknames)' /\ SignupTypes(OneIdentity, Nicknames)'
  <2> SUFFICES ASSUME part = "one person"
               PROVE  SignupInv(OneIdentity, Nicknames)' /\ SignupTypes(OneIdentity, Nicknames)'
    OBVIOUS
  <2>1. [Signups(OneIdentity, Nicknames)!Next]_signups
    BY Frame
  <2>. QED BY <2>1, SignupStep, SignupTypesStep DEF Typed
<1>9. part = "image" => Images!TypeOK'
  BY Frame, ImageStep DEF Typed
<1>10. part' = part
  BY Frame
<1>. QED BY <1>1, <1>2, <1>3, <1>4, <1>5, <1>6, <1>7, <1>8, <1>9, <1>10 DEF Typed

\* Every component of the backend keeps its variables in their types, among them that an
\* answer of the chat never holds more cards than its limit, that the cache of related
\* contents never holds more entries than its limit or two of one content, that a content
\* is loaded once at a time, and that a row of users has an identity and a nickname: for
\* any number of tabs, requests, contents, persons and entries.
THEOREM TypesAlwaysOK == ServicesSpec => []TypesOK
<1>1. ServicesInit => Typed
  <2> SUFFICES ASSUME ServicesInit PROVE Typed
    OBVIOUS
  <2>0. \A n \in Nat : 0 <= n
    OBVIOUS
  <2>1. CatalogueInv
    BY CatalogueInit DEF ServicesInit
  <2>2. part = "box office" => RankInv(Weekly) /\ fetches <= WeeklyFetches
    <3> SUFFICES ASSUME part = "box office" PROVE RankInv(Weekly) /\ fetches <= WeeklyFetches
      OBVIOUS
    <3>1. Lists(Weekly, WeeklyFetches)!Init
      BY DEF ServicesInit
    <3>2. fetches <= WeeklyFetches
      <4>1. fetches = 0 /\ WeeklyFetches \in Nat
        BY <3>1, RankingAssumption DEF Lists!Init
      <4>. QED BY <2>0, <4>1
    <3>3. RankInv(Weekly)
      BY <3>1, RankInit
    <3>. QED BY <3>2, <3>3
  <2>3. part = "trending" => RankInv(Trending) /\ fetches <= DailyFetches
    <3> SUFFICES ASSUME part = "trending" PROVE RankInv(Trending) /\ fetches <= DailyFetches
      OBVIOUS
    <3>1. Lists(Trending, DailyFetches)!Init
      BY DEF ServicesInit
    <3>2. fetches <= DailyFetches
      <4>1. fetches = 0 /\ DailyFetches \in Nat
        BY <3>1, RankingAssumption DEF Lists!Init
      <4>. QED BY <2>0, <4>1
    <3>3. RankInv(Trending)
      BY <3>1, RankInit
    <3>. QED BY <3>2, <3>3
  <2>4. /\ part = "search" => SearchInv /\ SearchTypes
        /\ part = "related" => RelatedInv /\ RelatedTypes
        /\ part = "people" => PersonInv
        /\ part = "image" => Images!TypeOK
    BY SearchInit, SearchTypesInit, RelatedInit, RelatedTypesInit, PersonInit, ImageInit
    DEF ServicesInit
  <2>5. part = "two persons" =>
          SignupInv(Identities, OneNickname) /\ SignupTypes(Identities, OneNickname)
    BY SignupInit, SignupTypesInit DEF ServicesInit
  <2>6. part = "one person" =>
          SignupInv(OneIdentity, Nicknames) /\ SignupTypes(OneIdentity, Nicknames)
    BY SignupInit, SignupTypesInit DEF ServicesInit
  <2>. QED BY <2>1, <2>2, <2>3, <2>4, <2>5, <2>6 DEF Typed
<1>2. Typed /\ [ServicesNext]_<<part, backend>> => Typed'
  BY TypedStep
<1>3. Typed => TypesOK
  <2> SUFFICES ASSUME Typed PROVE TypesOK
    OBVIOUS
  <2>1. TypeOK
    BY DEF Typed, CatalogueInv, RowsTyped, Caches, Made, OneRefresh, TypeOK
  <2>2. /\ part = "box office" => Lists(Weekly, WeeklyFetches)!TypeOK
        /\ part = "trending" => Lists(Trending, DailyFetches)!TypeOK
    <3>1. WeeklyFetches \in Nat /\ DailyFetches \in Nat
      BY RankingAssumption
    <3>. QED BY <3>1, RankTyped DEF Typed
  <2>3. /\ part = "search" => Search!TypeOK
        /\ part = "related" => Related!TypeOK
        /\ part = "people" => People!TypeOK
        /\ part = "image" => Images!TypeOK
    BY SearchTyped, RelatedTyped, PersonTyped DEF Typed
  <2>4. /\ part = "two persons" => Signups(Identities, OneNickname)!TypeOK
        /\ part = "one person" => Signups(OneIdentity, Nicknames)!TypeOK
    BY SignupTyped DEF Typed
  <2>. QED BY <2>1, <2>2, <2>3, <2>4 DEF TypesOK
<1>. QED BY <1>1, <1>2, <1>3, PTL DEF ServicesSpec
=============================================================================
