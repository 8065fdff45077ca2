-------------------------------- MODULE Arrays --------------------------------
(***************************************************************************)
(* The array methods of the source, as functions of first-order arguments   *)
(* (an operator that takes an operator can be run but not be proved about), *)
(* and what the pages say about arrays.  The modules that use it are        *)
(* instantiated side by side, and an instance repeats all that it extends:  *)
(* hence the few operators here, and not the community modules.            *)
(***************************************************************************)
EXTENDS Naturals, Sequences, FiniteSets

\* s.filter: the elements of s at the positions I, in their order.
Keep(s, I) ==
    LET kept[i \in 0 .. Len(s)] ==
          IF i = 0 THEN <<>>
          ELSE IF i \in I THEN Append(kept[i - 1], s[i]) ELSE kept[i - 1]
    IN  kept[Len(s)]

Elements(s) == {s[i] : i \in DOMAIN s}

\* The elements of s other than those of e.
Without(s, e) == Keep(s, {i \in DOMAIN s : s[i] \notin e})

NoRepeats(s) == \A i, j \in DOMAIN s : s[i] = s[j] => i = j

IsBeginning(s, t) == Len(s) <= Len(t) /\ SubSeq(s, 1, Len(s)) = SubSeq(t, 1, Len(s))

\* The elements of S in every order, and those of every part of S.
Orderings(S) ==
    {f \in [1 .. Cardinality(S) -> S] :
        \A i, j \in 1 .. Cardinality(S) : i # j => f[i] # f[j]}

Arrangements(S) == UNION {Orderings(s) : s \in SUBSET S}
=============================================================================
