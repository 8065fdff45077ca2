---------------------------- MODULE RelatedContents ----------------------------
(***************************************************************************)
(* backend/src/recommendation/related-content.service.ts: the contents      *)
(* shown beside another one, and content-metadata.service.ts, whose rows    *)
(* (embeddings) decide where a related content comes from.                  *)
(*                                                                         *)
(* An answer is loaded once per content, kept for an hour in a cache of     *)
(* bounded size in the order of use, and shared by the requests that come   *)
(* while it is loaded.  The queries of a load run in one READ COMMITTED     *)
(* transaction: each sees what was committed before it, so that metadata    *)
(* can arrive, and an administrator can block a content, between two of     *)
(* them.  Time passes in ticks; a load is cut off by its statement timeouts *)
(* before a second tick.                                                    *)
(***************************************************************************)
EXTENDS Naturals, Sequences, FiniteSets, Arrays

CONSTANTS
    Sources,     \* the contents that are asked about: they have no common genre
    Related,     \* the contents that share a genre with them
    Recent,      \* those of them in the pool of recent releases
    Popular,     \* those of them in the pool of most votes
    MaxEntries,  \* size of the cache (500 in the code)
    TTL,         \* ticks an entry is served (one hour)
    Slots,       \* contents in an answer (6)
    FreshSlots   \* those of them that are recent ones without metadata (2)

NotBlocked == TTL + 2
Steps == {"source", "fresh", "vector", "popular", "store"}

VARIABLES
    described,   \* contents that have metadata
    blockedFor,  \* ticks since a content was blocked as adult, or NotBlocked
    cache,       \* the entries, least recently used first
    loads,       \* the loads in progress, in relatedContentInFlight
    relatedAnswer  \* the last answer given, with what is known about it

relatedVars == <<described, blockedFor, cache, loads, relatedAnswer>>

NoAnswer == [key |-> "none"]

Init ==
    /\ described \in SUBSET (Related \cup Sources)
    /\ blockedFor = [c \in Related |-> NotBlocked]
    /\ cache = <<>>
    /\ loads = {}
    /\ relatedAnswer = NoAnswer

Visible == {c \in Related : blockedFor[c] = NotBlocked}

\* Any n of the contents s: the order of a query is left open.
AtMost(n, s) ==
    {t \in SUBSET s : Cardinality(t) = IF Cardinality(s) < n THEN Cardinality(s) ELSE n}

-----------------------------------------------------------------------------
(* findRelatedContents.                                                    *)

\* The cache has at most one entry for a content.
Places(k) == {i \in DOMAIN cache : cache[i].key = k}
Entry(k)  == cache[CHOOSE i \in Places(k) : TRUE]
Others(k) == Keep(cache, {i \in DOMAIN cache : cache[i].key # k})

NewLoad(k) == [key |-> k, at |-> "source", embedded |-> FALSE, old |-> {}, new |-> {},
               changed |-> FALSE, ticked |-> FALSE]

Answer(k, e) == relatedAnswer' = [key |-> k, old |-> e.old, new |-> e.new, changed |-> e.changed]

\* Fault: a hit keeps the entry alive.
HitRenews(k) ==
    /\ Places(k) # {} /\ Entry(k).age < TTL
    /\ cache' = Append(Others(k), [Entry(k) EXCEPT !.age = 0])
    /\ Answer(k, Entry(k))
    /\ UNCHANGED <<described, blockedFor, loads>>

\* A hit: the entry becomes the most recently used one, and no younger.
Hit(k) ==
    /\ Places(k) # {} /\ Entry(k).age < TTL
    /\ cache' = Append(Others(k), Entry(k))
    /\ Answer(k, Entry(k))
    /\ UNCHANGED <<described, blockedFor, loads>>

\* Fault: a request does not look for a load that is under way.
MissAgain(k) ==
    /\ Places(k) # {} => Entry(k).age >= TTL
    /\ Cardinality(loads) < 2
    /\ cache' = Others(k)
    /\ loads' = loads \cup {NewLoad(k)}
    /\ UNCHANGED <<described, blockedFor, relatedAnswer>>

\* A miss: an expired entry is removed; the request waits for the load of its
\* content, and starts it when there is none.
Miss(k) ==
    /\ Places(k) # {} => Entry(k).age >= TTL
    /\ cache' = Others(k)
    /\ loads' = IF \E l \in loads : l.key = k THEN loads
                ELSE loads \cup {NewLoad(k)}
    /\ UNCHANGED <<described, blockedFor, relatedAnswer>>

-----------------------------------------------------------------------------
(* loadRelatedContents.                                                    *)
Replace(l, m) == loads' = (loads \ {l}) \cup {m}

\* The content and its embedding.  One that is not indexable or has no genre gets
\* an empty answer.
LoadSource(l) ==
    /\ l.at = "source"
    /\ \E step \in {"fresh", "store"} :
         Replace(l, [l EXCEPT !.embedded = l.key \in described, !.at = step])
    /\ UNCHANGED <<described, blockedFor, cache, relatedAnswer>>

\* Fault: the recent contents are taken whether they have metadata or not.
LoadFreshAny(l) ==
    /\ l.at = "fresh"
    /\ \E new \in AtMost(FreshSlots, Recent \cap Visible) :
         Replace(l, [l EXCEPT !.new = new, !.at = "vector"])
    /\ UNCHANGED <<described, blockedFor, cache, relatedAnswer>>

\* Recent contents without metadata.
LoadFresh(l) ==
    /\ l.at = "fresh"
    /\ \E new \in AtMost(FreshSlots, (Recent \cap Visible) \ described) :
         Replace(l, [l EXCEPT !.new = new, !.at = "vector"])
    /\ UNCHANGED <<described, blockedFor, cache, relatedAnswer>>

Left(l) == Slots - Cardinality(l.new)

\* The nearest contents with metadata, when the content has an embedding.  The
\* index is searched approximately: fewer may come back than there are.
LoadVector(l) ==
    /\ l.at = "vector"
    /\ \E old \in SUBSET (IF l.embedded THEN Visible \cap described ELSE {}) :
         /\ Cardinality(old) <= Left(l)
         /\ Replace(l, [l EXCEPT !.old = old, !.at = "popular"])
    /\ UNCHANGED <<described, blockedFor, cache, relatedAnswer>>

\* The slots that are left go to popular contents with metadata that are not
\* among the nearest ones.
LoadPopular(l) ==
    /\ l.at = "popular"
    /\ \E more \in AtMost(Left(l) - Cardinality(l.old),
                          (Popular \cap Visible \cap described) \ l.old) :
         Replace(l, [l EXCEPT !.old = @ \cup more, !.at = "store"])
    /\ UNCHANGED <<described, blockedFor, cache, relatedAnswer>>

\* setRelatedContentCache, and the answer to the requests that wait.
Store(l) ==
    /\ l.at = "store"
    /\ LET kept == Others(l.key)
           room == IF Len(kept) >= MaxEntries THEN SubSeq(kept, Len(kept) - MaxEntries + 2, Len(kept))
                                              ELSE kept
       IN  cache' = Append(room, [key |-> l.key, old |-> l.old, new |-> l.new,
                                  changed |-> l.changed, age |-> 0])
    /\ loads' = loads \ {l}
    /\ Answer(l.key, l)
    /\ UNCHANGED <<described, blockedFor>>

\* A query fails or runs into its timeout: the requests that wait fail, and the
\* next one loads again.
LoadFails(l) ==
    /\ loads' = loads \ {l}
    /\ UNCHANGED <<described, blockedFor, cache, relatedAnswer>>

-----------------------------------------------------------------------------
(* What happens around it.                                                 *)

\* cacheContentMetadata.
Describe(c) ==
    /\ c \notin described
    /\ described' = described \cup {c}
    /\ loads' = {[l EXCEPT !.changed = TRUE] : l \in loads}
    /\ UNCHANGED <<blockedFor, cache, relatedAnswer>>

\* An administrator blocks a content as adult, or takes that back.
Toggle(c) ==
    /\ blockedFor' = [blockedFor EXCEPT ![c] = IF @ = NotBlocked THEN 0 ELSE NotBlocked]
    /\ UNCHANGED <<described, cache, loads, relatedAnswer>>

Tick ==
    /\ \A l \in loads : ~l.ticked
    /\ blockedFor' = [c \in Related |-> IF blockedFor[c] <= TTL THEN blockedFor[c] + 1
                                                               ELSE blockedFor[c]]
    /\ cache' = [i \in DOMAIN cache |-> [cache[i] EXCEPT !.age = IF @ < TTL THEN @ + 1 ELSE @]]
    /\ loads' = {[l EXCEPT !.ticked = TRUE] : l \in loads}
    /\ relatedAnswer' = NoAnswer
    /\ UNCHANGED described

Next ==
    \/ \E k \in Sources : Hit(k) \/ Miss(k)
    \/ \E l \in loads : \/ LoadSource(l) \/ LoadFresh(l) \/ LoadVector(l)
                        \/ LoadPopular(l) \/ Store(l) \/ LoadFails(l)
    \/ \E c \in Related \cup Sources : Describe(c)
    \/ \E c \in Related : Toggle(c)
    \/ Tick

Spec == Init /\ [][Next]_relatedVars

-----------------------------------------------------------------------------
(* Types: the cache never holds more than its limit nor two entries of one  *)
(* content, and one content is loaded once at a time.                       *)
TypeOK ==
    /\ described \subseteq Related \cup Sources
    /\ blockedFor \in [Related -> 0 .. NotBlocked]
    /\ Len(cache) <= MaxEntries
    /\ \A i, j \in DOMAIN cache : cache[i].key = cache[j].key => i = j
    /\ \A l, m \in loads : l.key = m.key => l = m
    /\ \A l \in loads : l.key \in Sources /\ l.at \in Steps

(* A content that was blocked is shown for as long as entries live, and no  *)
(* longer, however often they are asked for and whatever was being loaded   *)
(* when it was blocked.                                                     *)
BlockedAgesOut ==
    relatedAnswer # NoAnswer =>
        \A c \in relatedAnswer.old \cup relatedAnswer.new :
            blockedFor[c] = NotBlocked \/ blockedFor[c] <= TTL

(* No content is shown twice and no more than the slots are filled: a       *)
(* recent content becomes an established one only when its metadata arrives *)
(* in the middle of the load, and then the answer may repeat it.            *)
ShownOnce ==
    relatedAnswer # NoAnswer =>
        /\ ~relatedAnswer.changed => relatedAnswer.old \cap relatedAnswer.new = {}
        /\ Cardinality(relatedAnswer.old) + Cardinality(relatedAnswer.new) <= Slots
=============================================================================
