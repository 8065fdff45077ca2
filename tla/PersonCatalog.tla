----------------------------- MODULE PersonCatalog -----------------------------
(***************************************************************************)
(* backend/src/contents/services/person-catalog.service.ts and              *)
(* person-cache.ts: what TMDB says about a person is kept for 72 hours in a  *)
(* cache whose entries and bytes are limited, and is used beyond that while  *)
(* TMDB does not answer; integrations/tmdb repeats a request once that timed *)
(* out or was reset.  The details and the filmography of a person are two    *)
(* caches of the same kind: one of them is modelled.                         *)
(***************************************************************************)
EXTENDS Arrays

CONSTANTS
    Persons,
    Requests,    \* requests that run at once
    Sizes,       \* bytes an answer can have
    MaxEntries,  \* PERSON_CACHE_MAX_ENTRIES
    MaxBytes,    \* PERSON_..._CACHE_MAX_BYTES
    RetryCount   \* TMDB_RETRY_COUNT (1)

VARIABLES
    entries,     \* the Map: least recently used first
    bytes,       \* payloadBytes
    person       \* what each request is doing, and its answer

personVars == <<entries, bytes, person>>

Idle == [at |-> "idle"]
Init == entries = <<>> /\ bytes = 0 /\ person = [r \in Requests |-> Idle]

Find(p)   == Keep(entries, {i \in DOMAIN entries : entries[i].key = p})
Others(p) == Keep(entries, {i \in DOMAIN entries : entries[i].key # p})

\* The bytes of the entries s.
Total(s) ==
    LET sum[i \in 0 .. Len(s)] == IF i = 0 THEN 0 ELSE sum[i - 1] + s[i].size
    IN  sum[Len(s)]

\* PersonCache.get makes the entry the most recently used one, old or not.
Get(r, p) ==
    /\ person[r].at = "idle"
    /\ entries' = Others(p) \o Find(p)
    /\ person' = [person EXCEPT ![r] =
            IF Find(p) # <<>> /\ Head(Find(p)).young
              THEN [at |-> "answered", how |-> "young"]
              ELSE [at |-> "fetch", key |-> p, known |-> Find(p) # <<>>, attempt |-> 0]]
    /\ UNCHANGED bytes

\* There is room for size bytes beside the entries s.
Fits(s, size) == Len(s) < MaxEntries /\ Total(s) + size <= MaxBytes

After(s, k) == SubSeq(s, k + 1, Len(s))

\* What is left of the entries s to make room for size bytes: the oldest ones go, and
\* no more than needed.
Room(s, size) ==
    LET k == CHOOSE n \in 0 .. Len(s) :
                /\ Fits(After(s, n), size) \/ n = Len(s)
                /\ \A m \in 0 .. n - 1 : ~Fits(After(s, m), size)
    IN  After(s, k)

\* Fault: an entry that is replaced stays counted.
SetCountsTwice(p, size) ==
    LET kept == Room(Others(p), size) IN
    IF size > MaxBytes THEN entries' = Others(p) /\ UNCHANGED bytes
    ELSE /\ entries' = Append(kept, [key |-> p, size |-> size, young |-> TRUE])
         /\ bytes' = bytes - (Total(Others(p)) - Total(kept)) + size

\* PersonCache.set: what is too big is not kept, and removes what was there.
Set(p, size) ==
    LET kept == Room(Others(p), size) IN
    IF size > MaxBytes THEN entries' = Others(p) /\ bytes' = bytes - Total(Find(p))
    ELSE /\ entries' = Append(kept, [key |-> p, size |-> size, young |-> TRUE])
         /\ bytes' = bytes - Total(Find(p)) - (Total(Others(p)) - Total(kept)) + size

Answer(r, how) == person' = [person EXCEPT ![r] = [at |-> "answered", how |-> how]]

Fetched(r) ==
    /\ person[r].at = "fetch"
    /\ \E size \in Sizes : Set(person[r].key, size)
    /\ Answer(r, "fetched")

\* 404, or another error: no stale answer, whatever is in the cache.
Refused(r) ==
    /\ person[r].at = "fetch"
    /\ \E how \in {"not found", "error"} : Answer(r, how)
    /\ UNCHANGED <<entries, bytes>>

\* A timeout or a reset: tried again, then answered with what was there when the
\* request came.
Transient(r) ==
    /\ person[r].at = "fetch"
    /\ IF person[r].attempt < RetryCount
         THEN person' = [person EXCEPT ![r].attempt = @ + 1]
         ELSE Answer(r, IF person[r].known THEN "stale" ELSE "error")
    /\ UNCHANGED <<entries, bytes>>

Leave(r) ==
    /\ person[r].at = "answered"
    /\ person' = [person EXCEPT ![r] = Idle]
    /\ UNCHANGED <<entries, bytes>>

GrowsOld ==
    /\ \E i \in DOMAIN entries :
         entries[i].young /\ entries' = [entries EXCEPT ![i].young = FALSE]
    /\ UNCHANGED <<bytes, person>>

\* cleanupExpiredPersonCache, every six hours.
Cleanup ==
    /\ entries' = Keep(entries, {i \in DOMAIN entries : entries[i].young})
    /\ bytes' = bytes - Total(Keep(entries, {i \in DOMAIN entries : ~entries[i].young}))
    /\ UNCHANGED person

Next ==
    \/ \E r \in Requests :
         \/ \E p \in Persons : Get(r, p)
         \/ Fetched(r) \/ Refused(r) \/ Transient(r) \/ Leave(r)
    \/ GrowsOld \/ Cleanup

Spec == Init /\ [][Next]_personVars

-----------------------------------------------------------------------------
(* Types: one entry for a person.                                          *)
TypeOK ==
    /\ \A i, j \in DOMAIN entries : entries[i].key = entries[j].key => i = j
    /\ \A r \in Requests : person[r].at \in {"idle", "fetch", "answered"}

(* The bytes that are counted are those of the entries, through every       *)
(* replacement, eviction and cleanup, and neither limit is exceeded: else    *)
(* the cache would shrink to nothing, or grow without end.                   *)
BytesCounted ==
    /\ bytes = Total(entries)
    /\ bytes <= MaxBytes /\ Len(entries) <= MaxEntries
=============================================================================
