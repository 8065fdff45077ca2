------------------------------ MODULE Catalogue ------------------------------
(***************************************************************************)
(* backend/src/contents: the rows of the contents table, which are filled   *)
(* from TMDB when somebody asks for a content, and the adult filter, by      *)
(* which an administrator keeps contents out of search and discovery.        *)
(*                                                                         *)
(* Every operation reads rows, waits for TMDB and writes back what it read:  *)
(* TypeORM's save compares the copy with the row and writes every column     *)
(* that differs, so that an old copy overwrites a newer row.  The set of     *)
(* blocked contents, the contents TMDB did not know and the contents that    *)
(* are being refreshed are kept in the memory of the process.                *)
(***************************************************************************)
EXTENDS Naturals, FiniteSets

CONSTANTS
    Contents,
    Tasks     \* operations that run at once

None == [there |-> FALSE, adult |-> FALSE, detailed |-> FALSE, fresh |-> FALSE]
NoCache == [filled |-> FALSE, ids |-> {}, late |-> {}]
Idle == [at |-> "idle"]

VARIABLES
    row,      \* contents: adult, whether the details are there and young enough
    missing,  \* missingDetailCache
    blocked,  \* blockedIdsCache, with the decisions made while it was read
    task,     \* what each operation is doing
    adultAtTmdb,  \* contents that TMDB itself calls adult
    \* history, for the properties
    verdict,  \* what an administrator has decided about each content
    undone    \* contents whose decision an older copy has overwritten

memory        == <<missing, blocked>>
decisions     == <<adultAtTmdb, verdict, undone>>
catalogueVars == <<row, memory, task, decisions>>

Init ==
    /\ row = [c \in Contents |-> None]
    /\ missing = {} /\ blocked = NoCache
    /\ task = [t \in Tasks |-> Idle]
    /\ adultAtTmdb \in SUBSET Contents
    /\ verdict = [c \in Contents |-> "allow"] /\ undone = {}

Become(t, state) == task' = [task EXCEPT ![t] = state]

\* A task about content c; copy is the row as it was read, behind says that an
\* administrator has decided since.
For(c, kind, at) == [at |-> at, kind |-> kind, content |-> c, behind |-> FALSE,
                     copy |-> IF at = "toggle" THEN row[c] ELSE None]

Refreshes(t) == task[t].at # "idle" /\ task[t].kind = "refresh"
Refreshing == {task[t].content : t \in {u \in Tasks : Refreshes(u)}}

-----------------------------------------------------------------------------
(* getContentDetail: a row that is not there, or has no credits, is fetched  *)
(* for the one who asks; an old one is refreshed in the background.           *)
GetDetail(t, c) ==
    /\ task[t].at = "idle"
    /\ \/ ~row[c].there /\ c \notin missing /\ Become(t, For(c, "detail", "fetch"))
       \/ row[c].there /\ ~row[c].detailed /\ Become(t, For(c, "extend", "fetch"))
       \/ /\ row[c].detailed /\ ~row[c].fresh /\ c \notin Refreshing
          /\ Become(t, For(c, "refresh", "fetch"))
    /\ UNCHANGED <<row, memory, decisions>>

\* TMDB answers, or the request fails for whatever reason: the one who asked for
\* a new content, and everybody for the next five minutes, gets a 404.
Fetch(t) ==
    /\ task[t].at = "fetch"
    /\ \/ /\ Become(t, [task[t] EXCEPT !.at = IF task[t].kind \in {"detail", "extend", "refresh"}
                                             THEN "merge" ELSE "insert"])
          /\ UNCHANGED missing
       \/ /\ Become(t, Idle)
          /\ task[t].kind # "person"
          /\ missing' = IF task[t].kind = "detail" THEN missing \cup {task[t].content} ELSE missing
       \/ /\ task[t].kind = "person"
          /\ Become(t, [task[t] EXCEPT !.at = "next"])
          /\ UNCHANGED missing
    /\ UNCHANGED <<row, blocked, decisions>>

\* Fault: what TMDB says replaces what an administrator decided.
MergeReplaces(t) ==
    /\ task[t].at = "merge"
    /\ LET c == task[t].content IN
         Become(t, [task[t] EXCEPT !.at = "save", !.behind = FALSE,
                                   !.copy = [row[c] EXCEPT !.adult = c \in adultAtTmdb]])
    /\ UNCHANGED <<row, memory, decisions>>

\* upsertFromTmdb reads the row.  A content once adult stays it.
Merge(t) ==
    /\ task[t].at = "merge"
    /\ LET c == task[t].content IN
         Become(t, [task[t] EXCEPT !.at = "save", !.behind = FALSE,
                                   !.copy = [row[c] EXCEPT !.adult = @ \/ c \in adultAtTmdb]])
    /\ UNCHANGED <<row, memory, decisions>>

\* What a save of task t's copy does to the row and to a decision about it.
Write(t, copy) ==
    LET c == task[t].content IN
    /\ row' = [row EXCEPT ![c] = copy]
    /\ undone' = IF task[t].behind /\ copy.adult # row[c].adult THEN undone \cup {c} ELSE undone

\* Two first requests: the second insert violates the unique key, and the one who
\* waits gets an error.
Collides(t) == ~task[t].copy.there /\ row[task[t].content].there

\* What a save may leave in updatedAt: it is touched when a column changes.
Touched(c) == IF row[c].there THEN {row[c].fresh, TRUE} ELSE {TRUE}

\* The first save writes the columns that come from TMDB.
Save(t) ==
    /\ task[t].at = "save"
    /\ IF Collides(t)
         THEN Become(t, Idle) /\ UNCHANGED <<row, undone>>
         ELSE \E fresh \in Touched(task[t].content) :
                LET copy == [task[t].copy EXCEPT !.there = TRUE, !.fresh = fresh]
                IN  /\ Write(t, copy)
                    /\ Become(t, [task[t] EXCEPT !.at = "save details", !.copy = copy])
    /\ UNCHANGED <<memory, adultAtTmdb, verdict>>

\* The second one the providers and the credits, and whatever has changed since.
SaveDetails(t) ==
    /\ task[t].at = "save details"
    /\ \E fresh \in Touched(task[t].content) :
         Write(t, [task[t].copy EXCEPT !.detailed = TRUE, !.fresh = fresh])
    /\ Become(t, Idle)
    /\ UNCHANGED <<memory, adultAtTmdb, verdict>>

-----------------------------------------------------------------------------
(* findOrFetchByTmdbId, for a watchlist entry, a ranking or a recommendation. *)
FindOrFetch(t, c) ==
    /\ task[t].at = "idle"
    /\ ~row[c].there
    /\ Become(t, For(c, "find", "fetch"))
    /\ UNCHANGED <<row, memory, decisions>>

\* The row that TMDB's data makes.
FromTmdb(c) == [there |-> TRUE, adult |-> c \in adultAtTmdb, detailed |-> TRUE, fresh |-> TRUE]

\* saveFromTmdb, and on to what the content was wanted for.
Insert(t) ==
    LET c == task[t].content
        new == FromTmdb(c)
    IN
    /\ task[t].at = "insert"
    /\ row' = IF Collides(t) THEN row ELSE [row EXCEPT ![c] = new]
    /\ \/ task[t].kind = "find" /\ Become(t, Idle)
       \/ /\ task[t].kind \in {"block", "allow"}
          /\ Become(t, IF Collides(t) THEN Idle ELSE [task[t] EXCEPT !.at = "toggle", !.copy = new])
       \/ /\ task[t].kind = "person"
          /\ Become(t, [task[t] EXCEPT !.at = "next", !.block = @ \cup
                            (IF Collides(t) \/ new.adult THEN {} ELSE {c})])
    /\ UNCHANGED <<memory, decisions>>

-----------------------------------------------------------------------------
(* The administrator: toggleAdult and blockPersonContents.                  *)

\* A decision about the contents s: the copies of others are behind it now, and so
\* is a set of blocked contents that is being read.
Decide(t, s, decision, state) ==
    /\ verdict' = [c \in Contents |-> IF c \in s THEN decision ELSE verdict[c]]
    /\ undone' = undone \ s
    /\ task' = [u \in Tasks |->
            IF u = t THEN state
            ELSE CASE task[u].at = "fill" -> [task[u] EXCEPT !.late = @ \cup s]
                   [] task[u].at \in {"save", "save details", "toggle"} /\ task[u].content \in s ->
                         [task[u] EXCEPT !.behind = TRUE]
                   [] OTHER -> task[u]]

ToggleAdult(t, c, decision) ==
    /\ task[t].at = "idle"
    /\ Become(t, For(c, decision, IF row[c].there THEN "toggle" ELSE "fetch"))
    /\ UNCHANGED <<row, memory, decisions>>

\* Fault: the set in memory is left to run out.
ToggleSaveKeepsCache(t) ==
    /\ task[t].at = "toggle"
    /\ row' = [row EXCEPT ![task[t].content] =
            [task[t].copy EXCEPT !.adult = task[t].kind = "block", !.fresh = TRUE]]
    /\ Decide(t, {task[t].content}, task[t].kind, Idle)
    /\ UNCHANGED <<memory, adultAtTmdb>>

\* The row is touched when it changes, which makes its details look young.
ToggleSave(t) ==
    LET c == task[t].content
        copy == [task[t].copy EXCEPT !.adult = task[t].kind = "block"]
    IN
    /\ task[t].at = "toggle"
    /\ row' = [row EXCEPT ![c] = IF copy = row[c] THEN copy ELSE [copy EXCEPT !.fresh = TRUE]]
    /\ Decide(t, {c}, task[t].kind, Idle)
    /\ blocked' = NoCache
    /\ UNCHANGED <<missing, adultAtTmdb>>

\* Everything a person has taken part in: rows that are there, and the others one
\* after the other.
BlockPerson(t, s) ==
    /\ task[t].at = "idle"
    /\ Become(t, [at |-> "next", kind |-> "person", content |-> None,
                  todo |-> {c \in s : ~row[c].there}, copy |-> None, behind |-> FALSE,
                  block |-> {c \in s : row[c].there /\ ~row[c].adult}])
    /\ UNCHANGED <<row, memory, decisions>>

PersonNext(t) ==
    /\ task[t].at = "next"
    /\ \E c \in task[t].todo :
         Become(t, [task[t] EXCEPT
             !.content = c, !.todo = @ \ {c},
             !.at = IF row[c].there THEN "next" ELSE "fetch",
             !.block = IF row[c].there /\ ~row[c].adult THEN @ \cup {c} ELSE @])
    /\ UNCHANGED <<row, memory, decisions>>

\* One UPDATE of the column, so that no copy is written back.
PersonUpdate(t) ==
    /\ task[t].at = "next" /\ task[t].todo = {}
    /\ LET s == task[t].block IN
         /\ row' = [c \in Contents |-> IF c \in s THEN [row[c] EXCEPT !.adult = TRUE, !.fresh = TRUE]
                                                  ELSE row[c]]
         /\ Decide(t, s, "block", Idle)
         /\ blocked' = IF s = {} THEN blocked ELSE NoCache
    /\ UNCHANGED <<missing, adultAtTmdb>>

-----------------------------------------------------------------------------
(* getBlockedTmdbIds, for a search, a discovery or a filmography.           *)
FillRead(t) ==
    /\ task[t].at = "idle"
    /\ ~blocked.filled
    /\ Become(t, [at |-> "fill", kind |-> "fill", ids |-> {c \in Contents : row[c].adult},
                  late |-> {}])
    /\ UNCHANGED <<row, memory, decisions>>

\* The answer becomes the cache, even when it was invalidated in the meantime.
FillAssign(t) ==
    /\ task[t].at = "fill"
    /\ blocked' = [filled |-> TRUE, ids |-> task[t].ids, late |-> task[t].late]
    /\ Become(t, Idle)
    /\ UNCHANGED <<row, missing, decisions>>

-----------------------------------------------------------------------------
(* Time and restarts.                                                      *)
BlockedExpires ==
    /\ blocked.filled /\ blocked' = NoCache
    /\ UNCHANGED <<row, missing, task, decisions>>

MissingExpires(c) ==
    /\ c \in missing /\ missing' = missing \ {c}
    /\ UNCHANGED <<row, blocked, task, decisions>>

GrowsOld(c) ==
    /\ row[c].fresh
    /\ row' = [row EXCEPT ![c].fresh = FALSE]
    /\ UNCHANGED <<memory, task, decisions>>

Restart ==
    /\ missing' = {} /\ blocked' = NoCache
    /\ task' = [t \in Tasks |-> Idle]
    /\ UNCHANGED <<row, decisions>>

-----------------------------------------------------------------------------
Next ==
    \/ \E t \in Tasks :
         \/ \E c \in Contents : \/ GetDetail(t, c) \/ FindOrFetch(t, c)
                                \/ \E d \in {"block", "allow"} : ToggleAdult(t, c, d)
         \/ \E s \in SUBSET Contents \ {{}} : BlockPerson(t, s)
         \/ Fetch(t) \/ Merge(t) \/ Save(t) \/ SaveDetails(t) \/ Insert(t)
         \/ ToggleSave(t) \/ PersonNext(t) \/ PersonUpdate(t)
         \/ FillRead(t) \/ FillAssign(t)
    \/ \E c \in Contents : MissingExpires(c) \/ GrowsOld(c)
    \/ BlockedExpires \/ Restart

Spec == Init /\ [][Next]_catalogueVars

-----------------------------------------------------------------------------
(* Types: details belong to a row, and a content is refreshed once at a time. *)
TypeOK ==
    /\ \A c \in Contents : row[c].adult \/ row[c].detailed \/ row[c].fresh => row[c].there
    /\ blocked.ids \subseteq Contents
    /\ \A t, u \in Tasks : Refreshes(t) /\ Refreshes(u) /\ task[t].content = task[u].content
                            => t = u

(* What an administrator decided about a content stays, through refreshes    *)
(* and whatever else asks for the content, until an operation that has read  *)
(* the row before the decision writes it back; only TMDB can make adult what *)
(* was allowed.                                                             *)
DecisionStands ==
    \A c \in Contents \ undone :
        /\ verdict[c] = "block" => row[c].adult
        /\ verdict[c] = "allow" /\ row[c].adult => c \in adultAtTmdb

(* The set that search and discovery filter with agrees with the decisions   *)
(* that still hold, except with those made while it was being read: they     *)
(* take effect when it runs out.                                            *)
FilterKnowsDecisions ==
    blocked.filled =>
        \A c \in Contents \ (blocked.late \cup undone) :
            /\ verdict[c] = "block" => c \in blocked.ids
            /\ verdict[c] = "allow" /\ c \notin adultAtTmdb => c \notin blocked.ids
=============================================================================
