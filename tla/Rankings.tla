------------------------------- MODULE Rankings -------------------------------
(***************************************************************************)
(* backend/src/rankings: the box office and trending lists.                *)
(*                                                                         *)
(* A sync (a cron job or an administrator's refresh) fetches a list, stamps *)
(* it with the time of the fetch, matches its items with contents one after *)
(* the other, and upserts one row per rank of its category and target date. *)
(* A reader takes the latest stamp of a category and then, in a second      *)
(* query, the rows with that stamp.  Nothing keeps two syncs of a category  *)
(* apart, nor a sync from a reader or from an administrator who sets a      *)
(* poster.  Of a row only its stamp is kept; the title, the poster and the  *)
(* content it points to ride along with it.  The contents that are matched  *)
(* are described in the background: module RelatedContents.                *)
(***************************************************************************)
EXTENDS Naturals, FiniteSets, FiniteSetsExt

CONSTANTS
    Syncs,        \* syncs that can run at once
    Categories,   \* the categories in play
    MaxRank,      \* bound on the items of a list
    Complete,     \* rows that make a list complete (10 in the code)
    Limit,        \* rows a reader asks for
    MaxFetches,   \* bound on the fetches of a behaviour
    MaxDay        \* bound on the days

Keys  == [category : Categories, rank : 1 .. MaxRank, date : 0 .. MaxDay]
NoRow == 0

VARIABLES
    stampOf,      \* rankings: fetchedAt of the row of every key, or NoRow
    fetches,      \* fetches so far: the clock fetchedAt is read from
    day,          \* today
    sync,         \* what each sync is doing
    edit,         \* updatePosterUrl: the key and the stamp it has read
    reader,       \* getRankings: where it is, and its answer
    \* history, for the properties
    lastCount,    \* items of the last list saved, for each category
    overlapped,   \* syncs during which another list of their category was saved
    mixed         \* categories whose rows no single sync wrote last

table    == <<stampOf, fetches, day>>
saved    == <<lastCount, overlapped, mixed>>
rankVars == <<table, sync, edit, reader, saved>>

Idle      == [at |-> "idle"]
BoxOffice == {"daily-box-office", "weekly-box-office"}

-----------------------------------------------------------------------------
Init ==
    /\ stampOf = [k \in Keys |-> NoRow]
    /\ fetches = 0 /\ day = 0
    /\ sync = [s \in Syncs |-> Idle]
    /\ edit = Idle /\ reader = Idle
    /\ lastCount = [c \in Categories |-> 0]
    /\ overlapped = {} /\ mixed = {}

RowsOf(c) == {k \in Keys : k.category = c /\ stampOf[k] # NoRow}

Start(s, c) ==
    /\ sync[s].at = "idle"
    /\ sync' = [sync EXCEPT ![s] = [at |-> "fetch", category |-> c, date |-> day, stamp |-> 0,
                                    count |-> 0, done |-> 0]]
    /\ UNCHANGED <<table, edit, reader, saved>>

\* The retry of a box office list runs when the list of the date is not complete.
Retry(s, c) ==
    /\ c \in BoxOffice
    /\ Cardinality({k \in RowsOf(c) : k.date = day}) < Complete
    /\ Start(s, c)

\* What a failed sync leaves behind: an exception, or an empty list, for its
\* caller as the failure policy says, and nothing in the table.
Fail(s) ==
    /\ sync' = [sync EXCEPT ![s] = Idle]
    /\ overlapped' = overlapped \ {s}
    /\ UNCHANGED <<table, edit, reader, lastCount, mixed>>

\* KOBIS or TMDB answers with a list, possibly a short or an empty one, or
\* fails; fetchedAt is read once the answer is there.
Fetch(s) ==
    /\ sync[s].at = "fetch"
    /\ \/ Fail(s)
       \/ /\ fetches < MaxFetches
          /\ fetches' = fetches + 1
          /\ \E n \in 0 .. MaxRank :
               sync' = [sync EXCEPT ![s].at = "match", ![s].count = n, ![s].stamp = fetches + 1]
          /\ UNCHANGED <<stampOf, day, edit, reader, saved>>

\* One item.  A search that fails or finds nothing, or a content that cannot be
\* fetched, leaves it without a content; the sync goes on.
Match(s) ==
    /\ sync[s].at = "match"
    /\ sync[s].done < sync[s].count
    /\ sync' = [sync EXCEPT ![s].done = @ + 1]
    /\ UNCHANGED <<table, edit, reader, saved>>

KeysOf(y) == {[category |-> y.category, rank |-> i, date |-> y.date] : i \in 1 .. y.count}

Ready(s) == sync[s].at = "match" /\ sync[s].done = sync[s].count

\* What the list saved by s does to the history.
Remember(s) ==
    LET c == sync[s].category
    IN  IF sync[s].count = 0
          THEN overlapped' = overlapped \ {s} /\ UNCHANGED <<lastCount, mixed, reader>>
          ELSE /\ overlapped' = (overlapped \cup {z \in Syncs : /\ sync[z].at = "match"
                                                               /\ sync[z].category = c}) \ {s}
               /\ lastCount' = [lastCount EXCEPT ![c] = sync[s].count]
               /\ mixed' = IF s \in overlapped THEN mixed \cup {c} ELSE mixed \ {c}
               /\ reader' = IF reader.at = "rows" /\ reader.category = c
                              THEN [reader EXCEPT !.raced = TRUE] ELSE reader

\* Fault: a row that is there keeps its stamp.
SaveKeepsStamp(s) ==
    /\ Ready(s)
    /\ stampOf' = [k \in Keys |-> IF k \in KeysOf(sync[s]) /\ stampOf[k] = NoRow
                                    THEN sync[s].stamp ELSE stampOf[k]]
    /\ sync' = [sync EXCEPT ![s] = Idle]
    /\ Remember(s)
    /\ UNCHANGED <<fetches, day, edit>>

\* One INSERT ... ON CONFLICT for the whole list; an empty list writes nothing.
Save(s) ==
    /\ Ready(s)
    /\ stampOf' = [k \in Keys |-> IF k \in KeysOf(sync[s]) THEN sync[s].stamp ELSE stampOf[k]]
    /\ sync' = [sync EXCEPT ![s] = Idle]
    /\ Remember(s)
    /\ UNCHANGED <<fetches, day, edit>>

SaveFails(s) == Ready(s) /\ Fail(s)

-----------------------------------------------------------------------------
(* The callers.                                                            *)
Work(s) == Fetch(s) \/ Match(s) \/ Save(s) \/ SaveFails(s)

\* fetchDailyBoxOffice and fetchWeeklyBoxOffice are the same steps on two
\* categories; besides the refresh by hand and the unconditional cron jobs each
\* has a retry.
BoxOfficeSync(s) ==
    \E c \in Categories \cap BoxOffice :
       \/ Retry(s, c) \/ Start(s, c)
       \/ sync[s].at # "idle" /\ sync[s].category = c /\ Work(s)

TrendingSync(s) ==
    \E c \in Categories \ BoxOffice :
       \/ Start(s, c)
       \/ sync[s].at # "idle" /\ sync[s].category = c /\ Work(s)

NextDay ==
    /\ day < MaxDay
    /\ day' = day + 1
    /\ UNCHANGED <<stampOf, fetches, sync, edit, reader, saved>>

-----------------------------------------------------------------------------
(* updatePosterUrl: findOneBy, then save, which writes every column in     *)
(* which the row has changed since.                                        *)
PosterRead ==
    /\ edit.at = "idle"
    /\ \E c \in Categories : \E k \in RowsOf(c) :
         edit' = [at |-> "save", key |-> k, stamp |-> stampOf[k]]
    /\ UNCHANGED <<table, sync, reader, saved>>

PosterSave ==
    LET k     == edit.key
        moved == stampOf[k] # edit.stamp
    IN
    /\ edit.at = "save"
    /\ stampOf' = [stampOf EXCEPT ![k] = edit.stamp]
    /\ edit' = Idle
    /\ mixed' = IF moved THEN mixed \cup {k.category} ELSE mixed
    /\ reader' = IF moved /\ reader.at = "rows" /\ reader.category = k.category
                   THEN [reader EXCEPT !.raced = TRUE] ELSE reader
    /\ UNCHANGED <<fetches, day, sync, lastCount, overlapped>>

-----------------------------------------------------------------------------
(* getRankings.                                                            *)
FindLatest ==
    /\ reader.at = "idle"
    /\ \E c \in Categories :
         /\ RowsOf(c) # {}
         /\ reader' = [at |-> "rows", category |-> c, raced |-> FALSE,
                       stamp |-> Max({stampOf[k] : k \in RowsOf(c)})]
    /\ UNCHANGED <<table, sync, edit, saved>>

\* The ranks are ordered, and only the first Limit of them are taken.
FindRows ==
    /\ reader.at = "rows"
    /\ LET c     == reader.category
           ranks == {k.rank : k \in {l \in RowsOf(c) : stampOf[l] = reader.stamp}}
       IN  reader' = [at |-> "answered", raced |-> reader.raced \/ c \in mixed,
                      count |-> lastCount[c],
                      ranks |-> {i \in ranks : Cardinality({j \in ranks : j <= i}) <= Limit}]
    /\ UNCHANGED <<table, sync, edit, saved>>

ReaderLeaves ==
    /\ reader.at = "answered"
    /\ reader' = Idle
    /\ UNCHANGED <<table, sync, edit, saved>>

-----------------------------------------------------------------------------
Next ==
    \/ \E s \in Syncs : BoxOfficeSync(s) \/ TrendingSync(s)
    \/ NextDay
    \/ PosterRead \/ PosterSave
    \/ FindLatest \/ FindRows \/ ReaderLeaves

Spec == Init /\ [][Next]_rankVars

-----------------------------------------------------------------------------
(* Types: every row that is there was written by a fetch that happened.    *)
TypeOK ==
    /\ fetches \in 0 .. MaxFetches /\ day \in 0 .. MaxDay
    /\ stampOf \in [Keys -> 0 .. fetches]
    /\ \A s \in Syncs : sync[s].at \in {"idle", "fetch", "match"}

(* getRankings answers with the ranks 1, 2, ... of the list that was saved  *)
(* last, all of them up to the limit, although lists shrink, dates change   *)
(* and a reader needs two queries: unless a sync of the category saved its  *)
(* list during another one, or a poster was saved over a row that had       *)
(* changed since it was read, and no sync has written the list alone since; *)
(* or the list was written between the reader's two queries.                *)
ListIsWhole ==
    reader.at = "answered" /\ ~reader.raced =>
        reader.ranks = 1 .. (IF reader.count < Limit THEN reader.count ELSE Limit)
=============================================================================
