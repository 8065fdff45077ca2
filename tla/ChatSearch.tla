------------------------------ MODULE ChatSearch ------------------------------
(***************************************************************************)
(* How a chat request becomes recommendation candidates:                   *)
(* backend/src/chat/chat.service.ts (what the user asked for and what is    *)
(* known about the user become filters), user-preference.ts,               *)
(* intent-analyzer.ts and backend/src/recommendation (the filtered search,  *)
(* which drops filters one after the other while it finds too little, and   *)
(* the choice of the candidates).                                           *)
(*                                                                         *)
(* A filter is a set of values of a field, the empty set when there is none; *)
(* a content has one value in every field.  The order of the results, which *)
(* the scores decide, is left open.                                         *)
(***************************************************************************)
EXTENDS Naturals, Sequences, FiniteSets

CONSTANTS
    Values,      \* values of a field
    Intents,     \* what the model can make of a message, before it is validated
    Contexts,    \* what can be known about a user
    Catalogs,    \* what the database can hold: sets of contents
    Enough,      \* results that are enough (5 in the code)
    SearchLimit, \* results a search returns at most (20)
    CardLimit    \* candidates chosen at most (5)

\* FILTER_RELAXATION_SEQUENCE.
RelaxationSequence == <<"genres", "personNames", "countries", "ottProviderNames">>
Fields == {RelaxationSequence[i] : i \in DOMAIN RelaxationSequence}

NoFilter == [f \in Fields |-> {}]

VARIABLES
    at,          \* where the request is
    intent,      \* the validated intent
    context,     \* what is known about the user
    catalog,     \* the contents of the database
    filters,     \* [keep, drop, relaxable, contentType]: the filters of the search
    tried,       \* the fields whose filter has been dropped
    results,     \* what the last query found
    cards        \* the confirmed candidates

searchVars == <<at, intent, context, catalog, filters, tried, results, cards>>

-----------------------------------------------------------------------------
(* analyzeIntent.                                                          *)

\* A content type is kept when a word for it is among what the user said; a
\* request that filters something is specific, one that does not is vague.
Validated(raw) ==
    LET type == IF raw.contentType \in raw.said THEN raw.contentType ELSE "any"
        any  == \/ \E f \in Fields : raw.want[f] # {}
                \/ raw.notCountries # {} \/ type # "any" \/ raw.reference
    IN  [want |-> raw.want, notCountries |-> raw.notCountries, contentType |-> type,
         reference |-> raw.reference, confidence |-> IF any THEN "high" ELSE "low"]

\* An answer that cannot be read, or no answer.
EmptyIntent ==
    [want |-> NoFilter, notCountries |-> {}, contentType |-> "any",
     reference |-> FALSE, confidence |-> "low"]

-----------------------------------------------------------------------------
(* extractUserPreference.                                                  *)

\* Genres rated at least twice; failing those, of contents watched without a
\* review, of the favorites, of the contents the user wants to watch.
PreferredGenres(c) ==
    LET rated == {g \in Values : c.rated[g] >= 2}
    IN  CASE rated # {}     -> rated
          [] rated = {} /\ c.watched # {} -> c.watched
          [] rated = {} /\ c.watched = {} /\ c.favorite # {} -> c.favorite
          [] OTHER -> c.wanted

\* What the user disliked twice, unless it is a preferred genre or a person the
\* message asks for.
ExcludedGenres(c) == {g \in Values : c.disliked[g] >= 2} \ PreferredGenres(c)
ExcludedPersons(c, i) == {p \in Values : c.dislikedBy[p] >= 2} \ i.want["personNames"]

Preference(c) ==
    [f \in Fields |-> CASE f = "genres"           -> PreferredGenres(c)
                        [] f = "countries"        -> c.countries
                        [] f = "ottProviderNames" -> c.otts
                        [] OTHER                  -> {}]

HasData(c) ==
    \/ \E g \in Values : c.rated[g] > 0
    \/ c.watched # {} \/ c.favorite # {} \/ c.wanted # {} \/ c.otts # {}

-----------------------------------------------------------------------------
(* sendMessageStream, steps 3 to 9.                                        *)

\* A specific request: its own filters, and the user's preference in the fields
\* it leaves open; only the latter may be dropped again.
Specific(i, c) ==
    LET added == {f \in Fields : i.want[f] = {} /\ Preference(c)[f] # {}}
        keep  == [f \in Fields |-> IF f \in added THEN Preference(c)[f] ELSE i.want[f]]
    IN  [keep |-> keep, relaxable |-> added, contentType |-> i.contentType,
         drop |-> [f \in Fields |->
             CASE f = "genres"      -> ExcludedGenres(c) \ keep["genres"]
               [] f = "personNames" -> ExcludedPersons(c, i) \ keep["personNames"]
               [] f = "countries"   -> i.notCountries
               [] OTHER             -> {}]]

\* A vague request of a user who is known: the preference alone.
Vague(i, c) ==
    [keep |-> Preference(c), relaxable |-> {f \in Fields : Preference(c)[f] # {}},
     contentType |-> "any",
     drop |-> [f \in Fields |-> CASE f = "genres"      -> ExcludedGenres(c)
                                  [] f = "personNames" -> ExcludedPersons(c, i)
                                  [] OTHER             -> {}]]

Init ==
    /\ at = "analyze"
    /\ context \in Contexts
    /\ catalog \in Catalogs
    /\ intent = EmptyIntent
    /\ filters = [keep |-> NoFilter, drop |-> NoFilter, relaxable |-> {}, contentType |-> "any"]
    /\ tried = {} /\ results = {} /\ cards = {}

\* hasAnyMetadata says no: no analysis, no search, no candidates.
NothingToSearch ==
    /\ at = "analyze"
    /\ at' = "select"
    /\ UNCHANGED <<intent, context, catalog, filters, tried, results, cards>>

Analyze ==
    /\ at = "analyze"
    /\ \E i \in {Validated(raw) : raw \in Intents} \cup {EmptyIntent} :
         /\ intent' = i
         /\ IF i.confidence = "low" /\ ~HasData(context)
              THEN at' = "similar" /\ UNCHANGED filters
              ELSE /\ at' = "query"
                   /\ filters' = IF i.confidence = "high" THEN Specific(i, context)
                                                          ELSE Vague(i, context)
    /\ UNCHANGED <<context, catalog, tried, results, cards>>

-----------------------------------------------------------------------------
(* executeFilteredSearch, executeSearch.                                   *)

\* One content under the filters that are still there.
Passes(x, f) ==
    /\ ~x.adult
    /\ ~x.watched
    /\ \A g \in Fields : /\ f.keep[g] = {} \/ x.is[g] \in f.keep[g]
                         /\ x.is[g] \notin f.drop[g]
    /\ f.contentType \in {"any", x.contentType}

\* Contents with metadata come first, then box office entries, then the rest;
\* the limit cuts off the end.
Tier(x) == IF x.described THEN 1 ELSE IF x.ranked THEN 2 ELSE 3

Answers(found) ==
    {r \in SUBSET found :
        /\ Cardinality(r) = IF Cardinality(found) < SearchLimit THEN Cardinality(found)
                                                                ELSE SearchLimit
        /\ \A x \in r, y \in found \ r : Tier(x) <= Tier(y)}

\* Fault: exactly enough is taken for too little.
MoreThanEnough(r) == Cardinality(r) > Enough

IsEnough(r) == Cardinality(r) >= Enough

Query ==
    /\ at = "query"
    /\ results' \in Answers({x \in catalog : x.poster /\ Passes(x, filters)})
    /\ at' = IF IsEnough(results') THEN "select" ELSE "relax"
    /\ UNCHANGED <<intent, context, catalog, filters, tried, cards>>

\* Fault: without a list of its own, every filter may be dropped.
AnyDroppable(f) ==
    {i \in DOMAIN RelaxationSequence : f.keep[RelaxationSequence[i]] # {}}

\* The fields of the sequence whose filter is there and may be dropped.
Droppable(f) ==
    {i \in DOMAIN RelaxationSequence :
        LET g == RelaxationSequence[i]
        IN  g \in f.relaxable /\ f.keep[g] # {}}

Relax ==
    /\ at = "relax"
    /\ LET left == Droppable(filters)
       IN  IF left = {}
             THEN at' = "select" /\ UNCHANGED <<filters, tried>>
             ELSE LET g == RelaxationSequence[CHOOSE i \in left : \A j \in left : i <= j]
                  IN  /\ filters' = [filters EXCEPT !.keep[g] = {}]
                      /\ tried' = tried \cup {g}
                      /\ at' = "query"
    /\ UNCHANGED <<intent, context, catalog, results, cards>>

\* A new user: the vector search, which has metadata for its contents and finds
\* nothing without embeddings.
Similar ==
    /\ at = "similar"
    /\ results' \in {{}} \cup Answers({x \in catalog : x.described /\ Passes(x, filters)})
    /\ at' = "select"
    /\ UNCHANGED <<intent, context, catalog, filters, tried, cards>>

\* selectConfirmedRecommendationCandidates: no content without a poster, none
\* recommended before, none of another type than the one asked for.
Suitable(x) == x.poster /\ ~x.told /\ intent.contentType \in {"any", x.contentType}

\* Fault: the limit is checked after a candidate has been added.
SelectOneMore ==
    /\ at = "select"
    /\ cards' \in {s \in SUBSET {x \in results : Suitable(x)} : Cardinality(s) <= CardLimit + 1}
    /\ at' = "done"
    /\ UNCHANGED <<intent, context, catalog, filters, tried, results>>

Select ==
    /\ at = "select"
    /\ LET good == {x \in results : Suitable(x)}
       IN  cards' \in {s \in SUBSET good :
               Cardinality(s) = IF Cardinality(good) < CardLimit THEN Cardinality(good)
                                                                 ELSE CardLimit}
    /\ at' = "done"
    /\ UNCHANGED <<intent, context, catalog, filters, tried, results>>

\* The browser closes the connection (every step ends with a look at the signal),
\* or a call fails, a query that takes too long among them.
Abort ==
    /\ at \notin {"done", "aborted"}
    /\ at' = "aborted" /\ results' = {} /\ cards' = {}
    /\ UNCHANGED <<intent, context, catalog, filters, tried>>

Next == NothingToSearch \/ Analyze \/ Query \/ Relax \/ Similar \/ Select \/ Abort

Spec == Init /\ [][Next]_searchVars

-----------------------------------------------------------------------------
(* Types: what is chosen was found, what was found is in the database.     *)
TypeOK ==
    /\ at \in {"analyze", "query", "relax", "similar", "select", "done", "aborted"}
    /\ results \subseteq catalog /\ cards \subseteq results
    /\ tried \subseteq filters.relaxable
    /\ Cardinality(cards) <= CardLimit

(* Whatever is dropped to find enough, a candidate matches everything the   *)
(* message itself asks for and is nothing it excludes, for every mixture of *)
(* request and preference; a genre the user disliked comes up only when it  *)
(* was asked for or is also preferred.                                      *)
RequestIsKept ==
    \A x \in cards :
        /\ intent.confidence = "high" =>
             /\ \A f \in Fields : intent.want[f] # {} => x.is[f] \in intent.want[f]
             /\ x.is["countries"] \notin intent.notCountries
        /\ intent.contentType \in {"any", x.contentType}
        /\ x.is["genres"] \in ExcludedGenres(context) =>
             \/ x.is["genres"] \in intent.want["genres"]
             \/ intent.confidence = "low" /\ ~HasData(context)

(* Nothing is dropped that need not be: with the filters that were in place *)
(* before the last one was dropped, the database held too little.           *)
RelaxedOnlyWhenShort ==
    at \in {"select", "done"} /\ tried # {} =>
        LET last == CHOOSE f \in tried : \A g \in tried :
                        \E i, j \in 1 .. 4 : /\ RelaxationSequence[i] = g
                                             /\ RelaxationSequence[j] = f /\ i <= j
            before == [filters EXCEPT !.keep[last] = Preference(context)[last]]
        IN  Cardinality({x \in catalog : x.poster /\ Passes(x, before)}) < Enough

(* "명시적 요청이 있는 필드에는 주입하지 않는다 (WHERE 필터 합산과 동일 원칙)" *)
(* (user-preference.ts): a preference is not added to a field in which the  *)
(* message makes a request of its own, be it that it excludes a country.    *)
PreferenceFollowsRequest ==
    at = "query" /\ tried = {} /\ intent.notCountries # {} =>
        filters.keep["countries"] = intent.want["countries"]
=============================================================================
