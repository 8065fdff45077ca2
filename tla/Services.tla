------------------------------- MODULE Services -------------------------------
(***************************************************************************)
(* What the tables and the caches of the backend hold.  The components      *)
(* below do not touch each other's state, so a behaviour is one of the      *)
(* component named by part, and the variables of the others are parked.    *)
(***************************************************************************)
EXTENDS Catalogue, Sequences

CONSTANTS
    \* of Rankings, and the fetches of a weekly and of the daily lists
    Syncs, MaxRank, Complete, RankLimit, MaxDay, WeeklyFetches, DailyFetches,
    \* of ChatSearch
    Values, Intents, Contexts, Catalogs, Enough, SearchLimit, CardLimit,
    \* of RelatedContents; Alike are the contents related to the sources
    Sources, Alike, Recent, Popular, RelatedEntries, TTL, Slots, FreshSlots,
    \* of PersonCatalog and ProfileImage
    Persons, Requests, Sizes, PersonEntries, MaxBytes, RetryCount,
    ImageRequests, ImageKeys,
    \* of SocialSignup, with many identities or with many nicknames
    Tabs, Identities, OneIdentity, Nicknames, OneNickname, MaxFlows, Nobody

ASSUME RankingAssumption == {MaxRank, RankLimit, MaxDay, WeeklyFetches, DailyFetches} \subseteq Nat

\* A search that finds too little has found everything: enough is within its limit.
ASSUME SearchAssumption ==
    /\ {Enough, SearchLimit, CardLimit} \subseteq Nat /\ Enough <= SearchLimit
    /\ \A c \in Catalogs : IsFiniteSet(c)

ASSUME RelatedAssumption ==
    /\ {TTL, RelatedEntries} \subseteq Nat \ {0} /\ IsFiniteSet(Alike)
    /\ {Slots, FreshSlots} \subseteq Nat /\ FreshSlots <= Slots

ASSUME SignupAssumption == MaxFlows \in Nat

ASSUME PersonAssumption ==
    Sizes \subseteq Nat /\ MaxBytes \in Nat /\ PersonEntries \in Nat \ {0}

VARIABLES
    part,
    stampOf, fetches, day, sync, edit, reader, lastCount, overlapped, mixed,
    at, intent, context, catalog, filters, tried, results, cards,
    described, blockedFor, cache, loads, relatedAnswer,
    entries, bytes, person,
    states, signup, valid, users, page, spent,
    image, objects, used, request, shown

\* The syncs of some categories, with a bound on their fetches.
Lists(Categories, MaxFetches) == INSTANCE Rankings WITH Limit <- RankLimit

Weekly   == {"weekly-box-office"}
Trending == {"daily-box-office", "trending-all-day"}

Search  == INSTANCE ChatSearch
Related == INSTANCE RelatedContents WITH Related <- Alike, MaxEntries <- RelatedEntries
People  == INSTANCE PersonCatalog WITH MaxEntries <- PersonEntries

\* The sign-ups of some social accounts that choose among some nicknames.
Signups(Accounts, Names) == INSTANCE SocialSignup WITH
    Identities <- Accounts, Nicknames <- Names, None <- Nobody

Images == INSTANCE ProfileImage WITH
    Requests <- ImageRequests, Keys <- ImageKeys, Social <- "social", NoImage <- "none"

ranking == <<stampOf, fetches, day, sync, edit, reader, lastCount, overlapped, mixed>>
search  == <<at, intent, context, catalog, filters, tried, results, cards>>
related == <<described, blockedFor, cache, loads, relatedAnswer>>
content == catalogueVars
people  == <<entries, bytes, person>>
signups == <<states, signup, valid, users, page, spent>>
images  == <<image, objects, used, request, shown>>

backend == <<ranking, search, related, content, people, signups, images>>

Parts == {"box office", "trending", "search", "related", "catalogue", "people",
          "two persons", "one person", "image"}

ServicesInit ==
    /\ part \in Parts \cup {"none"}
    /\ CASE part = "box office" -> Lists(Weekly, WeeklyFetches)!Init
         [] part = "trending"   -> Lists(Trending, DailyFetches)!Init
         [] OTHER -> /\ stampOf = 0 /\ fetches = 0 /\ day = 0 /\ sync = 0 /\ edit = 0
                     /\ reader = 0 /\ lastCount = 0 /\ overlapped = 0 /\ mixed = 0
    /\ IF part = "search" THEN Search!Init
         ELSE /\ at = 0 /\ intent = 0 /\ context = 0 /\ catalog = 0 /\ filters = 0
              /\ tried = 0 /\ results = 0 /\ cards = 0
    /\ IF part = "related" THEN Related!Init
         ELSE described = 0 /\ blockedFor = 0 /\ cache = 0 /\ loads = 0 /\ relatedAnswer = 0
    /\ Init /\ (part # "catalogue" => adultAtTmdb = {})
    /\ IF part = "people" THEN People!Init ELSE entries = 0 /\ bytes = 0 /\ person = 0
    /\ CASE part = "two persons" -> Signups(Identities, OneNickname)!Init
         [] part = "one person"  -> Signups(OneIdentity, Nicknames)!Init
         [] OTHER -> states = 0 /\ signup = 0 /\ valid = 0 /\ users = 0 /\ page = 0 /\ spent = 0
    /\ IF part = "image" THEN Images!Init
         ELSE image = 0 /\ objects = 0 /\ used = 0 /\ request = 0 /\ shown = 0

RankingSteps ==
    /\ \/ part = "box office" /\ Lists(Weekly, WeeklyFetches)!Next
       \/ part = "trending" /\ Lists(Trending, DailyFetches)!Next
    /\ UNCHANGED <<part, search, related, content, people, signups, images>>
SearchSteps ==
    /\ part = "search" /\ Search!Next
    /\ UNCHANGED <<part, ranking, related, content, people, signups, images>>
RelatedSteps ==
    /\ part = "related" /\ Related!Next
    /\ UNCHANGED <<part, ranking, search, content, people, signups, images>>
CatalogueSteps ==
    /\ part = "catalogue" /\ Next
    /\ UNCHANGED <<part, ranking, search, related, people, signups, images>>
PersonSteps ==
    /\ part = "people" /\ People!Next
    /\ UNCHANGED <<part, ranking, search, related, content, signups, images>>
SignupSteps ==
    /\ \/ part = "two persons" /\ Signups(Identities, OneNickname)!Next
       \/ part = "one person" /\ Signups(OneIdentity, Nicknames)!Next
    /\ UNCHANGED <<part, ranking, search, related, content, people, images>>
ImageSteps ==
    /\ part = "image" /\ Images!Next
    /\ UNCHANGED <<part, ranking, search, related, content, people, signups>>

ServicesNext ==
    \/ RankingSteps \/ SearchSteps \/ RelatedSteps \/ CatalogueSteps
    \/ PersonSteps \/ SignupSteps \/ ImageSteps

ServicesSpec == ServicesInit /\ [][ServicesNext]_<<part, backend>>

-----------------------------------------------------------------------------
\* Every component of the backend keeps its variables in their types.
TypesOK ==
    /\ TypeOK
    /\ part = "box office" => Lists(Weekly, WeeklyFetches)!TypeOK
    /\ part = "trending" => Lists(Trending, DailyFetches)!TypeOK
    /\ part = "search" => Search!TypeOK
    /\ part = "related" => Related!TypeOK
    /\ part = "people" => People!TypeOK
    /\ part = "two persons" => Signups(Identities, OneNickname)!TypeOK
    /\ part = "one person" => Signups(OneIdentity, Nicknames)!TypeOK
    /\ part = "image" => Images!TypeOK

\* A reader of a ranking gets a whole list, the one saved last (Rankings).
ListIsWhole ==
    /\ part = "box office" => Lists(Weekly, WeeklyFetches)!ListIsWhole
    /\ part = "trending" => Lists(Trending, DailyFetches)!ListIsWhole

\* No relaxation of filters drops what the message itself asked for, or drops a
\* filter that found enough (ChatSearch).
RequestIsKept == part = "search" => Search!RequestIsKept /\ Search!RelaxedOnlyWhenShort

\* A content that was blocked leaves the related contents with the entry it is in,
\* and no answer repeats one (RelatedContents).
BlockedAgesOut == part = "related" => Related!BlockedAgesOut /\ Related!ShownOnce

\* The byte count of the person cache is that of its entries (PersonCatalog).
BytesCounted == part = "people" => People!BytesCounted

\* However sign-ups interleave, an identity has one account, a nickname one owner, and
\* no tab's sign-in is refused because of another's (SocialSignup).
OneAccountEach ==
    /\ part = "two persons" => /\ Signups(Identities, OneNickname)!OneAccountEach
                               /\ Signups(Identities, OneNickname)!FlowsIndependent
    /\ part = "one person" => /\ Signups(OneIdentity, Nicknames)!OneAccountEach
                              /\ Signups(OneIdentity, Nicknames)!FlowsIndependent
=============================================================================
