-------------------------------- MODULE Pages --------------------------------
(***************************************************************************)
(* What the pages of the browser show.  The components below do not touch   *)
(* each other's state, so a behaviour is one of the component named by      *)
(* screen, and the variables of the others are parked.                     *)
(***************************************************************************)
EXTENDS Naturals, FiniteSets

CONSTANTS
    \* of ContentPage
    TitleWrites, TitleFailures,
    \* of ReviewList: the users, those who moderate, the reviews there may be
    Readers, Moderators, Written, ListLoads,
    \* of WatchlistPage
    Years, ThisYear, Wanted, PieceLimit, ShelfRequests, ShelfChanges,
    \* of CommentThread
    Commenters, Take, MaxComments, ThreadRequests,
    \* of AdminUsers
    Members, Staff, Searches, UserLimit, UserRequests,
    \* of AdminContents
    Blockable, Works, BlockLimit, BlockRequests

ASSUME TitleAssumption == TitleWrites \in Nat

ASSUME ListAssumption == "guest" \notin Readers /\ ListLoads \in Nat

ASSUME ShelfAssumption ==
    /\ IsFiniteSet(Years) /\ Years \subseteq Nat \ {0}
    /\ IsFiniteSet(Wanted) /\ PieceLimit \in Nat \ {0}

ASSUME ThreadAssumption == Take \in Nat \ {0} /\ MaxComments \in Nat

ASSUME UserAssumption ==
    /\ IsFiniteSet(Members) /\ Members \subseteq Nat \ {0} /\ Searches \subseteq SUBSET Members
    /\ UserLimit \in Nat \ {0}

ASSUME BlockAssumption ==
    IsFiniteSet(Blockable) /\ Works \subseteq Blockable /\ BlockLimit \in Nat \ {0}

VARIABLES
    screen,
    entry, review, writes, call, button, dialog, form, readsAsked, reads, latest,
    key, cardLoads, card, stale, failures,
    stored, likes, viewer, sort, initial, state, listAsked, listLoads, deleting,
    watched, wants, changes, url, nav, years, selected, data, items, more, loading,
    pageAsked, sent, requests, last, muddled,
    comments, made, mine, commenter, open, count, view, submitting, threadAsked,
    threadRequests, threadMuddled,
    status, query, userPage, usersLoading, failed, userModal, userActing, usersAsked,
    userRequests, usersMuddled,
    blockedNow, blockedPage, first, blockModal, blockActing, blockAsked, blockRequests,
    blockMuddled

\* The page of a title for a user who does the things named by Uses.
Title(Uses, MaxFailures) == INSTANCE ContentPage WITH
    MaxWrites <- TitleWrites,
    asked <- readsAsked, loads <- cardLoads

CardForm   == {"card form", "delete", "add"}
ButtonForm == {"open", "button form", "check", "remove", "remove both"}
Removal    == {"card form", "check", "remove", "remove both"}

List == INSTANCE ReviewList WITH
    Users <- Readers, Admins <- Moderators, Titles <- Written, MaxLoads <- ListLoads,
    asked <- listAsked, loads <- listLoads

Shelf == INSTANCE WatchlistPage WITH
    Titles <- Wanted, Limit <- PieceLimit, MaxRequests <- ShelfRequests,
    MaxChanges <- ShelfChanges, asked <- pageAsked

Thread == INSTANCE CommentThread WITH
    Viewers <- Commenters, MaxRequests <- ThreadRequests,
    stored <- comments, viewer <- commenter, asked <- threadAsked,
    requests <- threadRequests, muddled <- threadMuddled

UserTable == INSTANCE AdminUsers WITH
    Users <- Members, Admins <- Staff, Limit <- UserLimit, MaxRequests <- UserRequests,
    data <- userPage, loading <- usersLoading, modal <- userModal, acting <- userActing,
    asked <- usersAsked, requests <- userRequests, muddled <- usersMuddled

BlockTable == INSTANCE AdminContents WITH
    Contents <- Blockable, Limit <- BlockLimit, MaxRequests <- BlockRequests,
    blocked <- blockedNow, list <- blockedPage, modal <- blockModal, acting <- blockActing,
    asked <- blockAsked, requests <- blockRequests, muddled <- blockMuddled

title   == <<entry, review, writes, call, button, dialog, form, readsAsked, reads, latest,
             key, cardLoads, card, stale, failures>>
list    == <<stored, likes, viewer, sort, initial, state, listAsked, listLoads, deleting>>
shelf   == <<watched, wants, changes, url, nav, years, selected, data, items, more,
             loading, pageAsked, sent, requests, last, muddled>>
thread  == <<comments, made, mine, commenter, open, count, view, submitting, threadAsked,
             threadRequests, threadMuddled>>
userTable  == <<status, query, userPage, usersLoading, failed, userModal, userActing,
                usersAsked, userRequests, usersMuddled>>
blockTable == <<blockedNow, blockedPage, first, blockModal, blockActing, blockAsked,
                blockRequests, blockMuddled>>

pages == <<title, list, shelf, thread, userTable, blockTable>>

Screens == {"card form", "button form", "removal", "list", "shelf", "comments", "users",
            "blocked contents"}

PagesInit ==
    /\ screen \in Screens \cup {"none"}
    /\ CASE screen = "card form"   -> Title(CardForm, TitleFailures)!Init
         [] screen = "button form" -> Title(ButtonForm, 0)!Init
         [] screen = "removal"     -> Title(Removal, TitleFailures)!Init
         [] OTHER -> /\ entry = 0 /\ review = 0 /\ writes = 0 /\ call = 0 /\ button = 0
                     /\ dialog = 0 /\ form = 0 /\ readsAsked = 0 /\ reads = 0 /\ latest = 0
                     /\ key = 0 /\ cardLoads = 0 /\ card = 0 /\ stale = 0
                     /\ failures = 0
    /\ IF screen = "list" THEN List!Init
         ELSE /\ stored = 0 /\ likes = 0 /\ viewer = 0 /\ sort = 0 /\ initial = 0 /\ state = 0
              /\ listAsked = 0 /\ listLoads = 0 /\ deleting = 0
    /\ IF screen = "shelf" THEN Shelf!Init
         ELSE /\ watched = 0 /\ wants = 0 /\ changes = 0 /\ url = 0 /\ nav = 0 /\ years = 0
              /\ selected = 0 /\ data = 0 /\ items = 0 /\ more = 0 /\ loading = 0
              /\ pageAsked = 0 /\ sent = 0 /\ requests = 0 /\ last = 0 /\ muddled = 0
    /\ IF screen = "comments" THEN Thread!Init
         ELSE /\ comments = 0 /\ made = 0 /\ mine = 0 /\ commenter = 0 /\ open = 0 /\ count = 0
              /\ view = 0 /\ submitting = 0 /\ threadAsked = 0 /\ threadRequests = 0
              /\ threadMuddled = 0
    /\ IF screen = "users" THEN UserTable!Init
         ELSE /\ status = 0 /\ query = 0 /\ userPage = 0 /\ usersLoading = 0 /\ failed = 0
              /\ userModal = 0 /\ userActing = 0 /\ usersAsked = 0 /\ userRequests = 0
              /\ usersMuddled = 0
    /\ IF screen = "blocked contents" THEN BlockTable!Init
         ELSE /\ blockedNow = 0 /\ blockedPage = 0 /\ first = 0 /\ blockModal = 0
              /\ blockActing = 0 /\ blockAsked = 0 /\ blockRequests = 0 /\ blockMuddled = 0

TitleSteps ==
    /\ \/ screen = "card form" /\ Title(CardForm, TitleFailures)!Next
       \/ screen = "button form" /\ Title(ButtonForm, 0)!Next
       \/ screen = "removal" /\ Title(Removal, TitleFailures)!Next
    /\ UNCHANGED <<screen, list, shelf, thread, userTable, blockTable>>
ListSteps ==
    /\ screen = "list" /\ List!Next
    /\ UNCHANGED <<screen, title, shelf, thread, userTable, blockTable>>
ShelfSteps ==
    /\ screen = "shelf" /\ Shelf!Next
    /\ UNCHANGED <<screen, title, list, thread, userTable, blockTable>>
ThreadSteps ==
    /\ screen = "comments" /\ Thread!Next
    /\ UNCHANGED <<screen, title, list, shelf, userTable, blockTable>>
UserTableSteps ==
    /\ screen = "users" /\ UserTable!Next
    /\ UNCHANGED <<screen, title, list, shelf, thread, blockTable>>
BlockTableSteps ==
    /\ screen = "blocked contents" /\ BlockTable!Next
    /\ UNCHANGED <<screen, title, list, shelf, thread, userTable>>

PagesNext ==
    \/ TitleSteps \/ ListSteps \/ ShelfSteps \/ ThreadSteps
    \/ UserTableSteps \/ BlockTableSteps

PagesSpec == PagesInit /\ [][PagesNext]_<<screen, pages>>

-----------------------------------------------------------------------------
\* What a page keeps is in its type.
PagesTyped ==
    /\ screen = "card form" => Title(CardForm, TitleFailures)!TypeOK
    /\ screen = "button form" => Title(ButtonForm, 0)!TypeOK
    /\ screen = "removal" => Title(Removal, TitleFailures)!TypeOK
    /\ screen = "list" => List!TypeOK
    /\ screen = "shelf" => Shelf!TypeOK
    /\ screen = "comments" => Thread!TypeOK
    /\ screen = "users" => UserTable!TypeOK
    /\ screen = "blocked contents" => BlockTable!TypeOK

\* The content page shows what is stored, the review list what was asked for last and
\* by whom, the watchlist page the year it names and a list without gaps, the comments of
\* a review their beginning and their number, and an administrator's lists what was asked
\* for last, in whatever order the answers come (ContentPage, ReviewList, WatchlistPage,
\* CommentThread, AdminUsers, AdminContents).
PagesAgree ==
    /\ PagesTyped
    /\ screen = "card form" => /\ Title(CardForm, TitleFailures)!CardShowsSaved
                               /\ Title(CardForm, TitleFailures)!ButtonShowsSaved
    /\ screen = "button form" => /\ Title(ButtonForm, 0)!CardShowsSaved
                                 /\ Title(ButtonForm, 0)!ButtonShowsSaved
    /\ screen = "removal" => /\ Title(Removal, TitleFailures)!CardShowsSaved
                             /\ Title(Removal, TitleFailures)!ButtonShowsSaved
    /\ screen = "list" => List!ListIsRequested
    /\ screen = "shelf" => Shelf!PageSettles
    /\ screen = "comments" => Thread!ThreadAgrees
    /\ screen = "users" => UserTable!UsersAgree
    /\ screen = "blocked contents" => BlockTable!BlockedShown
=============================================================================
