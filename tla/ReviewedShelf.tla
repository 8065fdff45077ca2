---------------------------- MODULE ReviewedShelf ----------------------------
(***************************************************************************)
(* What the watchlist and the reviews promise the user of one title: each  *)
(* request that changes something makes one of these moves, at once,       *)
(* however many statements it takes, unless two requests have crossed and  *)
(* the title is still there.                                               *)
(***************************************************************************)
CONSTANTS Days, Nothing

VARIABLES
    reviewed,   \* there is a review
    listed,     \* the list that has the title, or Nothing
    day,        \* when it was watched
    torn        \* the promise is off

vars == <<reviewed, listed, day, torn>>

Init == reviewed = FALSE /\ listed = Nothing /\ day = Nothing /\ torn = FALSE

\* Only a title without a review is to be watched ...
Want == ~reviewed /\ listed' = "want_to_watch" /\ day' = Nothing /\ UNCHANGED reviewed

\* ... what was watched was so on a day, reviewed or not ...
Watch == listed' = "watched" /\ day' \in Days /\ UNCHANGED reviewed

\* ... and with its one review a title is watched.
Review == ~reviewed /\ reviewed' = TRUE /\ listed' = "watched" /\ day' \in Days

\* The review goes alone, or with the title.
Unreview == reviewed /\ reviewed' = FALSE /\ UNCHANGED <<listed, day>>
Unlist   == listed # Nothing /\ listed' = Nothing /\ day' = Nothing /\ reviewed' = FALSE

Promised == UNCHANGED torn /\ (Want \/ Watch \/ Review \/ Unreview \/ Unlist)

\* From then on, anything.
Tear ==
    /\ torn' = TRUE
    /\ reviewed' \in BOOLEAN /\ listed' \in {"want_to_watch", "watched", Nothing}
    /\ day' \in Days \cup {Nothing}

\* ... until the title has gone, and its review with it.
Mend == torn /\ torn' = FALSE /\ reviewed' = FALSE /\ listed' = Nothing /\ day' = Nothing

Next == Promised \/ Tear \/ Mend

Spec == Init /\ [][Next]_vars
=============================================================================
