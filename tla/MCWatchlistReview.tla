-------------------------- MODULE MCWatchlistReview --------------------------
(* The instances of WatchlistReview that TLC checks.                       *)
EXTENDS WatchlistReview, TLC

Anyone   == Requests
Symmetry == Permutations(Requests) \cup Permutations(EntryIds)
              \cup Permutations(ReviewIds) \cup Permutations(Days)
=============================================================================
