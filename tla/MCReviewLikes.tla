---------------------------- MODULE MCReviewLikes ----------------------------
(* The instances of ReviewLikes that TLC checks.                           *)
EXTENDS ReviewLikes, TLC

Anyone   == Requests
Symmetry == Permutations(Requests) \cup Permutations(Users) \cup Permutations(Texts)
=============================================================================
