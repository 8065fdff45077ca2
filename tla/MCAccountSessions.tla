------------------------- MODULE MCAccountSessions -------------------------
(* The instances of AccountSessions that TLC checks.                       *)
EXTENDS AccountSessions, TLC

Sessions   == {"login", "refresh", "logout", "deactivate", "suspend", "activate"}
Locking    == {"login", "refresh", "suspend"}
EditRaces  == {"profile", "suspend"}
SignedIn   == {"login", "refresh"}

Anyone   == Processes
Symmetry == Permutations(Requests) \cup Permutations(Tokens)
=============================================================================
