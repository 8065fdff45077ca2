-------------------------- MODULE RecordedRelease --------------------------
(***************************************************************************)
(* What blue-green deployment promises: the release file on disk may be    *)
(* believed unless the uncertainty marker is there.                        *)
(***************************************************************************)
CONSTANT Routes

VARIABLES
    recorded,   \* the release that the record names
    planned,    \* the release that would be served after a restart
    served,     \* the release that answers requests
    doubt       \* the record may be wrong

vars == <<recorded, planned, served, doubt>>

Init == recorded \in Routes /\ planned = recorded /\ served = recorded /\ doubt = FALSE

\* Doubt is raised before anything is touched ...
Raise == ~doubt /\ doubt' = TRUE /\ UNCHANGED <<recorded, planned, served>>

\* ... traffic is moved, there or back, only while it is raised ...
Plan == doubt /\ planned' \in Routes /\ UNCHANGED <<recorded, served, doubt>>
Move == doubt /\ served' = planned /\ UNCHANGED <<recorded, planned, doubt>>

\* ... and only what is being served may be recorded.
Record == doubt /\ recorded' = served /\ UNCHANGED <<planned, served, doubt>>

\* Doubt is dropped only when the record is true, and a restart keeps it so.
Settle ==
    /\ doubt /\ recorded = served /\ recorded = planned
    /\ doubt' = FALSE /\ UNCHANGED <<recorded, planned, served>>

Next == Raise \/ Plan \/ Move \/ Record \/ Settle

Spec == Init /\ [][Next]_vars
=============================================================================
