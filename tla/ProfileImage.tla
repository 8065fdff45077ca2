---------------------------- MODULE ProfileImage ----------------------------
(***************************************************************************)
(* The profile image of one user: the URL in the row, the objects of the   *)
(* bucket, and the requests that upload or remove an image.  A request     *)
(* reads the row, deletes the object the row names (a social provider's    *)
(* picture is not the bucket's), stores the new one and saves the row.     *)
(* Each step may fail and ends the request there.                          *)
(***************************************************************************)
EXTENDS FiniteSets

CONSTANTS
    Requests,
    Keys,         \* names of objects; each upload makes one of its own
    Social,       \* the URL of a social provider
    NoImage

VARIABLES
    image,        \* the column profile_image
    objects,      \* the objects of the bucket
    used,         \* keys that uploads have made
    request,      \* the state of each request
    shown         \* the image the page shows after the last answer

imageVars == <<image, objects, used, request, shown>>

Urls  == Keys \cup {Social, NoImage}
Ended == [phase |-> "ended", op |-> "upload", old |-> NoImage, new |-> NoImage]

Init ==
    /\ image \in {Social, NoImage}
    /\ objects = {}
    /\ used = {}
    /\ request = [r \in Requests |-> Ended]
    /\ shown = image

Read(r, op) ==
    /\ request[r].phase = "ended"
    /\ request' = [request EXCEPT ![r] = [Ended EXCEPT !.phase = "delete", !.op = op,
                                                       !.old = image]]
    /\ UNCHANGED <<image, objects, used, shown>>

DeleteOld(r) ==
    /\ request[r].phase = "delete"
    /\ objects' = objects \ {request[r].old}
    /\ request' = [request EXCEPT ![r].phase =
                     IF request[r].op = "upload" THEN "upload" ELSE "save"]
    /\ UNCHANGED <<image, used, shown>>

Upload(r, k) ==
    /\ request[r].phase = "upload"
    /\ k \notin used
    /\ used' = used \cup {k}
    /\ objects' = objects \cup {k}
    /\ request' = [request EXCEPT ![r].phase = "save", ![r].new = k]
    /\ UNCHANGED <<image, shown>>

(* save skips a property that is undefined, so a removal leaves the column.*)
Saved(r) == IF request[r].op = "upload" THEN request[r].new ELSE image

Save(r) ==
    /\ request[r].phase = "save"
    /\ image' = Saved(r)
    /\ shown' = request[r].new
    /\ request' = [request EXCEPT ![r] = Ended]
    /\ UNCHANGED <<objects, used>>

Fail(r) ==
    /\ request[r].phase \in {"delete", "upload", "save"}
    /\ request' = [request EXCEPT ![r] = Ended]
    /\ UNCHANGED <<image, objects, used, shown>>

Next ==
    \E r \in Requests :
        \/ \E op \in {"upload", "remove"} : Read(r, op)
        \/ DeleteOld(r) \/ Save(r) \/ Fail(r)
        \/ \E k \in Keys : Upload(r, k)

Spec == Init /\ [][Next]_imageVars

-----------------------------------------------------------------------------
(* Every part of the state has its type; the bucket holds only what        *)
(* uploads made.                                                           *)
TypeOK ==
    /\ image \in Urls /\ shown \in Urls
    /\ objects \subseteq used /\ used \subseteq Keys
    /\ request \in [Requests -> [phase : {"ended", "delete", "upload", "save"},
                                 op : {"upload", "remove"}, old : Urls, new : Urls]]

(* A removal that succeeds leaves the user without an image.               *)
RemovedImageGone ==
    [][\A r \in Requests :
          Save(r) /\ request[r].op = "remove" => image' = NoImage]_imageVars
=============================================================================
