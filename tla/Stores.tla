-------------------------------- MODULE Stores --------------------------------
(***************************************************************************)
(* The backend's stores and the browser's pages in one run: a behaviour is  *)
(* one of Services or one of Pages, and the other is parked.               *)
(***************************************************************************)
EXTENDS Services, Pages

StoresInit ==
    /\ \/ part \in Parts /\ screen = "none"
       \/ part = "none" /\ screen \in Screens
    /\ ServicesInit /\ PagesInit

StoresNext ==
    \/ ServicesNext /\ UNCHANGED <<screen, pages>>
    \/ PagesNext /\ UNCHANGED <<part, backend>>

StoresSpec == StoresInit /\ [][StoresNext]_<<part, backend, screen, pages>>
=============================================================================
