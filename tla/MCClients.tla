------------------------------ MODULE MCClients ------------------------------
(***************************************************************************)
(* The instance of Clients that TLC checks, with the fairness of the part  *)
(* that moves.                                                             *)
(***************************************************************************)
EXTENDS Clients

vars == <<part, session, chat, pool>>

\* The fairness of BrowserSession, ChatTurn and RefreshPool for two tabs, two requests of
\* the chat and three refreshes: since part never changes, one condition stands for that
\* of each.
Tab == <<"t1", "t2">>

Proceeds(i) ==
    \/ /\ \/ part = "editing" /\ i <= 2 /\ Editing!Answered(Tab[i])
          \/ part = "sign-ins" /\ i <= 2 /\ SignIns!Answered(Tab[i])
          \/ part = "offline" /\ i = 1 /\ Offline!Answered(Tab[i])
       /\ UNCHANGED <<chat, pool>>
    \/ part = "chat" /\ i <= 2 /\ Chat!Proceeds(i) /\ UNCHANGED <<session, pool>>
    \/ part = "pool" /\ Pool!Proceeds(i) /\ UNCHANGED <<session, chat>>

Fairness == \A i \in 1 .. 3 : /\ WF_<<session, chat, pool>>(Proceeds(i))
                             /\ SF_pool(part = "pool" /\ Pool!Lock(i))

Spec == ClientsSpec /\ Fairness

-----------------------------------------------------------------------------
\* A tab that loads; an answer that is shown as coming; a refresh that is under way
\* (its requests are interchangeable).
Waiting(i) ==
    \/ part \in {"editing", "sign-ins"} /\ tab[Tab[i]].loading
    \/ /\ i = 1
       /\ \/ part = "offline" /\ tab[Tab[i]].loading
          \/ part = "chat" /\ ui.streaming
          \/ part = "pool" /\ phase[i] \notin {"idle", "ended", "failed"}

\* No page stays in its loading state, no answer is shown as coming for ever, and every
\* refresh that asks for a connection ends or fails (BrowserSession, ChatTurn,
\* RefreshPool).
Settles == \A i \in 1 .. 2 : Waiting(i) ~> ~Waiting(i)
=============================================================================
