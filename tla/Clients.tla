------------------------------- MODULE Clients -------------------------------
(***************************************************************************)
(* What clients wait for, in one specification: the session that the tabs  *)
(* of a browser share, the answer of the chat, and the refreshes that wait *)
(* for a connection of the pool.  They do not touch each other's state, so *)
(* a behaviour is one of the part named by part, and the variables of the  *)
(* others are parked.                                                      *)
(***************************************************************************)
EXTENDS Naturals, FiniteSets

CONSTANTS
    \* of BrowserSession: tabs and sign-ins, where there are several and where there
    \* is one
    Tabs, OneTab, Logins, OneLogin, First, MaxTurns, MaxLoads, MaxInbox, Nobody,
    \* of ChatTurn
    MaxRequests, Pieces, MaxAttempts, MaxStored,
    \* of RefreshPool
    Refreshes, Presented, PoolSize, NoHolder

ASSUME SessionAssumption ==
    First \in OneLogin /\ First \in Logins /\ Nobody \notin OneLogin \cup Logins
        /\ {MaxTurns, MaxLoads} \subseteq Nat

\* An answer is tried at least once, and at least one message is kept.
ASSUME ChatAssumption ==
    {MaxRequests, Pieces} \subseteq Nat /\ {MaxAttempts, MaxStored} \subseteq Nat \ {0}

ASSUME PoolAssumption == IsFiniteSet(Refreshes) /\ PoolSize \in Nat

VARIABLES
    part,
    cookies, live, tab, queue, inbox, loads, begun, lost,
    request, server, wire, ui, shown, due, ref, active, saved, restoring, raced,
    phase, token, waiting, free, owner, rows

session == <<cookies, live, tab, queue, inbox, loads, begun, lost>>
chat    == <<request, server, wire, ui, shown, due, ref, active, saved, restoring, raced>>
pool    == <<phase, token, waiting, free, owner, rows>>

\* Tabs that all edit and may be reloaded; tabs and several sign-ins; tabs whose requests
\* may fail.
Editing == INSTANCE BrowserSession WITH
    Logins <- OneLogin, Editors <- Tabs, NetworkFails <- FALSE, HasLocks <- TRUE

SignIns == INSTANCE BrowserSession WITH
    Editors <- {}, NetworkFails <- FALSE, MaxLoads <- 0, HasLocks <- TRUE

Offline == INSTANCE BrowserSession WITH
    Tabs <- OneTab, Logins <- OneLogin, Editors <- OneTab, NetworkFails <- TRUE,
    HasLocks <- TRUE

Chat == INSTANCE ChatTurn

Pool == INSTANCE RefreshPool WITH
    Requests <- Refreshes, Tokens <- Presented, Nobody <- NoHolder

ClientsInit ==
    /\ part \in {"editing", "sign-ins", "offline", "chat", "pool"}
    /\ CASE part = "editing"  -> Editing!Init
         [] part = "sign-ins" -> SignIns!Init
         [] part = "offline"  -> Offline!Init
         [] OTHER -> /\ cookies = 0 /\ live = 0 /\ tab = 0 /\ queue = 0 /\ inbox = 0
                     /\ loads = 0 /\ begun = 0 /\ lost = 0
    /\ IF part = "chat" THEN Chat!Init
         ELSE /\ request = 0 /\ server = 0 /\ wire = 0 /\ ui = 0 /\ shown = 0 /\ due = 0
              /\ ref = 0 /\ active = 0 /\ saved = 0 /\ restoring = 0 /\ raced = 0
    /\ IF part = "pool" THEN Pool!Init
         ELSE phase = 0 /\ token = 0 /\ waiting = 0 /\ free = 0 /\ owner = 0 /\ rows = 0

SessionSteps ==
    /\ \/ part = "editing" /\ Editing!Next
       \/ part = "sign-ins" /\ SignIns!Next
       \/ part = "offline" /\ Offline!Next
    /\ UNCHANGED <<part, chat, pool>>
ChatSteps ==
    /\ part = "chat" /\ Chat!Next
    /\ UNCHANGED <<part, session, pool>>
PoolSteps ==
    /\ part = "pool" /\ Pool!Next
    /\ UNCHANGED <<part, session, chat>>

ClientsNext == SessionSteps \/ ChatSteps \/ PoolSteps

ClientsSpec == ClientsInit /\ [][ClientsNext]_<<part, session, chat, pool>>

-----------------------------------------------------------------------------
\* Every part keeps its variables in their types.
TypesOK ==
    /\ part = "editing" => Editing!TypeOK
    /\ part = "sign-ins" => SignIns!TypeOK
    /\ part = "offline" => Offline!TypeOK
    /\ part = "chat" => Chat!TypeOK
    /\ part = "pool" => Pool!TypeOK

\* Where the browser has locks, a refresh is refused only when its session is gone
\* (BrowserSession).
RefusedMeansGone ==
    /\ part = "editing" => Editing!RefusedMeansGone
    /\ part = "sign-ins" => SignIns!RefusedMeansGone
    /\ part = "offline" => Offline!RefusedMeansGone

\* A tab that was signed out shows no user until a session is established, except the
\* one of a profile edit that is answered later (BrowserSession).
ClearedTabStaysOut ==
    [][/\ part = "editing" => Editing!StaysOut
       /\ part = "sign-ins" => SignIns!StaysOut
       /\ part = "offline" => Offline!StaysOut]_session

\* What is shown of an answer is the beginning of one attempt, and what is kept of it
\* follows its question and is whole (ChatTurn).
OneAttemptShown == part = "chat" => Chat!OneAttemptShown /\ Chat!AnswersInPlace
=============================================================================
