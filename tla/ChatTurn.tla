------------------------------- MODULE ChatTurn -------------------------------
(***************************************************************************)
(* One conversation of the chat, from the model's answer to the browser:    *)
(* backend/src/chat (the answer is streamed while it is generated, checked,  *)
(* and generated once more when it is not usable), the server-sent events,  *)
(* frontend/src/lib/chat-stream.ts and components/chat/ChatSection.tsx.      *)
(*                                                                         *)
(* A piece of text is <<request, attempt, position>>; a text is a sequence   *)
(* of pieces; of an answer that has been stored only remains whether it is    *)
(* what the server resolved.  In the browser a state update is queued (ui), rendered later  *)
(* (shown), and the effects of a rendering run later still (due), unless a   *)
(* click caused it: then both happen before anything else.                   *)
(***************************************************************************)
EXTENDS Naturals, Sequences, SequencesExt

CONSTANTS
    MaxRequests,  \* bound on the requests of a conversation
    Pieces,       \* bound on the pieces of an answer
    MaxAttempts,  \* OPENAI_CHAT_MAX_ATTEMPTS (2)
    MaxStored     \* messages kept in localStorage (50)

Requests == 1 .. MaxRequests

VARIABLES
    request,   \* the browser's side of each request
    server,    \* the server's side
    wire,      \* events on their way to the browser
    ui,        \* [messages, streaming, text, cards]: state with the queued updates
    shown,     \* the same as it was rendered last
    due,       \* effects of that rendering that have still to run
    ref,       \* streamingTextRef, streamingRecsRef
    active,    \* activeRequestIdRef, 0 when no request is active
    saved,     \* the messages in localStorage
    restoring, \* messages that the restore timer will put into the state
    raced      \* history: an effect or a timer has overwritten something newer

browser  == <<ui, shown, due, ref, active, saved, restoring, raced>>
chatVars == <<request, server, wire, browser>>

Blank     == [messages |-> <<>>, streaming |-> FALSE, text |-> <<>>, cards |-> FALSE]
NoStream  == [text |-> <<>>, cards |-> FALSE]
Idle      == [at |-> "idle", attempt |-> 1, sent |-> 0]
Whole(r, a, n) == [i \in 1 .. n |-> <<r, a, i>>]

Init ==
    /\ request = [r \in Requests |-> "unused"]
    /\ server = [r \in Requests |-> Idle]
    /\ wire = [r \in Requests |-> <<>>]
    /\ ui = Blank /\ shown = Blank /\ due = {} /\ ref = NoStream /\ active = 0
    /\ saved = <<>> /\ restoring = <<>>
    /\ raced = FALSE

Latest(s) == IF Len(s) > MaxStored THEN SubSeq(s, Len(s) - MaxStored + 1, Len(s)) ELSE s

-----------------------------------------------------------------------------
(* The server: sendMessageStream from step 11, and the controller's         *)
(* safeSend, which is silent once the connection is closed.                  *)
Emit(r, events) == wire' = [wire EXCEPT ![r] = @ \o events]

\* The payload matters for a piece of text and, as history, for the end: it is
\* the answer that was resolved.
Event(kind) == [kind |-> kind, payload |-> <<>>]
Texts(r, a, from, to) ==
    [i \in 1 .. to - from + 1 |-> [kind |-> "text", payload |-> <<r, a, from + i - 1>>]]
Done(r, a, n, cards) ==
    [kind |-> "done", payload |-> [text |-> Whole(r, a, n), cards |-> cards]]

Over(r) == server' = [server EXCEPT ![r] = [Idle EXCEPT !.at = "over"]]

Serves(r, at) == request[r] = "open" /\ server[r].at = at

\* Context, intent and search are done; or one of them throws.
Prepare(r) ==
    /\ Serves(r, "prepare")
    /\ \/ server' = [server EXCEPT ![r].at = "stream"] /\ UNCHANGED wire
       \/ Over(r) /\ Emit(r, <<Event("error")>>)
    /\ UNCHANGED <<request, browser>>

\* A delta that extends the text that can no longer change.
Delta(r) ==
    /\ Serves(r, "stream")
    /\ server[r].sent < Pieces
    /\ server' = [server EXCEPT ![r].sent = @ + 1]
    /\ Emit(r, Texts(r, server[r].attempt, server[r].sent + 1, server[r].sent + 1))
    /\ UNCHANGED <<request, browser>>

\* The answer is complete and valid, and begins with what was emitted: the rest
\* of the text, the cards and the end follow without a pause.
Finish(r) ==
    /\ Serves(r, "stream")
    /\ \E n \in server[r].sent .. Pieces, cards \in BOOLEAN :
         /\ n > 0
         /\ Emit(r, Texts(r, server[r].attempt, server[r].sent + 1, n)
                      \o (IF cards THEN <<Event("cards")>> ELSE <<>>)
                      \o <<Done(r, server[r].attempt, n, cards)>>)
    /\ Over(r)
    /\ UNCHANGED <<request, browser>>

Reset(r) == IF server[r].sent > 0 THEN <<Event("reset")>> ELSE <<>>

\* Fault: the text of the refused attempt stays with the browser.
InvalidKeepsText(r) ==
    /\ Serves(r, "stream")
    /\ IF server[r].attempt < MaxAttempts
         THEN server' = [server EXCEPT ![r].attempt = @ + 1, ![r].sent = 0] /\ UNCHANGED wire
         ELSE Over(r) /\ Emit(r, <<Event("error")>>)
    /\ UNCHANGED <<request, browser>>

\* Fault: every unusable answer is generated once more.
InvalidRetriesForever(r) ==
    /\ Serves(r, "stream")
    /\ server' = [server EXCEPT ![r].sent = 0]
    /\ Emit(r, Reset(r))
    /\ UNCHANGED <<request, browser>>

\* The answer is malformed, cut off, or recommends something that is no candidate.
Invalid(r) ==
    /\ Serves(r, "stream")
    /\ IF server[r].attempt < MaxAttempts
         THEN server' = [server EXCEPT ![r].attempt = @ + 1, ![r].sent = 0] /\ Emit(r, Reset(r))
         ELSE Over(r) /\ Emit(r, Reset(r) \o <<Event("error")>>)
    /\ UNCHANGED <<request, browser>>

\* A refusal, a timeout, a failure of the model's service.
Broken(r) ==
    /\ Serves(r, "stream")
    /\ Over(r)
    /\ Emit(r, Reset(r) \o <<Event("error")>>)
    /\ UNCHANGED <<request, browser>>

-----------------------------------------------------------------------------
(* React.                                                                  *)

\* The effects of the last rendering: both refs take the state that was rendered,
\* the messages are saved when there are any.
RefAfter   == [text  |-> IF "text" \in due THEN shown.text ELSE ref.text,
               cards |-> IF "cards" \in due THEN shown.cards ELSE ref.cards]
SavedAfter == IF "messages" \in due /\ shown.messages # <<>> THEN Latest(shown.messages) ELSE saved

Changed(u, v) == {f \in {"messages", "text", "cards"} : u[f] # v[f]}

Effects ==
    /\ due # {}
    /\ ref' = RefAfter /\ saved' = SavedAfter /\ due' = {}
    /\ raced' = (raced \/ RefAfter # [text |-> ui.text, cards |-> ui.cards])
    /\ UNCHANGED <<request, server, wire, ui, shown, active, restoring>>

\* A rendering runs the effects that are due before it starts.
Render ==
    /\ ui # shown /\ due = {}
    /\ shown' = ui /\ due' = Changed(shown, ui)
    /\ UNCHANGED <<request, server, wire, ui, ref, active, saved, restoring, raced>>

RestoreTimer ==
    /\ restoring # <<>>
    /\ ui' = [ui EXCEPT !.messages = restoring]
    /\ restoring' = <<>>
    /\ raced' = (raced \/ ui.messages # <<>>)
    /\ UNCHANGED <<request, server, wire, shown, due, ref, active, saved>>

-----------------------------------------------------------------------------
(* handleSend, and sendChatMessage up to the response.                     *)
Send(r) ==
    /\ request[r] = "unused" /\ \A q \in Requests : q < r => request[q] # "unused"
    /\ ~shown.streaming
    /\ ui' = [messages |-> Append(ui.messages, [from |-> "user", request |-> r]),
              streaming |-> TRUE, text |-> <<>>, cards |-> FALSE]
    /\ shown' = ui' /\ due' = {}
    /\ ref' = NoStream /\ active' = r
    /\ saved' = Latest(ui'.messages)
    /\ request' = [request EXCEPT ![r] = "sent"]
    /\ UNCHANGED <<server, wire, restoring, raced>>

\* The access token has expired: the session is refreshed, or cleared when the
\* user is not signed in, and the request is sent once more.
Refresh(r) ==
    /\ request[r] = "sent"
    /\ request' = [request EXCEPT ![r] = "resent"]
    /\ UNCHANGED <<server, wire, browser>>

Accept(r) ==
    /\ request[r] \in {"sent", "resent"}
    /\ request' = [request EXCEPT ![r] = "open"]
    /\ server' = [server EXCEPT ![r].at = "prepare"]
    /\ UNCHANGED <<wire, browser>>

\* appendAssistantMessage and clearStreamingState; the request is over.
End(r, incomplete, whole) ==
    /\ ui' = [Blank EXCEPT !.messages =
            IF ref = NoStream THEN ui.messages
            ELSE Append(ui.messages, [from |-> "assistant", request |-> r,
                                      incomplete |-> incomplete, whole |-> whole])]
    /\ ref' = NoStream
    /\ request' = [request EXCEPT ![r] = "closed"]

\* Not signed in, too many requests, a history the server does not accept, no
\* connection; or the connection is lost while the answer comes.
Fail(r) ==
    /\ request[r] \in {"sent", "resent", "open"}
    /\ active = r
    /\ End(r, TRUE, FALSE)
    /\ wire' = [wire EXCEPT ![r] = <<>>]
    /\ Over(r)
    /\ UNCHANGED <<shown, due, active, saved, restoring, raced>>

-----------------------------------------------------------------------------
(* The callbacks.                                                          *)
Receive(r) ==
    /\ request[r] = "open" /\ wire[r] # <<>>
    /\ active = r
    /\ wire' = [wire EXCEPT ![r] = Tail(@)]
    /\ LET e == Head(wire[r]) IN
         \/ /\ e.kind = "text"
            /\ ref' = [ref EXCEPT !.text = Append(@, e.payload)]
            /\ ui' = [ui EXCEPT !.text = Append(@, e.payload)]
            /\ UNCHANGED request
         \/ /\ e.kind = "reset"
            /\ ref' = NoStream
            /\ ui' = [ui EXCEPT !.text = <<>>, !.cards = FALSE]
            /\ UNCHANGED request
         \/ /\ e.kind = "cards"
            /\ ref' = [ref EXCEPT !.cards = TRUE]
            /\ ui' = [ui EXCEPT !.cards = TRUE]
            /\ UNCHANGED request
         \/ e.kind = "done" /\ End(r, FALSE, ref = e.payload)
         \/ e.kind = "error" /\ End(r, TRUE, FALSE)
    /\ UNCHANGED <<server, shown, due, active, saved, restoring, raced>>

-----------------------------------------------------------------------------
(* The user starts over or leaves the page: abortActiveRequest.             *)

\* Fault: the request goes on, and is still the active one.
KeepRunning == UNCHANGED <<request, server, wire, active>>

\* The connection is closed, which the server sees before it sends again.
AbortActive ==
    /\ active' = 0
    /\ request' = [r \in Requests |-> IF request[r] \in {"sent", "resent", "open"}
                                        THEN "closed" ELSE request[r]]
    /\ server' = [r \in Requests |-> IF request[r] = "open" THEN [Idle EXCEPT !.at = "over"]
                                                           ELSE server[r]]
    /\ wire' = [r \in Requests |-> <<>>]

\* The effects that are due run after the handler and before the rendering it
\* asks for: messages they save outlive the new chat.
NewChat ==
    /\ shown.messages # <<>> \/ shown.streaming
    /\ AbortActive
    /\ ui' = Blank /\ shown' = Blank /\ due' = {} /\ ref' = NoStream
    /\ saved' = IF "messages" \in due THEN SavedAfter ELSE <<>>
    /\ raced' = (raced \/ "messages" \in due)
    /\ UNCHANGED restoring

\* Another page, and back, which runs the effects that are due; or a reload, which
\* drops them.
Reload ==
    /\ AbortActive
    /\ ui' = Blank /\ shown' = Blank /\ due' = {} /\ ref' = NoStream
    /\ saved' \in {saved, SavedAfter} /\ restoring' = saved'
    /\ UNCHANGED raced

-----------------------------------------------------------------------------
Serve(r) == Prepare(r) \/ Delta(r) \/ Finish(r) \/ Invalid(r) \/ Broken(r)

Next ==
    \/ \E r \in Requests : \/ Send(r) \/ Refresh(r) \/ Accept(r) \/ Fail(r)
                           \/ Serve(r) \/ Receive(r)
    \/ Effects \/ Render \/ RestoreTimer
    \/ NewChat \/ Reload

\* The model's service answers or runs into the timeout of its client (30 s), the
\* server answers a request, and what is sent arrives or the connection is lost.
Proceeds(r) == Serve(r) \/ Receive(r) \/ Refresh(r) \/ Accept(r)

Fairness == \A r \in Requests : WF_chatVars(Proceeds(r))

Spec == Init /\ [][Next]_chatVars /\ Fairness

-----------------------------------------------------------------------------
(* Types: at most one request is open, the active one.                      *)
TypeOK ==
    /\ \A r \in Requests :
         /\ request[r] \in {"unused", "sent", "resent", "open", "closed"}
         /\ request[r] \in {"sent", "resent", "open"} => r = active /\ ui.streaming
         /\ server[r].attempt \in 1 .. MaxAttempts /\ server[r].sent \in 0 .. Pieces
    /\ Len(saved) <= MaxStored
    /\ due \subseteq {"messages", "text", "cards"}

(* What is displayed while an answer comes is the beginning of one attempt  *)
(* of the request that is active, never pieces of an attempt that the        *)
(* server has refused next to pieces of the next one.                        *)
OneAttemptShown ==
    ui.text # <<>> => \E a \in 1 .. MaxAttempts : ui.text = Whole(active, a, Len(ui.text))

(* Every answer in the conversation follows its question, and one that is   *)
(* not marked as cut off is what the server resolved: unless an effect or    *)
(* the restore timer has overwritten a newer value.                          *)
AnswersInPlace ==
    ~raced => \A i \in DOMAIN ui.messages :
        LET m == ui.messages[i] IN
        m.from = "assistant" =>
            /\ i > 1 => ui.messages[i - 1] = [from |-> "user", request |-> m.request]
            /\ i = 1 => Len(ui.messages) >= MaxStored
            /\ m.incomplete \/ m.whole

(* A request that is shown as being answered ends: with an answer, with an  *)
(* error, or because the user gives up.                                      *)
RequestsEnd == ui.streaming ~> ~ui.streaming

(* "onDone 콜백에서 최신 streaming 상태를 참조하기 위한 ref" (ChatSection.tsx): *)
(* through the refs onDone sees the latest streaming state, and stores all   *)
(* of the answer.                                                            *)
DoneSeesLatest ==
    \A i \in DOMAIN ui.messages :
        ui.messages[i].from = "assistant" /\ ~ui.messages[i].incomplete => ui.messages[i].whole
=============================================================================
