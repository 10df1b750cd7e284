------------------------------ MODULE ChatClient ------------------------------
(***************************************************************************)
(* One turn of the chat in the browser: handleSubmit of chat.tsx and       *)
(* consumeChatSseStream, reading what a response delivers.                 *)
(*                                                                         *)
(* inbox is the sequence of what the response body carries, one item per   *)
(* event that the parser completes, and seen how much of it the consumer   *)
(* has handled.  The consumer handles the events of one network chunk in   *)
(* one go; handling them one by one, with the user allowed to act between  *)
(* them, covers every way of cutting the body into chunks.                 *)
(***************************************************************************)
EXTENDS Naturals, Sequences

CONSTANTS Items,         \* what one event of a response may be (see IsContent)
          MaxItems       \* bound: items a response has

VARIABLES
  inbox,     \* items the response has delivered so far
  body,      \* "pending", "refused", "open", "ended" or "broken"
  phase,     \* "fetching", "reading", "closing" or "settled"
  seen,      \* items of inbox handled
  fatal,     \* the parser met a line or an event it cannot read
  partial,   \* partialText, as the sequence of texts it concatenates
  outcome,   \* how the turn ended
  display,   \* displayText of that outcome
  screen,    \* what the assistant's message shows
  banner     \* an error banner is shown

clientVars == <<phase, seen, fatal, partial, outcome, display, screen, banner>>
serverVars == <<inbox, body>>
vars       == <<serverVars, clientVars>>

\* An item is a record with the field event: "message" or "notice" with a
\* non-empty text, "error" with a class, "done", "empty" (content with an
\* empty text), "illegal" (a text that is not a string, or an event the
\* contract does not have) or "unreadable" (no event that the parser can
\* make sense of).
IsContent(e) == e.event \in {"message", "notice"}

\* note: "none", "incomplete" (INCOMPLETE_RESPONSE_TEXT appended) or
\* "retracted" (the text replaced by CONTENT_FILTER_RETRACTION_TEXT).
Shown(texts, note) == [texts |-> texts, note |-> note]

Outcome == {"none", "done", "error", "failed", "stopped", "lost", "refused"}

TypeOK == /\ phase \in {"fetching", "reading", "closing", "settled"}
          /\ seen \in 0..Len(inbox)
          /\ fatal \in BOOLEAN
          /\ Len(partial) <= seen
          /\ outcome \in Outcome
          /\ display.note \in {"none", "incomplete", "retracted"}
          /\ screen.note \in {"none", "incomplete", "retracted"}
          /\ banner \in BOOLEAN
-----------------------------------------------------------------------------
\* handleSubmit has just called fetch.
ClientInit == /\ phase = "fetching"
              /\ seen = 0
              /\ fatal = FALSE
              /\ partial = <<>>
              /\ outcome = "none"
              /\ display = Shown(<<>>, "none")
              /\ screen = Shown(<<>>, "none")
              /\ banner = FALSE

\* The catch of handleSubmit: a banner, and the message stays as it is.
Abandon(why) == /\ phase' = "settled"
                /\ outcome' = why
                /\ banner' = TRUE
                /\ UNCHANGED <<seen, fatal, partial, display, screen>>

\* Mutant: a failure without any text leaves an empty message.
DisplayTextSilent(terminal, retract) ==
  IF terminal = "done" \/ partial = <<>> THEN Shown(partial, "none")
  ELSE IF retract THEN Shown(<<>>, "retracted")
  ELSE Shown(partial, "incomplete")

\* finalize
DisplayText(terminal, retract) ==
  IF terminal = "done" THEN Shown(partial, "none")
  ELSE IF retract THEN Shown(<<>>, "retracted")
  ELSE Shown(partial, "incomplete")

\* The consumer has its verdict and awaits reader.cancel.
Conclude(terminal, retract) ==
  /\ phase' = "closing"
  /\ outcome' = terminal
  /\ display' = DisplayText(terminal, retract)
  /\ UNCHANGED <<partial, screen, banner>>

FetchRefused == /\ phase = "fetching"
                /\ body = "refused"
                /\ Abandon("refused")

FetchResponds == /\ phase = "fetching"
                 /\ body \in {"open", "ended"}
                 /\ phase' = "reading"
                 /\ UNCHANGED <<seen, fatal, partial, outcome, display,
                                screen, banner>>

\* fetch or reader.read rejects.
ConnectionLost == /\ phase \in {"fetching", "reading"}
                  /\ body = "broken"
                  /\ Abandon("lost")

\* Mutant: the rejection of reader.cancel is not swallowed.
UserStopsAnytime == phase # "settled" /\ Abandon("stopped")

\* The stop button aborts the fetch: what has arrived and was not read is
\* dropped, and the pending read rejects with AbortError.  While the
\* consumer awaits reader.cancel the button still aborts, which changes
\* nothing: the rejection is swallowed and the verdict returned.
UserStops == /\ phase \in {"fetching", "reading"}
             /\ Abandon("stopped")

Next1 == inbox[seen + 1]

Handles(kinds) == /\ phase = "reading"
                  /\ ~fatal
                  /\ seen < Len(inbox)
                  /\ Next1.event \in kinds
                  /\ seen' = seen + 1
                  /\ UNCHANGED fatal

\* A message or notice with a non-empty text is added and rendered.
HandleContent ==
  /\ Handles({"message", "notice"})
  /\ partial' = Append(partial, Next1.text)
  /\ screen' = Shown(partial', "none")
  /\ UNCHANGED <<phase, outcome, display, banner>>

\* An empty text is not a content event.
HandleEmpty ==
  /\ Handles({"empty"})
  /\ UNCHANGED <<phase, partial, outcome, display, screen, banner>>

HandleDone == Handles({"done"}) /\ Conclude("done", FALSE)

\* Mutant: nothing is retracted.
HandleErrorKeeping == Handles({"error"}) /\ Conclude("error", FALSE)

HandleError ==
  /\ Handles({"error"})
  /\ Conclude("error", Next1.class = "content_filter")

\* A text that is not a string, or an event the contract does not have.
HandleIllegal == Handles({"illegal"}) /\ Conclude("failed", FALSE)

\* Mutant: what cannot be read is skipped.
ParserSkips == /\ phase = "reading"
               /\ ~fatal
               /\ seen < Len(inbox)
               /\ Next1.event = "unreadable"
               /\ seen' = seen + 1
               /\ UNCHANGED <<phase, fatal, partial, outcome, display,
                              screen, banner>>

\* The parser keeps a framing error for the next feed.
ParserFails == /\ phase = "reading"
               /\ ~fatal
               /\ seen < Len(inbox)
               /\ Next1.event = "unreadable"
               /\ seen' = seen + 1
               /\ fatal' = TRUE
               /\ UNCHANGED <<phase, partial, outcome, display, screen, banner>>

FatalSurfaces == /\ phase = "reading"
                 /\ fatal
                 /\ seen < Len(inbox)
                 /\ Conclude("failed", FALSE)
                 /\ UNCHANGED <<seen, fatal>>

\* Mutant: the end of the body after a framing error goes unnoticed.
BodyEndsCleanly == /\ phase = "reading"
                   /\ body = "ended"
                   /\ ~fatal
                   /\ seen = Len(inbox)
                   /\ phase' = "settled"
                   /\ outcome' = "failed"
                   /\ display' = DisplayText("failed", FALSE)
                   /\ screen' = display'
                   /\ UNCHANGED <<seen, fatal, partial, banner>>

\* The body ends with everything handled and no terminal event among it.
\* There is nothing to cancel.
BodyEnds == /\ phase = "reading"
            /\ body = "ended"
            /\ seen = Len(inbox)
            /\ phase' = "settled"
            /\ outcome' = "failed"
            /\ display' = DisplayText("failed", FALSE)
            /\ screen' = display'
            /\ UNCHANGED <<seen, fatal, partial, banner>>

\* Mutant: the message keeps what the last content event made it show.
SettleUnrendered == /\ phase = "closing"
                    /\ phase' = "settled"
                    /\ UNCHANGED <<seen, fatal, partial, outcome, display,
                                   screen, banner>>

\* reader.cancel has returned: the last upsertAssistantMessage.
Settle == /\ phase = "closing"
          /\ phase' = "settled"
          /\ screen' = display
          /\ UNCHANGED <<seen, fatal, partial, outcome, display, banner>>

Handle == \/ HandleContent \/ HandleEmpty \/ HandleDone \/ HandleError
          \/ HandleIllegal \/ ParserFails \/ FatalSurfaces \/ BodyEnds

ClientStep == \/ FetchRefused \/ FetchResponds \/ ConnectionLost
              \/ Handle \/ Settle
-----------------------------------------------------------------------------
(***************************************************************************)
(* An arbitrary server, for checking the client by itself: any items in    *)
(* any order, and any end.                                                 *)
(***************************************************************************)
ServerInit == inbox = <<>> /\ body = "pending"

Deliver == /\ body = "open"
           /\ Len(inbox) < MaxItems
           /\ \E i \in Items : inbox' = Append(inbox, i)
           /\ UNCHANGED <<body, clientVars>>

Respond == /\ body = "pending"
           /\ body' \in {"refused", "open", "broken"}
           /\ UNCHANGED <<inbox, clientVars>>

CloseBody == /\ body = "open"
             /\ body' \in {"ended", "broken"}
             /\ UNCHANGED <<inbox, clientVars>>

Server == Respond \/ Deliver \/ CloseBody

Init == ClientInit /\ ServerInit

Next == \/ ClientStep /\ UNCHANGED serverVars
        \/ UserStops /\ UNCHANGED serverVars
        \/ Server

Spec == Init /\ [][Next]_vars

\* The browser's event loop runs what is ready, and a body ends.
FairSpec == /\ Spec
            /\ WF_vars(ClientStep /\ UNCHANGED serverVars)
            /\ WF_vars(Respond)
            /\ WF_vars(CloseBody)
-----------------------------------------------------------------------------
\* The texts of the content items among the first n.
ContentOf(items, n) ==
  LET texts[k \in Nat] ==
        IF k = 0 THEN <<>>
        ELSE IF IsContent(items[k]) THEN Append(texts[k - 1], items[k].text)
        ELSE texts[k - 1]
  IN texts[n]

\* A turn is shown as complete only if done was received, nothing before it
\* was illegal, unreadable or terminal, and the message shows every text
\* received, in order (ADR-0028 decision 2; consumeChatSseStream).
CompleteIsEarned ==
  outcome = "done" =>
     /\ seen > 0
     /\ inbox[seen].event = "done"
     /\ \A i \in 1..(seen - 1) : inbox[i].event \in {"message", "notice", "empty"}
     /\ screen = Shown(ContentOf(inbox, seen), "none")

\* A turn that did not complete never looks complete: the message says so,
\* or a banner does (finalize, the catch of handleSubmit).
FailureIsVisible ==
  (phase = "settled" /\ outcome # "done") => (screen.note # "none" \/ banner)

\* Text goes from the screen only on error(content_filter), and then all of
\* it goes; any other ending leaves what was received, and nothing that was
\* not (ADR-0028 decision 6: retract only what the filter could not clear).
ScreenIsFaithful ==
  IF /\ phase = "settled"
     /\ seen > 0
     /\ inbox[seen].event = "error"
     /\ inbox[seen].class = "content_filter"
    THEN screen = Shown(<<>>, "retracted")
    ELSE screen.texts = ContentOf(inbox, seen)

\* Once a terminal event has decided the turn, neither the stop button, nor
\* a broken connection, nor anything that still arrives changes the verdict
\* (the .catch of reader.cancel in consumeChatSseStream).
VerdictIsFinal ==
  [][outcome # "none" => UNCHANGED <<outcome, display, banner>>]_vars

\* The turn ends, and the send button comes back, whatever the server sends
\* as long as its body ends (FairSpec; the finally of handleSubmit).
TurnEnds == <>(phase = "settled")
=============================================================================
