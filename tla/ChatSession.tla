----------------------------- MODULE ChatSession -----------------------------
(***************************************************************************)
(* One turn of the chat, end to end:                                       *)
(*                                                                         *)
(*    browser (ChatClient)  <->  BFF (route.ts)  <->  backend (ChatRequest) *)
(*                                                                         *)
(* The BFF turns away a request without a principal, forwards the others,  *)
(* and passes the backend's status and body on unchanged.  The two         *)
(* connections deliver in order and may break at any time; abandoning the  *)
(* one to the browser, whether by the stop button, by the end of the turn  *)
(* or by a failure, is passed on to the backend, some time later.          *)
(***************************************************************************)
EXTENDS Naturals, Sequences

CONSTANTS MaxAttempts, Arrivals, MaxArrivals, UsesEntra

VARIABLES
  principal,    \* the request carries a principal, or the check is disabled
  bff,          \* "received", "forwarded", "answered" or "turned_away"
  arrived,      \* events of the backend's body that reached the browser
  body,         \* the response as the browser sees it: see ChatClient
  \* the backend: see ChatRequest
  request, stage, embedAttempt, embedError, found, status,
  pc, attempt, log, pos, stopSeen, open, lastError, wire, client,
  \* the browser: see ChatClient
  phase, seen, fatal, partial, outcome, display, screen, banner

network     == <<principal, bff, arrived, body>>
backendVars == <<request, stage, embedAttempt, embedError, found, status,
                 pc, attempt, log, pos, stopSeen, open, lastError, wire, client>>
browserVars == <<phase, seen, fatal, partial, outcome, display, screen, banner>>
vars        == <<network, backendVars, browserVars>>

Backend == INSTANCE ChatRequest

\* The assumptions of the backend on the same constants.
ASSUME SessionAssumption == /\ MaxAttempts \in Nat \ {0}
                            /\ Arrivals \subseteq Backend!Stream!Arrival
                            /\ MaxArrivals \in Nat \ {0}
                            /\ UsesEntra \in BOOLEAN

Events == Backend!Contract!WireEvent

Browser == INSTANCE ChatClient
             WITH inbox <- SubSeq(wire, 1, arrived),
                  Items <- Events, MaxItems <- MaxArrivals + 2

TypeOK == /\ principal \in BOOLEAN
          /\ bff \in {"received", "forwarded", "answered", "turned_away"}
          /\ arrived \in 0..Len(wire)
          /\ body \in {"pending", "refused", "open", "ended", "broken"}
          /\ Backend!TypeOK
          /\ Browser!TypeOK
-----------------------------------------------------------------------------
Init == /\ principal \in BOOLEAN
        /\ bff = "received"
        /\ arrived = 0
        /\ body = "pending"
        /\ Backend!Init
        /\ Browser!ClientInit

(***************************************************************************)
(* The BFF.                                                                *)
(***************************************************************************)
\* isPrincipalCheckPassed fails: 401 without a call of the backend.
BffRejects ==
  /\ bff = "received"
  /\ body = "pending"
  /\ ~principal
  /\ bff' = "turned_away"
  /\ body' = "refused"
  /\ UNCHANGED <<principal, arrived, backendVars, browserVars>>

BffForwards ==
  /\ bff = "received"
  /\ principal
  /\ bff' = "forwarded"
  /\ UNCHANGED <<principal, arrived, body, backendVars, browserVars>>

\* The fetch of the BFF rejects: 502, whether the backend got the request
\* or not.
BffUnreachable ==
  /\ body = "pending"
  /\ \/ bff = "received" /\ principal /\ bff' = "turned_away"
     \/ bff = "forwarded" /\ bff' = "answered"
  /\ body' = "refused"
  /\ UNCHANGED <<principal, arrived, backendVars, browserVars>>

\* Mutant: an error status is not passed on.
BffAnswersSuccess ==
  /\ bff = "forwarded"
  /\ body = "pending"
  /\ status = 200
  /\ bff' = "answered"
  /\ body' = "open"
  /\ UNCHANGED <<principal, arrived, backendVars, browserVars>>

\* The backend's status line: the BFF answers with the same status, and
\* the browser reads the body of a 200 only.
BffAnswers ==
  /\ bff = "forwarded"
  /\ body = "pending"
  /\ status # 0
  /\ bff' = "answered"
  /\ body' = IF status = 200 THEN "open" ELSE "refused"
  /\ UNCHANGED <<principal, arrived, backendVars, browserVars>>

(***************************************************************************)
(* The connections.                                                        *)
(***************************************************************************)
\* Mutant: an event that was never sent arrives.
DeliverTooMuch ==
  /\ body = "open"
  /\ arrived <= Len(wire)
  /\ arrived' = arrived + 1
  /\ UNCHANGED <<principal, bff, body, backendVars, browserVars>>

\* Mutant: events arrive over a broken connection.
DeliverAnyway ==
  /\ body # "pending"
  /\ arrived < Len(wire)
  /\ arrived' = arrived + 1
  /\ UNCHANGED <<principal, bff, body, backendVars, browserVars>>

Deliver ==
  /\ body = "open"
  /\ arrived < Len(wire)
  /\ arrived' = arrived + 1
  /\ UNCHANGED <<principal, bff, body, backendVars, browserVars>>

\* The end of the body follows its last event.
DeliverEnd ==
  /\ body = "open"
  /\ arrived = Len(wire)
  /\ Backend!Reply = "terminated"
  /\ body' = "ended"
  /\ UNCHANGED <<principal, bff, arrived, backendVars, browserVars>>

Break == /\ body' = "broken"
         /\ UNCHANGED <<principal, bff, arrived, backendVars, browserVars>>

ConnectionBreaks == body \in {"pending", "open"} /\ Break

\* A body that the backend leaves without its end is cut off.
BackendCutsOff == body = "open" /\ pc = "crashed" /\ Break

\* Mutant: the fetch of the BFF is not given the signal of the request.
AbandonedUnsignalled == body \in {"broken", "refused"}

Abandoned == phase \in {"closing", "settled"} \/ body \in {"broken", "refused"}

Reached == bff \in {"forwarded", "answered"}

\* request.signal aborts the fetch of the BFF.
AbortPropagates ==
  /\ Reached
  /\ Abandoned
  /\ Backend!ClientLeaves
  /\ UNCHANGED <<network, browserVars>>
-----------------------------------------------------------------------------
BackendRuns(A) == Reached /\ A /\ UNCHANGED <<network, browserVars>>

BackendWorks == BackendRuns(\/ Backend!Gate \/ Backend!Embed
                            \/ Backend!Database \/ Backend!Notice
                            \/ Backend!StreamBody)

BrowserRuns  == Browser!ClientStep /\ UNCHANGED <<network, backendVars>>
UserStops    == Browser!UserStops /\ UNCHANGED <<network, backendVars>>

Bff == BffRejects \/ BffForwards \/ BffUnreachable \/ BffAnswers

Next == \/ Bff
        \/ Deliver \/ DeliverEnd \/ ConnectionBreaks \/ BackendCutsOff
        \/ AbortPropagates
        \/ BackendWorks
        \/ BrowserRuns \/ UserStops

Spec == Init /\ [][Next]_vars

(***************************************************************************)
(* Fairness: each of the three processes runs what is ready, a connection  *)
(* that is up delivers, an abort arrives.  FairSpec assumes nothing of the *)
(* provider.                                                               *)
(***************************************************************************)
FairSpec == /\ Spec
            /\ WF_vars(BffRejects) /\ WF_vars(BffForwards)
            /\ WF_vars(BffAnswers)
            /\ WF_vars(Deliver \/ DeliverEnd \/ BackendCutsOff)
            /\ WF_vars(AbortPropagates)
            /\ WF_vars(BrowserRuns)
            /\ WF_vars(BackendRuns(Backend!Gate))
            /\ WF_vars(BackendRuns(Backend!EmbedTimesOut))
            /\ WF_vars(BackendRuns(Backend!EmbedNextAttempt))
            /\ WF_vars(BackendRuns(Backend!Database))
            /\ WF_vars(BackendRuns(Backend!Notice))
            /\ WF_vars(BackendRuns(Backend!InBody(Backend!Stream!Read)))
            /\ WF_vars(BackendRuns(
                 Backend!InBody(Backend!Stream!FirstDeltaTimeout)))
            /\ WF_vars(BackendRuns(Backend!InBody(Backend!Stream!NextAttempt)))
            /\ WF_vars(BackendRuns(Backend!InBody(Backend!Stream!ChainClosed)))

\* A provider that goes on until it ends the body, as the assumption of a
\* property.
ProviderGoesOn ==
  WF_vars(BackendRuns(Backend!InBody(Backend!Stream!ProviderSends)))
-----------------------------------------------------------------------------
Condemned == \E i \in 1..pos : Backend!Stream!Condemns(log[i])

\* The texts the provider sent in the attempt that was relayed.
ProviderTexts ==
  LET texts[i \in Nat] ==
        IF i = 0 THEN <<>>
        ELSE IF Backend!Stream!CarriesText(log[i])
          THEN Append(texts[i - 1], <<attempt, i>>)
        ELSE texts[i - 1]
  IN texts[pos]

\* What the user sees as a complete answer is either the guard's notice for
\* a question without grounds, or exactly the texts of one stream that the
\* provider finished and whose content filter objected to nothing (ADR-0028
\* decisions 2, 5 and 6, from the provider to the screen).
CompleteAnswer ==
  outcome = "done" =>
    \/ /\ found \in {"none", "below"}
       /\ screen.texts = <<Backend!Stream!NoContext>>
    \/ /\ found = "enough"
       /\ log[pos].kind = "done"
       /\ ~Condemned
       /\ screen.texts = ProviderTexts

\* A text that the provider's filter condemned is off the screen at the end
\* of the turn, unless the stop button or a broken connection ended it
\* (ADR-0028 decision 6).
CondemnedIsRetracted ==
  (Condemned /\ phase = "settled" /\ outcome \notin {"stopped", "lost", "refused"})
     => screen = Browser!Shown(<<>>, "retracted")

\* To the browser, backend and network together are a server as ChatClient
\* assumes it, so what ChatClient shows holds of this composition.
BrowserSeesServer == Browser!Spec

\* Once the turn is over in the browser, for whatever reason and in
\* whatever stage of the backend, the backend sooner or later has no
\* request open at the chat model and never opens one again (FairSpec;
\* route.ts: the abort is propagated; ADR-0028 decision 2).
OverReleasesProvider == (phase = "settled") ~> [](open = {})

\* Every turn ends in the browser if the provider goes on, with the managed
\* identity too: what the backend does not end with an event, the broken
\* connection ends (FairSpec).
TurnEnds == ProviderGoesOn => <>(phase = "settled")
=============================================================================
