----------------------------- MODULE ChatRequest -----------------------------
(***************************************************************************)
(* One POST /chat in the backend, from the gate to the end of its body:    *)
(*                                                                         *)
(*   gate -> validation -> embed (with retries) -> document search ->      *)
(*   guard -> numeric records -> SSE body                                  *)
(*                                                                         *)
(* Up to the SSE body a failure answers with an HTTP status; from then on  *)
(* the body is the chain of ChatStream, or the two events of the guard.    *)
(* The client can go away at any time, which the handler does not notice   *)
(* before its response is being sent.                                      *)
(***************************************************************************)
EXTENDS Naturals, Sequences

CONSTANTS MaxAttempts, Arrivals, MaxArrivals, UsesEntra

VARIABLES
  request,      \* what the request and the settings are like
  stage,        \* where the handler is (see Stage)
  embedAttempt, \* the attempt of _call_with_retry's loop, 0 before it
  embedError,   \* class of the last failure of an embed attempt
  found,        \* the best document: "none", "below" or "enough"
  status,       \* HTTP status of the response, 0 while there is none
  \* the SSE body: see ChatStream
  pc, attempt, log, pos, stopSeen, open, lastError, wire, client

handlerVars == <<request, stage, embedAttempt, embedError, found, status>>
bodyVars    == <<pc, attempt, log, pos, stopSeen, open, lastError, wire>>
vars        == <<handlerVars, bodyVars, client>>

Stream == INSTANCE ChatStream

\* The assumptions of ChatStream on the same constants.
ASSUME BodyAssumption == /\ MaxAttempts \in Nat \ {0}
                         /\ Arrivals \subseteq Stream!Arrival
                         /\ MaxArrivals \in Nat \ {0}
                         /\ UsesEntra \in BOOLEAN

Stage == {"gate", "embed", "embed_backoff", "search", "properties",
          "notice", "noticed", "stream", "answered"}

\* gate: "closed" when CHAT_DISABLED is set or the configured key is missing
\* or too short, "mismatch" when the presented key is not the configured one.
Request == [gate : {"closed", "mismatch", "open"}, valid : BOOLEAN]

Statuses == {200, 401, 404, 422, 500, 502, 503}

EmbedFailure == {"timeout", "rate_limit", "server_error", "bad_request"}

TypeOK == /\ request \in Request
          /\ stage \in Stage
          /\ embedAttempt \in 0..MaxAttempts
          /\ embedError \in EmbedFailure \cup {"none", "dimension"}
          /\ found \in {"unknown", "none", "below", "enough"}
          /\ status \in Statuses \cup {0}
          /\ Stream!TypeOK
-----------------------------------------------------------------------------
Init == /\ request \in Request
        /\ stage = "gate"
        /\ embedAttempt = 0
        /\ embedError = "none"
        /\ found = "unknown"
        /\ status = 0
        /\ Stream!Init

\* The response is an HTTP error, and the request is over.
Answer(code) == /\ status' = code
                /\ stage' = "answered"

\* _enforce_chat_gate runs before the body is validated.
Gate ==
  /\ stage = "gate"
  /\ IF request.gate = "open" /\ request.valid
       THEN /\ stage' = "embed"
            /\ embedAttempt' = 1
            /\ UNCHANGED status
       ELSE /\ Answer(IF request.gate = "closed" THEN 404
                      ELSE IF request.gate = "mismatch" THEN 401 ELSE 422)
            /\ UNCHANGED embedAttempt
  /\ UNCHANGED <<request, embedError, found, bodyVars, client>>

(***************************************************************************)
(* The embedding of the question: LLMClient.embed over _call_with_retry.   *)
(* The timer of wait_for covers the token as well as the call.             *)
(***************************************************************************)
EmbedReturns ==
  /\ stage = "embed"
  /\ stage' = "search"
  /\ UNCHANGED <<request, embedAttempt, embedError, found, status,
                 bodyVars, client>>

\* A vector of the wrong length is found outside the retry loop.
EmbedWrongDimension ==
  /\ stage = "embed"
  /\ embedError' = "dimension"
  /\ Answer(502)
  /\ UNCHANGED <<request, embedAttempt, found, bodyVars, client>>

\* Mutant: only rate limits and server errors are retried.
EmbedAttemptFailsOnTimeout(e) ==
  /\ stage = "embed"
  /\ embedError' = e
  /\ IF e \in {"rate_limit", "server_error"} /\ embedAttempt < MaxAttempts
       THEN stage' = "embed_backoff" /\ UNCHANGED status
       ELSE Answer(502)
  /\ UNCHANGED <<request, embedAttempt, found, bodyVars, client>>

EmbedAttemptFails(e) ==
  /\ stage = "embed"
  /\ embedError' = e
  /\ IF e \in Stream!Retryable /\ embedAttempt < MaxAttempts
       THEN /\ stage' = "embed_backoff"
            /\ UNCHANGED status
       ELSE Answer(502)
  /\ UNCHANGED <<request, embedAttempt, found, bodyVars, client>>

EmbedFails ==
  \E e \in EmbedFailure \ {"timeout"} : EmbedAttemptFails(e)

EmbedTimesOut == EmbedAttemptFails("timeout")

\* The token provider raises what no except clause of the handler catches.
EmbedTokenFails ==
  /\ UsesEntra
  /\ stage = "embed"
  /\ Answer(500)
  /\ UNCHANGED <<request, embedAttempt, embedError, found, bodyVars, client>>

EmbedNextAttempt ==
  /\ stage = "embed_backoff"
  /\ stage' = "embed"
  /\ embedAttempt' = embedAttempt + 1
  /\ UNCHANGED <<request, embedError, found, status, bodyVars, client>>

(***************************************************************************)
(* The two reads of the database, and the guard between them.              *)
(***************************************************************************)
SearchFails ==
  /\ stage = "search"
  /\ Answer(503)
  /\ UNCHANGED <<request, embedAttempt, embedError, found, bodyVars, client>>

\* Mutant: any document will do, however far from the question.
SearchReturnsUnguarded ==
  /\ stage = "search"
  /\ found' \in {"none", "below", "enough"}
  /\ IF found' # "none"
       THEN stage' = "properties" /\ UNCHANGED status
       ELSE stage' = "notice" /\ status' = 200
  /\ UNCHANGED <<request, embedAttempt, embedError, bodyVars, client>>

\* No chunk, or the best one below the threshold: the guard answers without
\* the LLM.
SearchReturns ==
  /\ stage = "search"
  /\ found' \in {"none", "below", "enough"}
  /\ IF found' = "enough"
       THEN /\ stage' = "properties"
            /\ UNCHANGED status
       ELSE /\ stage' = "notice"
            /\ status' = 200
  /\ UNCHANGED <<request, embedAttempt, embedError, bodyVars, client>>

PropertiesFail ==
  /\ stage = "properties"
  /\ Answer(503)
  /\ UNCHANGED <<request, embedAttempt, embedError, found, bodyVars, client>>

PropertiesReturn ==
  /\ stage = "properties"
  /\ stage' = "stream"
  /\ status' = 200
  /\ UNCHANGED <<request, embedAttempt, embedError, found, bodyVars, client>>

(***************************************************************************)
(* The SSE body.                                                           *)
(***************************************************************************)
\* _guard_notice_events
SendNotice ==
  /\ stage = "notice"
  /\ wire' = Append(wire, Stream!Contract!Notice)
  /\ stage' = "noticed"
  /\ UNCHANGED <<request, embedAttempt, embedError, found, status,
                 pc, attempt, log, pos, stopSeen, open, lastError, client>>

SendNoticeDone ==
  /\ stage = "noticed"
  /\ wire' = Append(wire, Stream!Contract!Done)
  /\ stage' = "answered"
  /\ UNCHANGED <<request, embedAttempt, embedError, found, status,
                 pc, attempt, log, pos, stopSeen, open, lastError, client>>

\* The guard's body is cancelled like any other.
NoticeClosed ==
  /\ stage \in {"notice", "noticed"}
  /\ client = "gone"
  /\ stage' = "answered"
  /\ UNCHANGED <<request, embedAttempt, embedError, found, status,
                 bodyVars, client>>

StreamBody == /\ stage = "stream"
              /\ \/ Stream!TokenReady
                 \/ Stream!TokenFails
                 \/ Stream!ResponseAccepted
                 \/ Stream!ResponseRefused
                 \/ Stream!FirstDeltaTimeout
                 \/ Stream!NextAttempt
                 \/ Stream!Read
                 \/ Stream!ProviderSends
                 \/ Stream!ChainClosed
              /\ UNCHANGED handlerVars

ClientLeaves == Stream!Disconnect /\ UNCHANGED handlerVars
-----------------------------------------------------------------------------
Embed == \/ EmbedReturns \/ EmbedWrongDimension \/ EmbedFails
         \/ EmbedTimesOut \/ EmbedTokenFails \/ EmbedNextAttempt

Database == \/ SearchFails \/ SearchReturns
            \/ PropertiesFail \/ PropertiesReturn

Notice == SendNotice \/ SendNoticeDone \/ NoticeClosed

Next == Gate \/ Embed \/ Database \/ Notice \/ StreamBody \/ ClientLeaves

Spec == Init /\ [][Next]_vars

(***************************************************************************)
(* Fairness: the event loop and its timers, as in ChatStream, and a        *)
(* database that answers or fails (connections have a connect timeout, the *)
(* queries none).  The provider may stay silent in both of its calls.      *)
(***************************************************************************)
InBody(A) == stage = "stream" /\ A /\ UNCHANGED handlerVars

FairSpec == /\ Spec
            /\ WF_vars(Gate)
            /\ WF_vars(EmbedTimesOut)
            /\ WF_vars(EmbedNextAttempt)
            /\ WF_vars(Database)
            /\ WF_vars(Notice)
            /\ WF_vars(InBody(Stream!Read))
            /\ WF_vars(InBody(Stream!FirstDeltaTimeout))
            /\ WF_vars(InBody(Stream!NextAttempt))
            /\ WF_vars(InBody(Stream!ChainClosed))

\* A provider that goes on until it ends the body, as the assumption of a
\* property.
ProviderGoesOn == WF_vars(InBody(Stream!ProviderSends))
-----------------------------------------------------------------------------
\* Where the reply stands, whichever of the two bodies is sent.  An HTTP
\* error promises no event.
Reply == IF \E k \in DOMAIN wire : Stream!Contract!IsTerminal(wire[k])
           THEN "terminated"
         ELSE IF pc = "closed" THEN "dropped"
         ELSE IF stage = "answered" /\ (client = "gone" \/ status # 200)
           THEN "dropped"
         ELSE "open"

Contract == INSTANCE WireContract
              WITH Texts <- Stream!Texts, NoContext <- Stream!NoContext,
                   reply <- Reply

\* The chat model is called only for an authorised, valid request whose
\* best document reaches the threshold, and after both reads succeeded
\* (ADR-0010: the guard is code, not prompt; the order of chat()).
LlmNeedsGrounds ==
  (open # {} \/ pc # "auth" \/ attempt > 1) =>
     /\ request.gate = "open"
     /\ request.valid
     /\ found = "enough"
     /\ stage = "stream"

\* An HTTP error is the whole answer and is given no sooner than it must: no
\* event goes with it and no call of the chat model; a request that the gate
\* or the validation turns away costs no call at all; and a retryable failure
\* of the embedding is told only after every attempt (the docstrings of chat
\* and _enforce_chat_gate; _call_with_retry).
StatusIsEarned ==
  /\ status \notin {0, 200} => wire = <<>> /\ open = {} /\ pc = "auth"
  /\ wire # <<>> => status = 200
  /\ request.gate # "open" \/ ~request.valid =>
       embedAttempt = 0 /\ found = "unknown" /\ wire = <<>>
  /\ status = 502 /\ embedError \in Stream!Retryable => embedAttempt = MaxAttempts

\* However token endpoint and provider behave, or fail to, the embedding of
\* the question is settled within its attempts, and a body that has been
\* opened gets a first delta or an end: every wait is under the timer
\* (FairSpec; _call_with_retry, chat_stream).
WaitsAreBounded ==
  /\ (stage = "embed") ~> (stage \notin {"embed", "embed_backoff"})
  /\ (stage = "stream") ~> (pc = "relay" \/ pc \in Stream!Over)

\* Every step of either body is a step of the wire contract (the docstrings
\* of _guard_notice_events and _chat_stream_events).
RespectsContract == Contract!SafeSpec

\* Either body ends if the provider goes on, whatever the token endpoint, the
\* database and the first call of the provider do, unless an exception that
\* is no LLMError cuts it off (FairSpec; ADR-0028 decision 2).
EveryBodyEnds ==
  ProviderGoesOn => <>(Reply # "open" \/ pc = "crashed")

=============================================================================
