----------------------------- MODULE ChatStream -----------------------------
(***************************************************************************)
(* The SSE body of one POST /chat, from the first pull of                  *)
(* _chat_stream_events to its end: the chain of async generators           *)
(*                                                                         *)
(*   _chat_stream_events  ->  LLMClient.chat_stream  ->                    *)
(*   raw_stream_to_deltas / _convert  ->  AzureOpenAITransport.chat_stream *)
(*                                                                         *)
(* pulled by the event loop, with the provider, the timer of               *)
(* asyncio.wait_for and the client acting beside it.  Each attempt makes   *)
(* one request to the provider.  log is what the provider has sent for the *)
(* current attempt and pos how much of it the chain has consumed, so the   *)
(* provider runs ahead of the chain and what it sent may never be read.    *)
(*                                                                         *)
(* The text of a delta is named by where it came from: <<attempt, i>> is   *)
(* the text of the i-th arrival of that attempt.                           *)
(***************************************************************************)
EXTENDS Naturals, Sequences, RawStream

CONSTANTS MaxAttempts,   \* RetryConfig.max_attempts
          Arrivals,      \* what the provider may send
          MaxArrivals,   \* bound: arrivals before the body ends
          UsesEntra      \* bearer_token_provider is set (managed identity)

\* RetryConfig.__post_init__ rejects max_attempts < 1.
ASSUME AttemptsAssumption == MaxAttempts \in Nat \ {0}

ASSUME ProviderAssumption == /\ Arrivals \subseteq Arrival
                             /\ MaxArrivals \in Nat \ {0}

ASSUME EntraAssumption == UsesEntra \in BOOLEAN

VARIABLES
  pc,        \* where the chain is suspended (see Control)
  attempt,   \* the attempt of chat_stream's for loop
  log,       \* arrivals of the current attempt, in order
  pos,       \* how many of them the chain has consumed
  stopSeen,  \* _convert's stop_seen
  open,      \* attempts whose provider request has not been closed
  lastError, \* class of the error of the last failed attempt
  wire,      \* events yielded to the response so far
  client     \* "here" or "gone"

vars == <<pc, attempt, log, pos, stopSeen, open, lastError, wire, client>>

\*   auth      awaiting the authorization headers
\*   connect   request sent, awaiting the response status
\*   first     awaiting the first content delta
\*   relay     a content delta was received
\*   backoff   asyncio.sleep between two attempts
\*   ended     a terminal event was yielded
\*   crashed   an exception that is not an LLMError left the generator
\*   closed    cancelled, or closed, after the client went away
Control == {"auth", "connect", "first", "relay", "backoff",
            "ended", "crashed", "closed"}

Connecting == {"auth", "connect", "first"}   \* under asyncio.wait_for
Reading    == {"first", "relay"}             \* the response body is open
Over       == {"ended", "crashed", "closed"}

Attempts == 1..MaxAttempts
Texts    == Attempts \X (1..(MaxArrivals + 1))

\* The text of the guard's notice comes from no attempt.
NoContext == <<0, 0>>

Contract == INSTANCE WireContract
              WITH reply <- IF pc = "ended" THEN "terminated"
                            ELSE IF pc = "closed" THEN "dropped"
                            ELSE "open"

ErrorClass == Contract!ErrorClass

\* The retryable attribute of the classes in errors.py.
Retryable == {"timeout", "rate_limit", "server_error"}

TypeOK == /\ pc \in Control
          /\ attempt \in Attempts
          /\ log \in Seq(Arrival)
          /\ Len(log) \in 0..(MaxArrivals + 1)
          /\ pos \in 0..Len(log)
          /\ stopSeen \in BOOLEAN
          /\ open \subseteq Attempts
          /\ lastError \in ErrorClass \cup {"none"}
          /\ wire \in Seq(Contract!WireEvent)
          /\ client \in {"here", "gone"}
-----------------------------------------------------------------------------
Init == /\ pc = "auth"
        /\ attempt = 1
        /\ log = <<>>
        /\ pos = 0
        /\ stopSeen = FALSE
        /\ open = {}
        /\ lastError = "none"
        /\ wire = <<>>
        /\ client = "here"

(***************************************************************************)
(* How an attempt ends.  Every way out runs the finally blocks of          *)
(* raw_stream_to_deltas and of the transport, or _aclose_quietly, which    *)
(* close the provider's response before the exception is handled.          *)
(***************************************************************************)
CloseUpstream == open' = open \ {attempt}

SendTerminal(e) == /\ wire' = Append(wire, e)
                   /\ pc' = "ended"

\* Mutant: one attempt too many.
AttemptFailsUnbounded(e) ==
  /\ CloseUpstream
  /\ lastError' = e
  /\ IF e \in Retryable /\ attempt <= MaxAttempts
       THEN pc' = "backoff" /\ UNCHANGED wire
       ELSE SendTerminal(Contract!Error(e))
  /\ UNCHANGED <<attempt, client>>

\* Mutant: one attempt too few.
AttemptFailsEarly(e) ==
  /\ CloseUpstream
  /\ lastError' = e
  /\ IF e \in Retryable /\ attempt + 1 < MaxAttempts
       THEN pc' = "backoff" /\ UNCHANGED wire
       ELSE SendTerminal(Contract!Error(e))
  /\ UNCHANGED <<attempt, client>>

\* Mutant: every class of error is retried.
AttemptFailsAlike(e) ==
  /\ CloseUpstream
  /\ lastError' = e
  /\ IF attempt < MaxAttempts
       THEN pc' = "backoff" /\ UNCHANGED wire
       ELSE SendTerminal(Contract!Error(e))
  /\ UNCHANGED <<attempt, client>>

\* An LLMError of class e reaches chat_stream before the first delta.
AttemptFails(e) ==
  /\ CloseUpstream
  /\ lastError' = e
  /\ IF e \in Retryable /\ attempt < MaxAttempts
       THEN /\ pc' = "backoff"
            /\ UNCHANGED wire
       ELSE SendTerminal(Contract!Error(e))
  /\ UNCHANGED <<attempt, client>>

\* The same after the first delta: it is relayed to _chat_stream_events.
RelayFails(e) ==
  /\ CloseUpstream
  /\ lastError' = e
  /\ SendTerminal(Contract!Error(e))
  /\ UNCHANGED <<attempt, client>>

\* An exception that is not an LLMError: no except clause applies.
Crash ==
  /\ CloseUpstream
  /\ pc' = "crashed"
  /\ UNCHANGED <<attempt, lastError, wire, client>>
-----------------------------------------------------------------------------
(***************************************************************************)
(* Connecting.                                                             *)
(***************************************************************************)
TokenReady ==
  /\ pc = "auth"
  /\ pc' = "connect"
  /\ open' = open \cup {attempt}
  /\ UNCHANGED <<attempt, log, pos, stopSeen, lastError, wire, client>>

\* The token provider awaited by _auth_headers raises.  That await is
\* outside the try of the transport's chat_stream.
TokenFails ==
  /\ UsesEntra
  /\ pc = "auth"
  /\ Crash
  /\ UNCHANGED <<log, pos, stopSeen>>

ResponseAccepted ==
  /\ pc = "connect"
  /\ pc' = "first"
  /\ UNCHANGED <<attempt, log, pos, stopSeen, open, lastError, wire, client>>

\* 429, 5xx or a transport error, another 4xx, an httpx timeout.
ResponseRefused ==
  /\ pc = "connect"
  /\ \E e \in {"rate_limit", "server_error", "bad_request", "timeout"} :
        AttemptFails(e)
  /\ UNCHANGED <<log, pos, stopSeen>>

\* Mutant: the timer starts with the response only.
FirstDeltaTimeoutLate ==
  /\ pc = "first"
  /\ AttemptFails("timeout")
  /\ UNCHANGED <<log, pos, stopSeen>>

\* asyncio.wait_for gives up on the first content delta, however much of
\* the raw stream has arrived, and closes the delta stream.
FirstDeltaTimeout ==
  /\ pc \in Connecting
  /\ AttemptFails("timeout")
  /\ UNCHANGED <<log, pos, stopSeen>>

\* The sleep ends and the next attempt starts over with a new transport
\* generator and a new _convert.
NextAttempt ==
  /\ pc = "backoff"
  /\ pc' = "auth"
  /\ attempt' = attempt + 1
  /\ log' = <<>>
  /\ pos' = 0
  /\ stopSeen' = FALSE
  /\ UNCHANGED <<open, lastError, wire, client>>
-----------------------------------------------------------------------------
(***************************************************************************)
(* Reading: the chain consumes the next arrival.                           *)
(***************************************************************************)
Converts(outcome) ==
  /\ pc \in Reading
  /\ pos < Len(log)
  /\ Convert(log[pos + 1], stopSeen) = outcome
  /\ pos' = pos + 1
  /\ UNCHANGED log

ReadSkipped ==
  /\ Converts("skip")
  /\ UNCHANGED <<pc, attempt, stopSeen, open, lastError, wire, client>>

ReadStop ==
  /\ Converts("stop")
  /\ stopSeen' = TRUE
  /\ UNCHANGED <<pc, attempt, open, lastError, wire, client>>

ReadText ==
  /\ Converts("text")
  /\ pc' = "relay"
  /\ wire' = Append(wire, Contract!Message(<<attempt, pos + 1>>))
  /\ UNCHANGED <<attempt, stopSeen, open, lastError, client>>

\* Mutant: a stream without content ends in done.
ReadDoneUnchecked ==
  /\ Converts("return")
  /\ CloseUpstream
  /\ SendTerminal(Contract!Done)
  /\ UNCHANGED <<attempt, stopSeen, lastError, client>>

\* [DONE] after a stop ends the delta stream.  With no delta received,
\* chat_stream sees StopAsyncIteration and treats it as a server error.
ReadDone ==
  /\ Converts("return")
  /\ IF pc = "first"
       THEN AttemptFails("server_error")
       ELSE /\ CloseUpstream
            /\ SendTerminal(Contract!Done)
            /\ UNCHANGED <<attempt, lastError, client>>
  /\ UNCHANGED stopSeen

\* Mutant: an error is retried after partial output, too.
ReadErrorRetried ==
  /\ \E e \in {"server_error", "content_filter", "timeout"} :
        Converts(e) /\ AttemptFails(e)
  /\ UNCHANGED stopSeen

ReadError ==
  /\ \E e \in {"server_error", "content_filter", "timeout"} :
        /\ Converts(e)
        /\ IF pc = "first" THEN AttemptFails(e) ELSE RelayFails(e)
  /\ UNCHANGED stopSeen

\* The parser raises out of feed, and with it go the payloads before it in
\* the same fragment: the bad line overtakes what has not been read.
ReadUndecodable ==
  /\ pc \in Reading
  /\ \E i \in (pos + 1)..Len(log) : Convert(log[i], stopSeen) = "crash"
  /\ Crash
  /\ UNCHANGED <<log, pos, stopSeen>>

(***************************************************************************)
(* The provider, for as long as the request is open.  At the bound it can  *)
(* only end the body.                                                      *)
(***************************************************************************)
EndOfBody == [kind |-> "eof"]

BodyEnded == /\ log # <<>>
             /\ log[Len(log)].kind \in {"eof", "broken", "http_timeout"}

ProviderSends ==
  /\ pc \in Reading
  /\ attempt \in open
  /\ ~BodyEnded
  /\ Len(log) <= MaxArrivals
  /\ \E a \in IF Len(log) < MaxArrivals THEN Arrivals ELSE {EndOfBody} :
        log' = Append(log, a)
  /\ UNCHANGED <<pc, attempt, pos, stopSeen, open, lastError, wire, client>>

(***************************************************************************)
(* The client goes away.  The server notices in a later step, cancels the  *)
(* response, and the finally blocks close the chain; until then the chain  *)
(* goes on.                                                                *)
(***************************************************************************)
Disconnect ==
  /\ client = "here"
  /\ client' = "gone"
  /\ UNCHANGED <<pc, attempt, log, pos, stopSeen, open, lastError, wire>>

\* Mutant: the cancelled chain does not close the transport's stream.
ChainLeaked ==
  /\ client = "gone"
  /\ pc \notin Over
  /\ pc' = "closed"
  /\ UNCHANGED <<attempt, log, pos, stopSeen, open, lastError, wire, client>>

ChainClosed ==
  /\ client = "gone"
  /\ pc \notin Over
  /\ pc' = "closed"
  /\ CloseUpstream
  /\ UNCHANGED <<attempt, log, pos, stopSeen, lastError, wire, client>>
-----------------------------------------------------------------------------
Read == \/ ReadSkipped \/ ReadStop \/ ReadText
        \/ ReadDone \/ ReadError \/ ReadUndecodable

Next == \/ TokenReady \/ TokenFails
        \/ ResponseAccepted \/ ResponseRefused
        \/ FirstDeltaTimeout \/ NextAttempt
        \/ Read
        \/ ProviderSends
        \/ Disconnect \/ ChainClosed

Spec == Init /\ [][Next]_vars

(***************************************************************************)
(* Fairness.  The event loop runs a generator that has something to        *)
(* consume, fires the timers of wait_for and sleep, and cancels the        *)
(* response of a client that went away.  Nothing is assumed of the token   *)
(* endpoint or of the provider, and nothing makes the client stay or go.   *)
(***************************************************************************)
EventLoop == /\ WF_vars(Read)
             /\ WF_vars(FirstDeltaTimeout)
             /\ WF_vars(NextAttempt)
             /\ WF_vars(ChainClosed)

FairSpec == Spec /\ EventLoop

\* No timer guards the gap between two deltas, so what follows the first
\* delta ends only if the provider sends on, or ends the body.
LiveSpec == FairSpec /\ WF_vars(ProviderSends)
-----------------------------------------------------------------------------
(***************************************************************************)
(* Safety.                                                                 *)
(***************************************************************************)
IsMessage(k) == wire[k].event = "message"

\* The messages are the texts of the payloads consumed in the current
\* attempt: nothing of an abandoned attempt reaches the client, nothing is
\* lost, repeated or reordered on the way (ADR-0028 decision 10: no partial
\* output is sent twice; chat_stream, raw_stream_to_deltas).
RelayIsExact ==
  /\ \A k \in DOMAIN wire : IsMessage(k) =>
       \E i \in 1..pos : /\ CarriesText(log[i])
                         /\ wire[k].text = <<attempt, i>>
  /\ \A i \in 1..pos : CarriesText(log[i]) =>
       \E k \in DOMAIN wire : /\ IsMessage(k)
                              /\ wire[k].text = <<attempt, i>>
  /\ \A j, k \in DOMAIN wire : (j < k /\ IsMessage(j) /\ IsMessage(k)) =>
       wire[j].text[2] < wire[k].text[2]

\* done is sent only for a reply the provider finished with stop and then
\* [DONE], and in which no payload up to [DONE], before or after the stop,
\* was condemned by the content filter (ADR-0028 decision 5: done waits for
\* [DONE]; _convert).
DoneIsEarned ==
  (\E k \in DOMAIN wire : wire[k].event = "done") =>
     /\ pos > 0
     /\ log[pos].kind = "done"
     /\ \E i \in 1..(pos - 1) : /\ log[i].kind = "choice"
                                /\ log[i].finish = "stop"
     /\ \A i \in 1..pos : ~Condemns(log[i])

\* A payload condemned by the content filter ends the reply there and then
\* with the class that makes the client retract what it showed; it is not
\* retried, and not reported as another error (ADR-0028 decision 6;
\* LLMContentFilterError.retryable, error_class_for).
FilterFailsClosed ==
  (\E i \in 1..pos : Condemns(log[i])) =>
     /\ pc = "ended"
     /\ wire[Len(wire)] = Contract!Error("content_filter")

\* At most the current attempt has a request open at the provider, and none
\* has once the attempt, or the whole reply, is over in any way: terminal
\* event, timeout, crash or client gone (the finally blocks and
\* _aclose_quietly; ADR-0028 decision 2).
UpstreamReleased ==
  /\ open \subseteq {attempt}
  /\ pc \notin {"connect", "first", "relay"} => open = {}

\* A reply that fails without a single message for a retryable reason has
\* used every attempt RetryConfig allows (the for loop of chat_stream).
RetryBudgetIsUsed ==
  (/\ pc = "ended"
   /\ Len(wire) = 1
   /\ wire[1].event = "error"
   /\ wire[1].class \in Retryable) => attempt = MaxAttempts

(***************************************************************************)
(* Action property.                                                        *)
(***************************************************************************)

\* A new attempt starts only after a retryable failure, while the client has
\* been sent nothing, and with the previous request closed (ADR-0028
\* decision 10; chat_stream).
RetryBoundary ==
  [][attempt' # attempt => /\ attempt' = attempt + 1
                           /\ wire = <<>>
                           /\ open = {}
                           /\ lastError \in Retryable]_vars

(***************************************************************************)
(* Liveness.                                                               *)
(***************************************************************************)

\* Every reply ends with a terminal event, unless the client goes away
\* (LiveSpec; ADR-0028 decision 2).
ReplyTerminates == <>(pc = "ended" \/ client = "gone")

\* Every step is one that WireContract allows.
RespectsContract == Contract!SafeSpec
=============================================================================
