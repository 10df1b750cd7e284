------------------------------ MODULE RawStream ------------------------------
(***************************************************************************)
(* The raw chat-completions stream of the provider and the table that      *)
(* converts it (backend/app/llm/streaming.py).                             *)
(*                                                                         *)
(* A payload is reduced to the four things _convert looks at, in the order *)
(* in which it looks at them: whether it is [DONE], unreadable, or a chunk *)
(* with or without a choice; whether that choice has an error field; its   *)
(* finish_reason; and the shape of its delta.                              *)
(***************************************************************************)

Finish == {"none", "stop", "content_filter", "other"}

\* "text": non-empty string content.  "blank": content missing, null or empty.
\* "annotation": no delta, only content_filter_results without an error.
\* "unknown": any other shape, including a content that is not a string.
Delta == {"text", "blank", "annotation", "unknown"}

\* _convert's view of one payload of the data: lines.
\*   "malformed"  not JSON, not an object, no list of choices, bad choice
\*   "empty"      choices = []
\*   "choice"     choices[0] is an object
Payload == [kind : {"done", "malformed", "empty", "choice"},
            error : BOOLEAN, finish : Finish, delta : Delta]

Choice(error, finish, delta) ==
  [kind |-> "choice", error |-> error, finish |-> finish, delta |-> delta]

Framing(kind) ==
  [kind |-> kind, error |-> FALSE, finish |-> "none", delta |-> "unknown"]

\* What else the bytes of a response can amount to: the end of the body
\* ("eof"), a broken connection, an httpx timeout, or a data line that is
\* not UTF-8, at which SSEStreamParser._process_line raises.
Arrival == Payload
             \cup [kind : {"eof", "broken", "http_timeout", "undecodable"}]

-----------------------------------------------------------------------------
(***************************************************************************)
(* One iteration of _convert: what it does with a payload.  "skip", "text" *)
(* and "stop" go on to the next payload, "return" is the normal end of the *)
(* delta stream, and the others raise.                                     *)
(***************************************************************************)
ConvertDelta(p) ==
  IF p.delta = "text" THEN "text"
  ELSE IF p.delta \in {"blank", "annotation"} THEN "skip"
  ELSE "server_error"

\* Mutant: the stop is looked at before the error field.
ConvertChoiceStopFirst(p) ==
  IF p.finish = "stop" THEN "stop"
  ELSE IF p.error \/ p.finish = "content_filter" THEN "content_filter"
  ELSE IF p.finish = "other" THEN "server_error"
  ELSE ConvertDelta(p)

ConvertChoice(p) ==
  IF p.error \/ p.finish = "content_filter" THEN "content_filter"
  ELSE IF p.finish = "stop" THEN "stop"
  ELSE IF p.finish = "other" THEN "server_error"
  ELSE ConvertDelta(p)

\* Mutant: [DONE] ends the stream whether or not a stop was seen.
ConvertTrustsDone(p, stopSeen) ==
  IF p.kind = "choice" THEN ConvertChoice(p)
  ELSE IF p.kind = "empty" THEN "skip"
  ELSE IF p.kind = "done" THEN "return"
  ELSE IF p.kind = "http_timeout" THEN "timeout"
  ELSE IF p.kind = "undecodable" THEN "crash"
  ELSE "server_error"

\* Mutant: the end of the body before [DONE] goes unnoticed.
ConvertIgnoresEof(p, stopSeen) ==
  IF p.kind = "choice" THEN ConvertChoice(p)
  ELSE IF p.kind \in {"empty", "eof"} THEN "skip"
  ELSE IF p.kind = "done" /\ stopSeen THEN "return"
  ELSE IF p.kind = "http_timeout" THEN "timeout"
  ELSE IF p.kind = "undecodable" THEN "crash"
  ELSE "server_error"

\* [DONE] without a stop, unreadable payloads, the end of the body before
\* [DONE], and a connection lost on the way all end as LLMServerError.
Convert(p, stopSeen) ==
  IF p.kind = "choice" THEN ConvertChoice(p)
  ELSE IF p.kind = "empty" THEN "skip"
  ELSE IF p.kind = "done" /\ stopSeen THEN "return"
  ELSE IF p.kind = "http_timeout" THEN "timeout"
  ELSE IF p.kind = "undecodable" THEN "crash"
  ELSE "server_error"

\* The payload becomes a message of the reply.
CarriesText(p) == p.kind = "choice" /\ ConvertChoice(p) = "text"

\* The provider says that the reply did not pass its content filter.
Condemns(p) == p.kind = "choice" /\ (p.error \/ p.finish = "content_filter")
=============================================================================
