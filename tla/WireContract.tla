---------------------------- MODULE WireContract ----------------------------
(***************************************************************************)
(* What POST /chat promises on the wire once its SSE body has started      *)
(* (the docstrings of _guard_notice_events and _chat_stream_events), and   *)
(* nothing about how it is produced:                                       *)
(*                                                                         *)
(*    normal reply   message, message, ..., done                           *)
(*    guard reply    notice, done                                          *)
(*    failure        any number of messages, then one error, and no done   *)
(*                                                                         *)
(* A reply always ends, with exactly one terminal event that is its last   *)
(* event, unless the client went away first.                               *)
(***************************************************************************)
EXTENDS Naturals, Sequences

CONSTANTS Texts,        \* the renderable, non-empty texts
          NoContext     \* the fixed text of the guard, NO_CONTEXT_NOTICE

VARIABLES wire,         \* the events sent so far
          reply         \* "open", "terminated", or "dropped"

wireVars == <<wire, reply>>

ErrorClass == {"content_filter", "timeout", "rate_limit", "bad_request",
               "server_error"}

Message(t)  == [event |-> "message", text |-> t]
Notice      == [event |-> "notice", text |-> NoContext]
Done        == [event |-> "done"]
Error(c)    == [event |-> "error", class |-> c]

WireEvent == [event : {"message"}, text : Texts]
               \cup [event : {"notice"}, text : {NoContext}]
               \cup [event : {"done"}]
               \cup [event : {"error"}, class : ErrorClass]

NoticeSent == wire # <<>> /\ wire[1].event = "notice"
-----------------------------------------------------------------------------
Init == /\ wire = <<>>
        /\ reply = "open"

SendMessage == /\ reply = "open"
               /\ ~NoticeSent
               /\ \E t \in Texts : wire' = Append(wire, Message(t))
               /\ UNCHANGED reply

SendNotice == /\ reply = "open"
              /\ wire = <<>>
              /\ wire' = <<Notice>>
              /\ UNCHANGED reply

\* No reply is complete without content: done never opens the stream.
SendDone == /\ reply = "open"
            /\ wire # <<>>
            /\ wire' = Append(wire, Done)
            /\ reply' = "terminated"

SendError == /\ reply = "open"
             /\ ~NoticeSent
             /\ \E c \in ErrorClass : wire' = Append(wire, Error(c))
             /\ reply' = "terminated"

\* The client is gone: nothing more is promised.
Drop == /\ reply = "open"
        /\ reply' = "dropped"
        /\ UNCHANGED wire

Next == SendMessage \/ SendNotice \/ SendDone \/ SendError \/ Drop

SafeSpec == Init /\ [][Next]_wireVars

Spec == SafeSpec /\ <>(reply # "open")
-----------------------------------------------------------------------------
IsTerminal(e) == e.event \in {"done", "error"}

\* A terminal event is sent at most once and nothing follows it, a notice is
\* the whole content of its reply, and a completed reply has content
\* (ADR-0028 decision 2, the docstring of _chat_stream_events).
Grammar ==
  /\ \A k \in DOMAIN wire : IsTerminal(wire[k]) => k = Len(wire)
  /\ \A k \in DOMAIN wire : wire[k].event = "notice" => k = 1
  /\ \A k \in DOMAIN wire : wire[k].event = "done" => k > 1
  /\ NoticeSent => /\ Len(wire) <= 2
                   /\ \A k \in DOMAIN wire : wire[k].event \in {"notice", "done"}
=============================================================================
