----------------------------- MODULE MCChatClient -----------------------------
(* ChatClient against an arbitrary server, for TLC. *)
EXTENDS ChatClient

\* Two texts, so that an order can be wrong, and every kind of event.
AnyItem == [event : {"message"}, text : {"a", "b"}]
             \cup [event : {"notice"}, text : {"n"}]
             \cup [event : {"error"}, class : {"content_filter", "server_error"}]
             \cup [event : {"empty", "done", "illegal", "unreadable"}]
=============================================================================
