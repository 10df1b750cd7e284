---------------------------- MODULE MCChatSession ----------------------------
(* Instances of ChatSession for TLC. *)
EXTENDS ChatSession

Raw == INSTANCE RawStream

\* One payload per outcome that matters beyond the stream itself.
FewArrivals == {Raw!Framing("done"),
                Raw!Choice(FALSE, "none", "text"),
                Raw!Choice(FALSE, "stop", "blank"),
                Raw!Choice(TRUE, "stop", "blank")}

\* For liveness: what a stream takes to end well.
FewestArrivals == {Raw!Framing("done"),
                   Raw!Choice(FALSE, "none", "text"),
                   Raw!Choice(FALSE, "stop", "blank")}
=============================================================================
