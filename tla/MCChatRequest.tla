---------------------------- MODULE MCChatRequest ----------------------------
(* Instances of ChatRequest for TLC. *)
EXTENDS ChatRequest

Raw == INSTANCE RawStream

\* One payload per outcome that matters beyond the stream itself.
FewArrivals == {Raw!Framing("done"),
                Raw!Choice(FALSE, "none", "text"),
                Raw!Choice(FALSE, "stop", "blank"),
                Raw!Choice(TRUE, "none", "text")} \cup [kind : {"eof"}]
=============================================================================
