---------------------------- MODULE MCChatStream ----------------------------
(* Instances of ChatStream for TLC. *)
EXTENDS ChatStream

\* Every way a payload can be converted, and the two payloads whose outcome
\* hangs on the order of the checks: an error field on a text delta and on
\* the chunk that finishes with stop.
Readable == {Framing("done"), Framing("malformed"), Framing("empty"),
             Choice(FALSE, "none", "text"),
             Choice(FALSE, "stop", "blank"),
             Choice(FALSE, "other", "blank"),
             Choice(FALSE, "content_filter", "blank"),
             Choice(TRUE, "none", "text"),
             Choice(TRUE, "stop", "blank")}

BodyEnds == [kind : {"eof", "broken", "http_timeout"}]

AnyArrival == Readable \cup BodyEnds \cup [kind : {"undecodable"}]
LegalArrivals == Readable \cup BodyEnds

\* For liveness, where the outcomes matter and not the payloads.
FewArrivals == {Framing("done"), Choice(FALSE, "none", "text"),
                Choice(FALSE, "stop", "blank"),
                Choice(TRUE, "none", "text")} \cup [kind : {"eof"}]
=============================================================================
