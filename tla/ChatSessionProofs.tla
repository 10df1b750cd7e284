-------------------------- MODULE ChatSessionProofs --------------------------
(***************************************************************************)
(* Proofs about ChatSession, for every value of its constants.  Backend    *)
(* and browser were proved by themselves; the session is shown to be a     *)
(* behaviour of each of them, and what ties the one to the other is what   *)
(* the connection does to the body between them.                           *)
(***************************************************************************)
EXTENDS ChatSession, SequenceTheorems, TLAPS

Handler == INSTANCE ChatRequestProofs

Client == INSTANCE ChatClientProofs
            WITH inbox <- SubSeq(wire, 1, arrived),
                 Items <- Events, MaxItems <- MaxArrivals + 2

-----------------------------------------------------------------------------
(* The backend seen from ChatRequestProofs. *)

\* The backend is a handler with the parameters of the session.
LEMMA HandlerAssumption == Handler!BodyAssumption
BY SessionAssumption
  DEF Backend!Stream!Arrival, Handler!Stream!Arrival, Backend!Stream!Payload,
      Handler!Stream!Payload, Backend!Stream!Finish, Handler!Stream!Finish,
      Backend!Stream!Delta, Handler!Stream!Delta

\* The two instances of ChatRequest begin alike, ...
LEMMA SameInit == Backend!Init => Handler!Init
BY DEF Backend!Init, Handler!Init, Backend!Request, Handler!Request,
   Backend!Stream!Init, Handler!Stream!Init

\* ... have the same types, ...
LEMMA SameTypes == Handler!TypeOK => Backend!TypeOK
BY DEF Backend!TypeOK, Handler!TypeOK, Backend!Request, Handler!Request,
   Backend!Stage, Handler!Stage, Backend!EmbedFailure,
   Handler!EmbedFailure, Backend!Statuses, Handler!Statuses,
   Backend!Stream!TypeOK, Handler!Stream!TypeOK, Backend!Stream!Control,
   Handler!Stream!Control, Backend!Stream!Attempts,
   Handler!Stream!Attempts, Backend!Stream!Arrival,
   Handler!Stream!Arrival, Backend!Stream!Payload, Handler!Stream!Payload,
   Backend!Stream!Finish, Handler!Stream!Finish, Backend!Stream!Delta,
   Handler!Stream!Delta, Backend!Stream!ErrorClass,
   Handler!Stream!ErrorClass, Backend!Stream!Contract!ErrorClass,
   Handler!Stream!Contract!ErrorClass, Backend!Stream!Contract!WireEvent,
   Handler!Stream!Contract!WireEvent, Backend!Stream!Texts,
   Handler!Stream!Texts, Backend!Stream!NoContext,
   Handler!Stream!NoContext

\* ... let the same requests in, ...
LEMMA SameGate == Backend!Gate => Handler!Gate
BY DEF Backend!Gate, Handler!Gate, Backend!Answer, Handler!Answer,
   Backend!bodyVars, Handler!bodyVars

\* ... embed the question alike, ...
LEMMA SameEmbed == Backend!Embed => Handler!Embed
<1>1. \A e : Backend!EmbedAttemptFails(e) => Handler!EmbedAttemptFails(e)
  BY DEF Backend!EmbedAttemptFails, Handler!EmbedAttemptFails,
      Backend!Stream!Retryable, Handler!Stream!Retryable, Backend!Answer,
      Handler!Answer, Backend!bodyVars, Handler!bodyVars
<1>2. \/ Backend!EmbedReturns \/ Backend!EmbedWrongDimension
      \/ Backend!EmbedTokenFails \/ Backend!EmbedNextAttempt
      => Handler!Embed
  BY DEF Backend!EmbedReturns, Handler!EmbedReturns, Backend!bodyVars,
      Handler!bodyVars, Backend!EmbedWrongDimension,
      Handler!EmbedWrongDimension, Backend!Answer, Handler!Answer,
      Backend!EmbedTokenFails, Handler!EmbedTokenFails,
      Backend!EmbedNextAttempt, Handler!EmbedNextAttempt, Handler!Embed
<1>3. Backend!EmbedFails => Handler!Embed
  BY <1>1
  DEF Backend!EmbedFails, Handler!EmbedFails, Backend!EmbedFailure, Handler!EmbedFailure,
      Handler!Embed
<1>4. Backend!EmbedTimesOut => Handler!Embed
  BY <1>1
  DEF Backend!EmbedTimesOut, Handler!EmbedTimesOut, Handler!Embed
<1>. QED  BY <1>2, <1>3, <1>4 DEF Backend!Embed

\* ... search and read the records alike, ...
LEMMA SameDatabase == Backend!Database => Handler!Database
BY DEF Backend!Database, Handler!Database, Backend!SearchFails,
   Handler!SearchFails, Backend!Answer, Handler!Answer, Backend!bodyVars,
   Handler!bodyVars, Backend!SearchReturns, Handler!SearchReturns,
   Backend!PropertiesFail, Handler!PropertiesFail,
   Backend!PropertiesReturn, Handler!PropertiesReturn

\* ... answer for the guard alike, ...
LEMMA SameNotice == Backend!Notice => Handler!Notice
BY DEF Backend!Notice, Handler!Notice, Backend!SendNotice, Handler!SendNotice,
   Backend!Stream!Contract!Notice, Handler!Stream!Contract!Notice,
   Backend!SendNoticeDone, Handler!SendNoticeDone,
   Backend!Stream!Contract!Done, Handler!Stream!Contract!Done,
   Backend!NoticeClosed, Handler!NoticeClosed, Backend!bodyVars,
   Handler!bodyVars, Backend!Stream!NoContext, Handler!Stream!NoContext

\* ... and send the same body.
LEMMA SameBody == Backend!StreamBody => Handler!StreamBody
<1>1. Backend!Stream!TokenReady => Handler!Stream!TokenReady
  BY DEF Backend!Stream!TokenReady, Handler!Stream!TokenReady
<1>2. Backend!Stream!TokenFails => Handler!Stream!TokenFails
  BY DEF Backend!Stream!TokenFails, Handler!Stream!TokenFails,
      Backend!Stream!Crash, Handler!Stream!Crash,
      Backend!Stream!CloseUpstream, Handler!Stream!CloseUpstream
<1>3. Backend!Stream!ResponseAccepted => Handler!Stream!ResponseAccepted
  BY DEF Backend!Stream!ResponseAccepted, Handler!Stream!ResponseAccepted
<1>4. Backend!Stream!ResponseRefused => Handler!Stream!ResponseRefused
  BY DEF Backend!Stream!ResponseRefused, Handler!Stream!ResponseRefused,
      Backend!Stream!AttemptFails, Handler!Stream!AttemptFails,
      Backend!Stream!CloseUpstream, Handler!Stream!CloseUpstream,
      Backend!Stream!Retryable, Handler!Stream!Retryable,
      Backend!Stream!SendTerminal, Handler!Stream!SendTerminal,
      Backend!Stream!Contract!Error, Handler!Stream!Contract!Error
<1>5. Backend!Stream!FirstDeltaTimeout => Handler!Stream!FirstDeltaTimeout
  BY DEF Backend!Stream!FirstDeltaTimeout, Handler!Stream!FirstDeltaTimeout,
      Backend!Stream!Connecting, Handler!Stream!Connecting,
      Backend!Stream!AttemptFails, Handler!Stream!AttemptFails,
      Backend!Stream!CloseUpstream, Handler!Stream!CloseUpstream,
      Backend!Stream!Retryable, Handler!Stream!Retryable,
      Backend!Stream!SendTerminal, Handler!Stream!SendTerminal,
      Backend!Stream!Contract!Error, Handler!Stream!Contract!Error
<1>6. Backend!Stream!NextAttempt => Handler!Stream!NextAttempt
  BY DEF Backend!Stream!NextAttempt, Handler!Stream!NextAttempt
<1>7. Backend!Stream!ReadSkipped => Handler!Stream!ReadSkipped
  BY DEF Backend!Stream!ReadSkipped, Handler!Stream!ReadSkipped,
      Backend!Stream!Converts, Handler!Stream!Converts,
      Backend!Stream!Reading, Handler!Stream!Reading, Backend!Stream!Convert,
      Handler!Stream!Convert, Backend!Stream!ConvertChoice,
      Handler!Stream!ConvertChoice, Backend!Stream!ConvertDelta,
      Handler!Stream!ConvertDelta
<1>8. Backend!Stream!ReadStop => Handler!Stream!ReadStop
  BY DEF Backend!Stream!ReadStop, Handler!Stream!ReadStop,
      Backend!Stream!Converts, Handler!Stream!Converts,
      Backend!Stream!Reading, Handler!Stream!Reading, Backend!Stream!Convert,
      Handler!Stream!Convert, Backend!Stream!ConvertChoice,
      Handler!Stream!ConvertChoice, Backend!Stream!ConvertDelta,
      Handler!Stream!ConvertDelta
<1>9. Backend!Stream!ReadText => Handler!Stream!ReadText
  BY DEF Backend!Stream!ReadText, Handler!Stream!ReadText,
      Backend!Stream!Converts, Handler!Stream!Converts,
      Backend!Stream!Reading, Handler!Stream!Reading, Backend!Stream!Convert,
      Handler!Stream!Convert, Backend!Stream!ConvertChoice,
      Handler!Stream!ConvertChoice, Backend!Stream!ConvertDelta,
      Handler!Stream!ConvertDelta, Backend!Stream!Contract!Message,
      Handler!Stream!Contract!Message
<1>10. Backend!Stream!ReadDone => Handler!Stream!ReadDone
  BY DEF Backend!Stream!ReadDone, Handler!Stream!ReadDone,
      Backend!Stream!Converts, Handler!Stream!Converts,
      Backend!Stream!Reading, Handler!Stream!Reading, Backend!Stream!Convert,
      Handler!Stream!Convert, Backend!Stream!ConvertChoice,
      Handler!Stream!ConvertChoice, Backend!Stream!ConvertDelta,
      Handler!Stream!ConvertDelta, Backend!Stream!AttemptFails,
      Handler!Stream!AttemptFails, Backend!Stream!CloseUpstream,
      Handler!Stream!CloseUpstream, Backend!Stream!Retryable,
      Handler!Stream!Retryable, Backend!Stream!SendTerminal,
      Handler!Stream!SendTerminal, Backend!Stream!Contract!Error,
      Handler!Stream!Contract!Error, Backend!Stream!Contract!Done,
      Handler!Stream!Contract!Done
<1>11. Backend!Stream!ReadError => Handler!Stream!ReadError
  BY DEF Backend!Stream!ReadError, Handler!Stream!ReadError,
      Backend!Stream!Converts, Handler!Stream!Converts,
      Backend!Stream!Reading, Handler!Stream!Reading, Backend!Stream!Convert,
      Handler!Stream!Convert, Backend!Stream!ConvertChoice,
      Handler!Stream!ConvertChoice, Backend!Stream!ConvertDelta,
      Handler!Stream!ConvertDelta, Backend!Stream!AttemptFails,
      Handler!Stream!AttemptFails, Backend!Stream!CloseUpstream,
      Handler!Stream!CloseUpstream, Backend!Stream!Retryable,
      Handler!Stream!Retryable, Backend!Stream!SendTerminal,
      Handler!Stream!SendTerminal, Backend!Stream!Contract!Error,
      Handler!Stream!Contract!Error, Backend!Stream!RelayFails,
      Handler!Stream!RelayFails
<1>12. Backend!Stream!ReadUndecodable => Handler!Stream!ReadUndecodable
  BY DEF Backend!Stream!ReadUndecodable, Handler!Stream!ReadUndecodable,
      Backend!Stream!Reading, Handler!Stream!Reading, Backend!Stream!Convert,
      Handler!Stream!Convert, Backend!Stream!ConvertChoice,
      Handler!Stream!ConvertChoice, Backend!Stream!ConvertDelta,
      Handler!Stream!ConvertDelta, Backend!Stream!Crash,
      Handler!Stream!Crash, Backend!Stream!CloseUpstream,
      Handler!Stream!CloseUpstream
<1>13. Backend!Stream!ProviderSends => Handler!Stream!ProviderSends
  BY DEF Backend!Stream!ProviderSends, Handler!Stream!ProviderSends,
      Backend!Stream!Reading, Handler!Stream!Reading,
      Backend!Stream!BodyEnded, Handler!Stream!BodyEnded,
      Backend!Stream!EndOfBody, Handler!Stream!EndOfBody
<1>14. Backend!Stream!ChainClosed => Handler!Stream!ChainClosed
  BY DEF Backend!Stream!ChainClosed, Handler!Stream!ChainClosed,
      Backend!Stream!Over, Handler!Stream!Over, Backend!Stream!CloseUpstream,
      Handler!Stream!CloseUpstream
<1>. QED
  BY <1>1, <1>2, <1>3, <1>4, <1>5, <1>6, <1>7, <1>8, <1>9, <1>10, <1>11, <1>12, <1>13, <1>14
  DEF Backend!StreamBody, Handler!StreamBody, Backend!Stream!Read, Handler!Stream!Read, Backend!handlerVars, Handler!handlerVars

\* A client leaves both alike.
LEMMA SameLeaving == Backend!ClientLeaves => Handler!ClientLeaves
BY DEF Backend!ClientLeaves, Handler!ClientLeaves, Backend!Stream!Disconnect,
   Handler!Stream!Disconnect, Backend!handlerVars, Handler!handlerVars

-----------------------------------------------------------------------------
(* The browser seen from ChatClientProofs. *)

\* A turn begins alike, ...
LEMMA SameTurn == Browser!Init => Client!Init
BY DEF Browser!Init, Client!Init, Browser!ClientInit, Client!ClientInit,
    Browser!Shown, Client!Shown, Browser!ServerInit, Client!ServerInit

\* ... has the same types, ...
LEMMA SameTurnTypes == Client!TypeOK => Browser!TypeOK
BY DEF Browser!TypeOK, Client!TypeOK, Browser!Outcome, Client!Outcome

\* ... and goes on alike.
LEMMA SameTurnStep == [Browser!Next]_(Browser!vars) => [Client!Next]_(Client!vars)
<1>1. Browser!FetchRefused => Client!FetchRefused
  BY DEF Browser!FetchRefused, Client!FetchRefused, Browser!Abandon,
      Client!Abandon
<1>2. Browser!FetchResponds => Client!FetchResponds
  BY DEF Browser!FetchResponds, Client!FetchResponds
<1>3. Browser!ConnectionLost => Client!ConnectionLost
  BY DEF Browser!ConnectionLost, Client!ConnectionLost, Browser!Abandon,
      Client!Abandon
<1>4. Browser!UserStops => Client!UserStops
  BY DEF Browser!UserStops, Client!UserStops, Browser!Abandon, Client!Abandon
<1>5. Browser!Settle => Client!Settle
  BY DEF Browser!Settle, Client!Settle
<1>6. Browser!HandleContent => Client!HandleContent
  BY DEF Browser!HandleContent, Client!HandleContent, Browser!Handles,
      Client!Handles, Browser!Next1, Client!Next1, Browser!Shown,
      Client!Shown
<1>7. Browser!HandleEmpty => Client!HandleEmpty
  BY DEF Browser!HandleEmpty, Client!HandleEmpty, Browser!Handles,
      Client!Handles, Browser!Next1, Client!Next1
<1>8. Browser!HandleDone => Client!HandleDone
  BY DEF Browser!HandleDone, Client!HandleDone, Browser!Handles, Client!Handles,
      Browser!Next1, Client!Next1, Browser!Conclude, Client!Conclude,
      Browser!DisplayText, Client!DisplayText, Browser!Shown, Client!Shown
<1>9. Browser!HandleError => Client!HandleError
  BY DEF Browser!HandleError, Client!HandleError, Browser!Handles,
      Client!Handles, Browser!Next1, Client!Next1, Browser!Conclude,
      Client!Conclude, Browser!DisplayText, Client!DisplayText,
      Browser!Shown, Client!Shown
<1>10. Browser!HandleIllegal => Client!HandleIllegal
  BY DEF Browser!HandleIllegal, Client!HandleIllegal, Browser!Handles,
      Client!Handles, Browser!Next1, Client!Next1, Browser!Conclude,
      Client!Conclude, Browser!DisplayText, Client!DisplayText,
      Browser!Shown, Client!Shown
<1>11. Browser!ParserFails => Client!ParserFails
  BY DEF Browser!ParserFails, Client!ParserFails, Browser!Next1, Client!Next1
<1>12. Browser!FatalSurfaces => Client!FatalSurfaces
  BY DEF Browser!FatalSurfaces, Client!FatalSurfaces, Browser!Conclude,
      Client!Conclude, Browser!DisplayText, Client!DisplayText,
      Browser!Shown, Client!Shown
<1>13. Browser!BodyEnds => Client!BodyEnds
  BY DEF Browser!BodyEnds, Client!BodyEnds, Browser!DisplayText,
      Client!DisplayText, Browser!Shown, Client!Shown
<1>14. Browser!Server => Client!Server
  BY DEF Browser!Server, Client!Server, Browser!Respond, Client!Respond,
      Browser!clientVars, Client!clientVars, Browser!Deliver, Client!Deliver,
      Browser!CloseBody, Client!CloseBody
<1>15. UNCHANGED Browser!serverVars => UNCHANGED Client!serverVars
  BY DEF Browser!serverVars, Client!serverVars
<1>16. UNCHANGED Browser!vars => UNCHANGED Client!vars
  BY DEF Browser!vars, Client!vars, Browser!serverVars, Client!serverVars,
      Browser!clientVars, Client!clientVars
<1>. QED
  BY <1>1, <1>2, <1>3, <1>4, <1>5, <1>6, <1>7, <1>8,
     <1>9, <1>10, <1>11, <1>12, <1>13, <1>14, <1>15, <1>16
  DEF Browser!Next, Client!Next, Browser!ClientStep, Client!ClientStep,
      Browser!Handle, Client!Handle

-----------------------------------------------------------------------------
(* The session is a behaviour of the backend. *)

\* Only the backend's own steps, and the abort, touch the backend.
LEMMA NextIsHandlers == [Next]_vars => [Handler!Next]_(Handler!vars)
<1>. SUFFICES ASSUME [Next]_vars, ~UNCHANGED backendVars
              PROVE  Handler!Next
  BY DEF backendVars, Handler!vars, Handler!handlerVars, Handler!bodyVars
<1>1. AbortPropagates \/ BackendWorks
  BY DEF Next, vars, Bff, BffRejects, BffForwards, BffUnreachable, BffAnswers,
         Deliver, DeliverEnd, ConnectionBreaks, BackendCutsOff, Break,
         BrowserRuns, UserStops
<1>. QED
  BY <1>1, SameGate, SameEmbed, SameDatabase, SameNotice, SameBody, SameLeaving
  DEF AbortPropagates, BackendWorks, BackendRuns, Handler!Next

\* What was proved of the backend holds in the session.
LEMMA BackendHolds ==
  Spec => [](/\ Handler!IInv /\ Handler!TypeOK
             /\ Handler!Contract!Grammar /\ Handler!NoticeHasReason)
<1>1. Init => Handler!Init
  BY SameInit DEF Init
<1>2. Spec => Handler!Spec
  BY <1>1, NextIsHandlers, PTL DEF Spec, Handler!Spec
<1>3. Handler!Spec => []Handler!IInv
  BY HandlerAssumption, Handler!Inductive
<1>4. Handler!Spec => []Handler!TypeOK
  BY HandlerAssumption, Handler!TypeCorrect
<1>5. Handler!Spec => []Handler!Contract!Grammar
  BY HandlerAssumption, Handler!RepliesAreGrammatical
<1>6. Handler!Spec => []Handler!NoticeHasReason
  BY HandlerAssumption, Handler!NoticesHaveReasons
<1>. QED  BY <1>2, <1>3, <1>4, <1>5, <1>6, PTL

\* The backend only adds to its body, one event at a time, and nothing after
\* the terminal event.
LEMMA BodyGrows ==
  ASSUME Handler!IInv, [Next]_vars
  PROVE  \/ UNCHANGED <<wire, Handler!Reply>>
         \/ /\ Handler!Reply = "open"
            /\ wire' = wire \/ \E e : wire' = Append(wire, e)
<1>1. [Handler!Contract!Next]_(Handler!Contract!wireVars)
  BY NextIsHandlers, HandlerAssumption, Handler!ContractStep
<1>. QED
  BY <1>1
  DEF Handler!Contract!wireVars, Handler!Contract!Next,
      Handler!Contract!SendMessage, Handler!Contract!SendNotice,
      Handler!Contract!SendDone, Handler!Contract!SendError,
      Handler!Contract!Drop

\* Numbers that rise leave no number of places behind.
LEMMA RisingNumbers ==
  ASSUME NEW m \in Nat, NEW t \in [1..m -> Nat \ {0}],
         \A j, k \in 1..m : j < k => t[j] < t[k]
  PROVE  \A k \in 1..m : t[k] >= k
<1>. DEFINE T == {k \in 1..m : ~(t[k] >= k)}
<1>. SUFFICES ASSUME T # {}  PROVE FALSE
  OBVIOUS
<1>1. T \subseteq Nat
  OBVIOUS
<1>2. PICK k \in T : \A j \in T : k <= j
  <2>. HIDE DEF T
  <2>. QED  BY <1>1, Client!LeastNumber
<1>3. k # 1
  OBVIOUS
<1>4. k - 1 \in 1..m /\ k - 1 \notin T
  BY <1>2, <1>3
<1>5. t[k - 1] >= k - 1 /\ t[k - 1] < t[k] /\ t[k] \in Nat /\ t[k - 1] \in Nat
  BY <1>4
<1>. QED  BY <1>2, <1>5

\* The body stays within the bound of arrivals and the two events around it.
LEMMA BodyIsShort ==
  ASSUME Handler!IInv, Handler!TypeOK
  PROVE  wire \in Seq(Events) /\ Len(wire) <= MaxArrivals + 2
<1>1. wire \in Seq(Events)
  BY SameTypes
  DEF Backend!TypeOK, Backend!Stream!TypeOK, Events, Backend!Contract!WireEvent,
      Backend!Stream!Contract!WireEvent, Backend!Contract!ErrorClass,
      Backend!Stream!Contract!ErrorClass
<1>2. CASE stage = "stream"
  <2>. DEFINE n == Len(wire)
              t == [k \in 1..(n - 1) |-> wire[k].text[2]]
  <2>1. Handler!Body!IInv
    BY <1>2 DEF Handler!IInv, Handler!Sent
  <2>2. n \in Nat /\ DOMAIN wire = 1..n
    BY <1>1
  <2>3. ASSUME NEW k \in 1..(n - 1)  PROVE wire[k].event = "message"
    BY <2>1, <2>2
    DEF Handler!Body!IInv, Handler!Body!MessagesFirst, Handler!Body!IsMessage
  <2>4. pos \in Nat /\ pos <= MaxArrivals + 1
    BY <2>1, SessionAssumption
    DEF Handler!Body!IInv, Handler!Body!Typing, Handler!Body!TypeOK
  <2>5. ASSUME NEW k \in 1..(n - 1)  PROVE t[k] \in 1..pos
    BY <2>1, <2>2, <2>3
    DEF Handler!Body!IInv, Handler!Body!RelayIsExact, Handler!Body!IsMessage
  <2>6. ASSUME NEW j \in 1..(n - 1), NEW k \in 1..(n - 1), j < k
        PROVE  t[j] < t[k]
    <3>1. Handler!Body!RelayIsExact
      BY <2>1 DEF Handler!Body!IInv
    <3>2. /\ j \in DOMAIN wire /\ k \in DOMAIN wire
          /\ wire[j].event = "message" /\ wire[k].event = "message"
      BY <2>2, <2>3
    <3>3. wire[j].text[2] < wire[k].text[2]
      BY <2>6, <3>1, <3>2 DEF Handler!Body!RelayIsExact, Handler!Body!IsMessage
    <3>. QED  BY <3>3
  <2>7. CASE n <= 1
    BY <1>1, <2>2, <2>7, SessionAssumption
  <2>8. CASE n > 1
    <3>. DEFINE m == n - 1
    <3>1. m \in Nat /\ m \in 1..m
      BY <2>2, <2>8
    <3>2. t \in [1..m -> Nat \ {0}]
      BY <2>4, <2>5
    <3>3. \A j, k \in 1..m : j < k => t[j] < t[k]
      BY <2>6
    <3>4. t[m] >= m
      <4>. HIDE DEF m, t
      <4>. QED  BY <3>1, <3>2, <3>3, RisingNumbers
    <3>5. t[m] <= pos /\ t[m] \in Nat
      BY <2>4, <2>5, <3>1
    <3>6. m <= pos
      <4>. HIDE DEF m, t
      <4>. QED  BY <2>4, <3>1, <3>4, <3>5
    <3>. QED  BY <1>1, <2>2, <2>4, <3>6, SessionAssumption
  <2>. QED  BY <1>1, <2>2, <2>7, <2>8
<1>3. CASE stage # "stream"
  <2>1. wire \in {<<>>, Handler!TheNotice, Handler!TheWholeNotice}
    BY <1>3 DEF Handler!IInv, Handler!Sent
  <2>2. Len(wire) <= 2
    <3>1. Len(Handler!TheNotice) = 1
      BY DEF Handler!TheNotice
    <3>2. Len(Handler!TheWholeNotice) = 2
      BY DEF Handler!TheWholeNotice
    <3>3. Len(wire) \in {0, 1, 2}
      BY <2>1, <3>1, <3>2
    <3>4. \A n \in {0, 1, 2} : n <= 2
      OBVIOUS
    <3>. QED  BY <3>3, <3>4
  <2>. QED  BY <1>1, <2>2, SessionAssumption
<1>. QED  BY <1>2, <1>3
-----------------------------------------------------------------------------
(* The channel between the two. *)

\* What the connection has carried is the beginning of the body, and all of
\* it when its end was seen, which the backend had sent by then.
Channel == /\ arrived \in 0..Len(wire)
           /\ body = "ended" => arrived = Len(wire) /\ Handler!Reply = "terminated"

Parts == /\ principal \in BOOLEAN
         /\ bff \in {"received", "forwarded", "answered", "turned_away"}
         /\ body \in {"pending", "refused", "open", "ended", "broken"}

\* Reply reads the same state in both instances.
LEMMA SameReply == Handler!Reply = Backend!Reply
BY DEF Handler!Reply, Backend!Reply, Handler!Stream!Contract!IsTerminal,
       Backend!Stream!Contract!IsTerminal

\* The channel keeps its order: events arrive after they were sent, and the
\* end after all of them.
LEMMA ChannelStep ==
  ASSUME Channel, Parts, Handler!IInv, Handler!TypeOK, [Next]_vars
  PROVE  Channel' /\ Parts'
<1>0. wire \in Seq(Events)
  BY BodyIsShort
<1>1. CASE UNCHANGED <<arrived, body>>
  <2>1. Len(wire') \in Nat /\ Len(wire') >= Len(wire)
    BY <1>0, BodyGrows
  <2>2. body = "ended" => UNCHANGED <<wire, Handler!Reply>>
    BY BodyGrows DEF Channel
  <2>3. Channel'
    BY <1>0, <1>1, <2>1, <2>2 DEF Channel
  <2>4. Parts'
    BY <1>1
    DEF Parts, Next, vars, network, Bff, BffRejects, BffForwards, BffUnreachable,
        BffAnswers, Deliver, DeliverEnd, ConnectionBreaks, BackendCutsOff, Break,
        AbortPropagates, BackendWorks, BackendRuns, BrowserRuns, UserStops
  <2>. QED  BY <2>3, <2>4
<1>2. CASE ~UNCHANGED <<arrived, body>>
  <2>1. Bff \/ Deliver \/ DeliverEnd \/ ConnectionBreaks \/ BackendCutsOff
    BY <1>2
    DEF Next, vars, network, AbortPropagates, BackendWorks, BackendRuns,
        BrowserRuns, UserStops
  <2>2. UNCHANGED wire /\ Handler!Reply' = Handler!Reply
    BY <2>1
    DEF Bff, BffRejects, BffForwards, BffUnreachable, BffAnswers, Deliver,
        DeliverEnd, ConnectionBreaks, BackendCutsOff, Break, backendVars,
        Handler!Reply
  <2>3. Channel'
    BY <1>0, <2>1, <2>2, SameReply
    DEF Channel, Bff, BffRejects, BffForwards, BffUnreachable, BffAnswers,
        Deliver, DeliverEnd, ConnectionBreaks, BackendCutsOff, Break
  <2>4. Parts'
    BY <2>1
    DEF Parts, Bff, BffRejects, BffForwards, BffUnreachable, BffAnswers,
        Deliver, DeliverEnd, ConnectionBreaks, BackendCutsOff, Break
  <2>. QED  BY <2>3, <2>4
<1>. QED  BY <1>1, <1>2

\* The channel holds of every session.
LEMMA ChannelHolds == Spec => [](Channel /\ Parts)
<1>1. Init => Channel /\ Parts
  BY DEF Init, Channel, Parts, Backend!Init, Backend!Stream!Init
<1>2. Channel /\ Parts /\ Handler!IInv /\ Handler!TypeOK /\ [Next]_vars =>
        (Channel /\ Parts)'
  BY ChannelStep
<1>. QED  BY <1>1, <1>2, BackendHolds, PTL DEF Spec
-----------------------------------------------------------------------------
(* The session is a behaviour of the browser with a server. *)

\* One more element of a sequence.
LEMMA OneMore ==
  ASSUME NEW S, NEW s \in Seq(S), NEW n \in Nat, n < Len(s)
  PROVE  SubSeq(s, 1, n + 1) = Append(SubSeq(s, 1, n), s[n + 1])
<1>1. n + 1 \in 1..Len(s) /\ 1 \in 1..Len(s) /\ n + 1 \in 1..Len(s)
  OBVIOUS
<1>2. SubSeq(s, 1, n + 1) = SubSeq(s, 1, (n + 1) - 1) \o <<s[n + 1]>>
  BY <1>1, SubSeqRecursiveSecond
<1>3. (n + 1) - 1 = n /\ \A i \in 1..n : s[i] \in S
  OBVIOUS
<1>4. SubSeq(s, 1, n) \in Seq(S)
  BY <1>3, SubSeqProperties
<1>5. \A t \in Seq(S) : \A e \in S : Append(t, e) = t \o <<e>>
  BY AppendIsConcat
<1>. QED  BY <1>1, <1>2, <1>3, <1>4, <1>5

\* What is appended does not change the beginning.
LEMMA BeginningStays ==
  ASSUME NEW S, NEW s \in Seq(S), NEW e, NEW n \in 0..Len(s)
  PROVE  SubSeq(Append(s, e), 1, n) = SubSeq(s, 1, n)
<1>. DEFINE T == S \cup {e}
<1>1. s \in Seq(T) /\ Append(s, e) \in Seq(T) /\ n \in 0..Len(Append(s, e))
  OBVIOUS
<1>2. \A i \in 1..n : Append(s, e)[i] = s[i] /\ s[i] \in T
  OBVIOUS
<1>. HIDE DEF T
<1>3. /\ SubSeq(s, 1, n) \in Seq(T) /\ SubSeq(Append(s, e), 1, n) \in Seq(T)
      /\ Len(SubSeq(s, 1, n)) = n /\ Len(SubSeq(Append(s, e), 1, n)) = n
      /\ \A i \in 1..n : SubSeq(s, 1, n)[i] = s[i]
      /\ \A i \in 1..n : SubSeq(Append(s, e), 1, n)[i] = Append(s, e)[i]
  <2>1. n \in Int /\ 1 \in Int /\ (n - 1) + 1 = n
    BY <1>1
  <2>2. \A t \in Seq(T) : (\A i \in 1..n : t[i] \in T) =>
          /\ SubSeq(t, 1, n) \in Seq(T) /\ Len(SubSeq(t, 1, n)) = n
          /\ \A i \in 1..n : SubSeq(t, 1, n)[i] = t[i]
    <3>. SUFFICES ASSUME NEW t \in Seq(T), \A i \in 1..n : t[i] \in T
                  PROVE  /\ SubSeq(t, 1, n) \in Seq(T) /\ Len(SubSeq(t, 1, n)) = n
                         /\ \A i \in 1..n : SubSeq(t, 1, n)[i] = t[i]
      OBVIOUS
    <3>. QED  BY <2>1, SubSeqProperties
  <2>. QED  BY <1>1, <1>2, <2>2
<1>. QED  BY <1>2, <1>3, SeqEqual

Inbox == SubSeq(wire, 1, arrived)

\* The inbox of the browser changes with arrivals only.
LEMMA InboxStep ==
  ASSUME Channel, Handler!IInv, Handler!TypeOK, [Next]_vars
  PROVE  /\ arrived' = arrived => Inbox' = Inbox
         /\ arrived' = arrived + 1 /\ arrived < Len(wire) /\ wire' = wire =>
              \E e \in Events : Inbox' = Append(Inbox, e)
         /\ Len(Inbox) = arrived /\ arrived <= MaxArrivals + 2
<1>1. /\ wire \in Seq(Events) /\ Len(wire) <= MaxArrivals + 2
      /\ arrived \in 0..Len(wire) /\ arrived \in Nat /\ Len(wire) \in Nat
  BY BodyIsShort DEF Channel
<1>2. ASSUME arrived' = arrived  PROVE Inbox' = Inbox
  <2>1. CASE wire' = wire
    BY <1>2, <2>1 DEF Inbox
  <2>2. CASE \E e : wire' = Append(wire, e)
    BY <1>1, <1>2, <2>2, BeginningStays DEF Inbox
  <2>. QED  BY <2>1, <2>2, BodyGrows
<1>3. ASSUME arrived' = arrived + 1, arrived < Len(wire), wire' = wire
      PROVE  \E e \in Events : Inbox' = Append(Inbox, e)
  <2>1. wire[arrived + 1] \in Events
    BY <1>1, <1>3
  <2>2. SubSeq(wire, 1, arrived + 1) = Append(SubSeq(wire, 1, arrived), wire[arrived + 1])
    BY <1>1, <1>3, OneMore
  <2>. QED  BY <1>3, <2>1, <2>2 DEF Inbox
<1>4. Len(Inbox) = arrived
  BY <1>1 DEF Inbox
<1>5. arrived <= MaxArrivals + 2
  BY <1>1, SessionAssumption
<1>. QED  BY <1>2, <1>3, <1>4, <1>5

\* Every step of the session is one of the turn, one of the server, or none
\* that the browser notices.
LEMMA StepIsServers ==
  ASSUME Channel, Parts, Handler!IInv, Handler!TypeOK, [Next]_vars
  PROVE  [Browser!Next]_(Browser!vars)
<1>. USE DEF Browser!vars, Browser!serverVars
<1>1. CASE UNCHANGED <<arrived, body, browserVars>>
  BY <1>1, InboxStep DEF browserVars, Browser!clientVars, Inbox
<1>2. CASE BrowserRuns \/ UserStops
  BY <1>2 DEF BrowserRuns, UserStops, Browser!Next, network, backendVars
<1>3. CASE Deliver
  <2>1. /\ body = "open" /\ body' = body /\ UNCHANGED Browser!clientVars
        /\ wire' = wire /\ arrived' = arrived + 1 /\ arrived < Len(wire)
    BY <1>3 DEF Deliver, browserVars, backendVars, Browser!clientVars
  <2>2. Len(Inbox) < MaxArrivals + 2 /\ \E e \in Events : Inbox' = Append(Inbox, e)
    <3>1. wire \in Seq(Events) /\ Len(wire) <= MaxArrivals + 2 /\ Len(Inbox) = arrived
      BY InboxStep, BodyIsShort
    <3>. QED  BY <2>1, <3>1, InboxStep, SessionAssumption DEF Channel
  <2>. QED
    BY <2>1, <2>2 DEF Inbox, Browser!Next, Browser!Server, Browser!Deliver
<1>4. CASE Bff \/ DeliverEnd \/ ConnectionBreaks \/ BackendCutsOff
  <2>1. UNCHANGED <<arrived, Browser!clientVars>> /\ Inbox' = Inbox
    <3>1. UNCHANGED <<arrived, Browser!clientVars>>
      BY <1>4
      DEF Bff, BffRejects, BffForwards, BffUnreachable, BffAnswers, DeliverEnd,
          ConnectionBreaks, BackendCutsOff, Break, browserVars, Browser!clientVars
    <3>. QED  BY <3>1, InboxStep
  <2>2. \/ UNCHANGED body
        \/ body = "pending" /\ body' \in {"refused", "open", "broken"}
        \/ body = "open" /\ body' \in {"ended", "broken"}
    BY <1>4
    DEF Bff, BffRejects, BffForwards, BffUnreachable, BffAnswers, DeliverEnd,
        ConnectionBreaks, BackendCutsOff, Break
  <2>. QED
    BY <2>1, <2>2
    DEF Inbox, Browser!Next, Browser!Server, Browser!Respond, Browser!CloseBody
<1>5. CASE AbortPropagates \/ BackendWorks \/ UNCHANGED vars
  BY <1>1, <1>5 DEF AbortPropagates, BackendWorks, BackendRuns, vars, network
<1>. QED
  BY <1>2, <1>3, <1>4, <1>5 DEF Next

\* To the browser, the backend, the BFF and two connections that may break at
\* any time are a server of ChatClient: what was proved of the browser with
\* any server holds of this one.
THEOREM SessionIsServer == Spec => BrowserSeesServer
<1>1. Init => Browser!Init
  <2>. SUFFICES ASSUME Init  PROVE Browser!Init
    OBVIOUS
  <2>1. wire = <<>> /\ arrived = 0 /\ body = "pending" /\ Browser!ClientInit
    BY DEF Init, Backend!Init, Backend!Stream!Init
  <2>2. SubSeq(wire, 1, arrived) = <<>>
    BY <2>1, SubSeqEmpty
  <2>. QED  BY <2>1, <2>2 DEF Browser!Init, Browser!ServerInit
<1>2. Channel /\ Parts /\ Handler!IInv /\ Handler!TypeOK /\ [Next]_vars =>
        [Browser!Next]_(Browser!vars)
  BY StepIsServers
<1>. QED
  BY <1>1, <1>2, BackendHolds, ChannelHolds, PTL
  DEF Spec, BrowserSeesServer, Browser!Spec

\* What was proved of the browser holds in the session.
LEMMA BrowserHolds ==
  Spec => [](/\ Client!IInv /\ Client!TypeOK /\ Client!Cause
             /\ Client!CompleteIsEarned)
<1>1. Spec => Client!Spec
  BY SameTurn, SameTurnStep, SessionIsServer, PTL
  DEF BrowserSeesServer, Browser!Spec, Client!Spec
<1>2. Client!Spec => []Client!IInv
  BY Client!Inductive
<1>3. Client!Spec => []Client!TypeOK
  BY Client!TypeCorrect
<1>4. Client!Spec => []Client!Cause
  BY Client!FailuresHaveCauses
<1>5. Client!Spec => []Client!CompleteIsEarned
  BY Client!CompleteTurnsAreEarned
<1>. QED  BY <1>1, <1>2, <1>3, <1>4, <1>5, PTL
-----------------------------------------------------------------------------
(* What the browser has read of the body. *)

\* All that is known of the two and of the channel between them.
Known == /\ Channel /\ Parts
         /\ Handler!IInv /\ Handler!TypeOK
         /\ Handler!Contract!Grammar /\ Handler!NoticeHasReason
         /\ Client!IInv /\ Client!TypeOK /\ Client!Cause
         /\ Client!CompleteIsEarned

\* It holds of every session.
LEMMA KnownHolds == Spec => []Known
BY BackendHolds, ChannelHolds, BrowserHolds, PTL DEF Known

\* What is being waited for, sent, carried, read and shown stays in its range,
\* on either side and in between.
THEOREM TypeCorrect == Spec => []TypeOK
<1>1. Known => TypeOK
  BY SameTypes, SameTurnTypes DEF Known, TypeOK, Channel, Parts
<1>. QED  BY <1>1, KnownHolds, PTL

\* What was read is what was sent, and if it was terminal it was all.
LEMMA WhatWasRead ==
  ASSUME Known
  PROVE  /\ wire \in Seq(Events) /\ Len(wire) \in Nat /\ arrived \in 0..Len(wire)
         /\ seen \in 0..arrived /\ Len(Inbox) = arrived
         /\ \A i \in 1..seen : Inbox[i] = wire[i]
         /\ seen > 0 => /\ seen \in DOMAIN wire
                        /\ Inbox[seen] = wire[seen]
                        /\ wire[seen] \in Events
         /\ seen > 0 /\ wire[seen].event \in {"done", "error"} => seen = Len(wire)
<1>1. wire \in Seq(Events) /\ Len(wire) \in Nat /\ arrived \in 0..Len(wire)
  BY BodyIsShort DEF Known, Channel
<1>2. /\ Len(Inbox) = arrived
      /\ \A i \in 1..arrived : Inbox[i] = wire[i]
  BY <1>1 DEF Inbox
<1>3. seen \in 0..Len(Inbox)
  BY DEF Known, Client!IInv, Client!Typing, Inbox
<1>4. \A i \in 1..seen : Inbox[i] = wire[i]
  BY <1>1, <1>2, <1>3
<1>5. ASSUME seen > 0
      PROVE  /\ seen \in DOMAIN wire /\ Inbox[seen] = wire[seen]
             /\ wire[seen] \in Events
  <2>1. seen \in 1..seen /\ seen \in 1..Len(wire)
    BY <1>1, <1>2, <1>3, <1>5
  <2>. QED  BY <1>1, <1>4, <2>1
<1>6. ASSUME seen > 0, wire[seen].event \in {"done", "error"}
      PROVE  seen = Len(wire)
  BY <1>5, <1>6
  DEF Known, Handler!Contract!Grammar, Handler!Contract!IsTerminal
<1>. QED  BY <1>1, <1>2, <1>3, <1>4, <1>5, <1>6

\* The last item read, as an event of the body.
LEMMA LastRead ==
  ASSUME Known, NEW events
  PROVE  Client!LastIs(events) <=> seen > 0 /\ wire[seen].event \in events
BY WhatWasRead DEF Client!LastIs, Inbox
-----------------------------------------------------------------------------
(* A condemned text is off the screen. *)

\* What the provider condemned ended the body with the class that retracts.
LEMMA CondemnedEnds ==
  ASSUME Known, Condemned
  PROVE  /\ Len(wire) > 0
         /\ wire[Len(wire)].event = "error"
         /\ wire[Len(wire)].class = "content_filter"
<1>1. stage = "stream"
  <2>. SUFFICES ASSUME stage # "stream"  PROVE FALSE
    OBVIOUS
  <2>1. pos = 0
    BY DEF Known, Handler!IInv, Handler!Sent, Handler!Untouched
  <2>. QED  BY <2>1 DEF Condemned
<1>2. Handler!Body!IInv
  BY <1>1 DEF Known, Handler!IInv, Handler!Sent
<1>3. /\ pc = "ended"
      /\ wire[Len(wire)] = Handler!Body!Contract!Error("content_filter")
  BY <1>2
  DEF Condemned, Backend!Stream!Condemns, Handler!Body!Condemns,
      Handler!Body!IInv, Handler!Body!FilterFailsClosed
<1>4. wire # <<>>
  BY <1>1, <1>3
  DEF Known, Handler!IInv, Handler!EndIsTerminal
<1>5. Len(wire) > 0
  BY <1>4, WhatWasRead
<1>. QED  BY <1>3, <1>5 DEF Handler!Body!Contract!Error

\* A turn that ends in the consumer ends with that event.
LEMMA CondemnedIsRead ==
  ASSUME Known, Condemned, outcome \in Client!Decided
  PROVE  outcome = "error" /\ seen = Len(wire) /\ seen > 0
<1>1. /\ outcome = "done" => Client!LastIs({"done"})
      /\ Client!LastIs({"error"}) <=> outcome = "error"
  BY DEF Known, Client!IInv, Client!Decision
<1>2. outcome # "done"
  BY <1>1, LastRead, WhatWasRead, CondemnedEnds
<1>3. outcome # "failed"
  <2>. SUFFICES ASSUME outcome = "failed"  PROVE FALSE
    OBVIOUS
  <2>1. ~Client!LastIs({"illegal", "unreadable"})
    <3>1. \A e \in Events : e.event \notin {"illegal", "unreadable"}
      BY DEF Events, Backend!Contract!WireEvent
    <3>. QED  BY <3>1, LastRead, WhatWasRead
  <2>2. body = "ended" /\ seen = Len(Inbox)
    BY <2>1 DEF Known, Client!Cause, Inbox
  <2>3. seen = Len(wire)
    BY <2>2, WhatWasRead DEF Known, Channel
  <2>4. Client!LastIs({"error"})
    BY <2>3, CondemnedEnds, LastRead
  <2>. QED  BY <1>1, <2>4
<1>4. outcome = "error"
  BY <1>2, <1>3 DEF Client!Decided
<1>. QED  BY <1>1, <1>4, LastRead, WhatWasRead

\* A text that the provider's filter condemned does not stay on the screen,
\* however its verdict travels through backend, BFF and browser.
THEOREM CondemnedTextsGo == Spec => []CondemnedIsRetracted
<1>1. Known => CondemnedIsRetracted
  <2>. SUFFICES ASSUME Known, Condemned, phase = "settled",
                       outcome \notin {"stopped", "lost", "refused"}
                PROVE  screen = Browser!Shown(<<>>, "retracted")
    BY DEF CondemnedIsRetracted
  <2>1. outcome \in Client!Decided
    <3>1. outcome # "none"
      BY DEF Known, Client!IInv, Client!Before, Client!Proceeding
    <3>2. outcome \in Client!Outcome
      BY DEF Known, Client!IInv, Client!Typing
    <3>. QED  BY <3>1, <3>2 DEF Client!Outcome, Client!Decided
  <2>2. /\ outcome = "error" /\ seen > 0
        /\ Inbox[seen].class = "content_filter"
    BY <2>1, CondemnedIsRead, CondemnedEnds, WhatWasRead
  <2>3. Client!Verdict = Client!Shown(<<>>, "retracted")
    BY <2>2 DEF Client!Verdict, Client!Note, Inbox
  <2>4. screen = Client!Verdict
    BY <2>1, Client!WhatIsShown DEF Known
  <2>. QED  BY <2>3, <2>4 DEF Client!Shown, Browser!Shown
<1>. QED  BY <1>1, KnownHolds, PTL
-----------------------------------------------------------------------------
(* A complete answer is one stream, from the provider to the screen. *)

\* ProviderTexts, up to the n-th arrival.
TextsUpTo(n) ==
  LET texts[i \in Nat] ==
        IF i = 0 THEN <<>>
        ELSE IF Backend!Stream!CarriesText(log[i])
          THEN Append(texts[i - 1], <<attempt, i>>)
        ELSE texts[i - 1]
  IN texts[n]

\* Each arrival that carries text adds it.
LEMMA TextsGrow ==
  /\ TextsUpTo(0) = <<>>
  /\ \A n \in Nat :
       TextsUpTo(n + 1) = IF Backend!Stream!CarriesText(log[n + 1])
                            THEN Append(TextsUpTo(n), <<attempt, n + 1>>)
                          ELSE TextsUpTo(n)
<1>. DEFINE Carries(i) == Backend!Stream!CarriesText(log[i])
            IsTexts(f) == f = [i \in Nat |->
                                 IF i = 0 THEN <<>>
                                 ELSE IF Carries(i)
                                   THEN Append(f[i - 1], <<attempt, i>>)
                                 ELSE f[i - 1]]
            texts == CHOOSE f : IsTexts(f)
            items == [i \in Nat |-> [event |-> IF Carries(i) THEN "message" ELSE "empty",
                                     text  |-> <<attempt, i>>]]
            f == [n \in Nat |-> Client!ContentOf(items, n)]
<1>1. IsTexts(f)
  <2>1. f[0] = <<>>
    BY Client!ContentGrows
  <2>2. ASSUME NEW i \in Nat, i # 0
        PROVE  f[i] = IF Carries(i) THEN Append(f[i - 1], <<attempt, i>>)
                      ELSE f[i - 1]
    <3>1. i - 1 \in Nat /\ (i - 1) + 1 = i
      BY <2>2
    <3>2. /\ items[i].text = <<attempt, i>>
          /\ Client!IsContent(items[i]) <=> Carries(i)
      <4>. HIDE DEF Carries
      <4>. QED  BY DEF Client!IsContent
    <3>3. Client!ContentOf(items, i) =
            IF Client!IsContent(items[i])
              THEN Append(Client!ContentOf(items, i - 1), items[i].text)
            ELSE Client!ContentOf(items, i - 1)
      <4>. HIDE DEF items
      <4>. QED  BY <3>1, Client!ContentGrows
    <3>. HIDE DEF items, Carries
    <3>. QED  BY <3>1, <3>2, <3>3
  <2>3. f = [i \in Nat |-> f[i]]
    OBVIOUS
  <2>. HIDE DEF f, Carries
  <2>. QED  BY <2>1, <2>2, <2>3
<1>2. IsTexts(texts)
  <2>. HIDE DEF f
  <2>. QED  BY <1>1
<1>3. \A n : TextsUpTo(n) = texts[n]
  BY DEF TextsUpTo
<1>. HIDE DEF texts
<1>4. texts[0] = <<>>
  BY <1>2
<1>5. ASSUME NEW n \in Nat
      PROVE  texts[n + 1] = IF Carries(n + 1)
                              THEN Append(texts[n], <<attempt, n + 1>>)
                            ELSE texts[n]
  <2>1. n + 1 \in Nat /\ n + 1 # 0 /\ (n + 1) - 1 = n
    OBVIOUS
  <2>. HIDE DEF Carries
  <2>. QED  BY <1>2, <2>1
<1>. QED  BY <1>3, <1>4, <1>5

\* The same, seen from the arrival itself, and for the messages.
LEMMA TextsStep ==
  /\ TextsUpTo(0) = Client!ContentOf(wire, 0)
  /\ \A i \in Nat \ {0} :
       TextsUpTo(i) = IF Backend!Stream!CarriesText(log[i])
                        THEN Append(TextsUpTo(i - 1), <<attempt, i>>)
                      ELSE TextsUpTo(i - 1)
  /\ \A k \in Nat : Client!IsContent(wire[k + 1]) =>
       Client!ContentOf(wire, k + 1) =
         Append(Client!ContentOf(wire, k), wire[k + 1].text)
<1>1. ASSUME NEW i \in Nat \ {0}
      PROVE  TextsUpTo(i) = IF Backend!Stream!CarriesText(log[i])
                              THEN Append(TextsUpTo(i - 1), <<attempt, i>>)
                            ELSE TextsUpTo(i - 1)
  <2>1. i - 1 \in Nat /\ (i - 1) + 1 = i
    OBVIOUS
  <2>2. TextsUpTo((i - 1) + 1) =
          IF Backend!Stream!CarriesText(log[(i - 1) + 1])
            THEN Append(TextsUpTo(i - 1), <<attempt, (i - 1) + 1>>)
          ELSE TextsUpTo(i - 1)
    BY <2>1, TextsGrow
  <2>. QED  BY <2>1, <2>2
<1>2. /\ Client!ContentOf(wire, 0) = <<>>
      /\ \A k \in Nat : Client!IsContent(wire[k + 1]) =>
           Client!ContentOf(wire, k + 1) =
             Append(Client!ContentOf(wire, k), wire[k + 1].text)
  BY Client!ContentGrows
<1>3. TextsUpTo(0) = <<>>
  BY TextsGrow
<1>. QED  BY <1>1, <1>2, <1>3

\* Messages that name, in order, exactly the arrivals with a text say what
\* those arrivals say.
LEMMA SameTexts ==
  ASSUME NEW m \in Nat, pos \in Nat,
         NEW t \in [1..m -> 1..pos],
         \A k \in 1..m : /\ Client!IsContent(wire[k])
                         /\ wire[k].text = <<attempt, t[k]>>
                         /\ Backend!Stream!CarriesText(log[t[k]]),
         \A i \in 1..pos : Backend!Stream!CarriesText(log[i]) =>
           \E k \in 1..m : t[k] = i,
         \A j, k \in 1..m : j < k => t[j] < t[k]
  PROVE  Client!ContentOf(wire, m) = TextsUpTo(pos)
<1>. DEFINE Said(i, k) == /\ TextsUpTo(i) = Client!ContentOf(wire, k)
                          /\ \A j \in 1..m : j <= k <=> t[j] <= i
            T == {i \in 0..pos : ~\E k \in 0..m : Said(i, k)}
<1>1. T = {}
  <2>. SUFFICES ASSUME T # {}  PROVE FALSE
    OBVIOUS
  <2>1. T \subseteq Nat
    OBVIOUS
  <2>2. PICK i \in T : \A j \in T : i <= j
    <3>. HIDE DEF T
    <3>. QED  BY <2>1, Client!LeastNumber
  <2>3. Said(0, 0)
    <3>1. \A j \in 1..m : ~(j <= 0) /\ ~(t[j] <= 0)
      OBVIOUS
    <3>. QED  BY <3>1, TextsStep
  <2>4. i \in 1..pos /\ i - 1 \in 0..pos /\ i - 1 \notin T /\ (i - 1) + 1 = i
    <3>1. i # 0
      <4>. HIDE DEF Said
      <4>. QED  BY <2>3
    <3>2. i \in 1..pos /\ i - 1 \in 0..pos /\ ~(i <= i - 1) /\ (i - 1) + 1 = i
      BY <3>1
    <3>. HIDE DEF T
    <3>. QED  BY <2>2, <3>2
  <2>5. PICK k \in 0..m : Said(i - 1, k)
    <3>. HIDE DEF Said
    <3>1. SUFFICES ASSUME ~\E k \in 0..m : Said(i - 1, k)  PROVE FALSE
      OBVIOUS
    <3>. QED  BY <2>4, <3>1
  <2>6. CASE Backend!Stream!CarriesText(log[i])
    <3>1. PICK j \in 1..m : t[j] = i
      BY <2>4, <2>6
    <3>2. j > k
      BY <2>4, <2>5, <3>1
    <3>3. k + 1 \in 1..m /\ t[k + 1] \in 1..pos /\ ~(t[k + 1] <= i - 1)
      BY <2>5, <3>1, <3>2
    <3>4. j = k + 1
      BY <2>4, <3>1, <3>2, <3>3
    <3>5. TextsUpTo(i) = Append(TextsUpTo(i - 1), <<attempt, i>>)
      BY <2>4, <2>6, TextsStep
    <3>6. Client!ContentOf(wire, k + 1) =
            Append(Client!ContentOf(wire, k), wire[k + 1].text)
      BY <3>3, TextsStep
    <3>7. wire[k + 1].text = <<attempt, i>>
      BY <3>1, <3>4
    <3>8. \A l \in 1..m : l <= k + 1 <=> t[l] <= i
      <4>. TAKE l \in 1..m
      <4>1. t[l] \in Nat /\ l \in Nat /\ k \in Nat /\ i \in Nat
        BY <2>4
      <4>2. l <= k <=> t[l] <= i - 1
        BY <2>5
      <4>3. l > k + 1 => t[l] > i
        BY <3>1, <3>3, <3>4
      <4>4. l = k + 1 => t[l] = i
        BY <3>1, <3>4
      <4>. QED  BY <4>1, <4>2, <4>3, <4>4
    <3>9. Said(i, k + 1)
      BY <2>5, <3>5, <3>6, <3>7, <3>8
    <3>. HIDE DEF Said
    <3>. QED  BY <2>2, <3>3, <3>9
  <2>7. CASE ~Backend!Stream!CarriesText(log[i])
    <3>1. \A j \in 1..m : t[j] # i
      BY <2>7
    <3>2. TextsUpTo(i) = TextsUpTo(i - 1)
      BY <2>4, <2>7, TextsStep
    <3>3. \A j \in 1..m : j <= k <=> t[j] <= i
      <4>. TAKE j \in 1..m
      <4>1. t[j] \in Nat /\ t[j] # i /\ i \in Nat
        BY <2>4, <3>1
      <4>2. j <= k <=> t[j] <= i - 1
        BY <2>5
      <4>. QED  BY <4>1, <4>2
    <3>4. Said(i, k)
      BY <2>5, <3>2, <3>3
    <3>. HIDE DEF Said
    <3>. QED  BY <2>2, <3>4
  <2>. QED  BY <2>6, <2>7
<1>2. PICK k \in 0..m : Said(pos, k)
  <2>. HIDE DEF Said
  <2>1. pos \in 0..pos
    OBVIOUS
  <2>2. SUFFICES ASSUME ~\E k \in 0..m : Said(pos, k)  PROVE FALSE
    OBVIOUS
  <2>3. pos \in T
    BY <2>1, <2>2
  <2>. HIDE DEF T
  <2>. QED  BY <1>1, <2>3
<1>3. k = m
  <2>1. m > 0 => m \in 1..m /\ t[m] <= pos
    OBVIOUS
  <2>. QED  BY <1>2, <2>1
<1>. QED  BY <1>2, <1>3

\* A body that ends in done was either the guard's or one whole stream.
LEMMA AnswerOfStream ==
  ASSUME Known, stage = "stream", outcome = "done"
  PROVE  /\ found = "enough"
         /\ log[pos].kind = "done"
         /\ ~Condemned
         /\ Client!ContentOf(wire, Len(wire)) = ProviderTexts
<1>. DEFINE n == Len(wire)
            t == [k \in 1..(n - 1) |-> wire[k].text[2]]
<1>1. seen = n /\ n > 0 /\ n \in DOMAIN wire /\ wire[n].event = "done"
  <2>1. Client!LastIs({"done"})
    BY DEF Known, Client!IInv, Client!Decision
  <2>. QED  BY <2>1, LastRead, WhatWasRead
<1>2. /\ Handler!Body!IInv /\ found = "enough"
      /\ wire \in Seq(Events) /\ n \in Nat /\ DOMAIN wire = 1..n
  BY WhatWasRead DEF Known, Handler!IInv, Handler!Sent, Handler!Progress
<1>3. /\ log[pos].kind = "done"
      /\ \A i \in 1..pos : ~Handler!Body!Condemns(log[i])
  BY <1>1, <1>2 DEF Handler!Body!IInv, Handler!Body!DoneIsEarned
<1>4. ~Condemned
  BY <1>3 DEF Condemned, Backend!Stream!Condemns, Handler!Body!Condemns
<1>5. pos \in Nat
  BY <1>2 DEF Handler!Body!IInv, Handler!Body!Typing, Handler!Body!TypeOK
<1>6. \A p : Handler!Body!CarriesText(p) <=> Backend!Stream!CarriesText(p)
  BY DEF Handler!Body!CarriesText, Backend!Stream!CarriesText,
         Handler!Body!ConvertChoice, Backend!Stream!ConvertChoice,
         Handler!Body!ConvertDelta, Backend!Stream!ConvertDelta
<1>7. ASSUME NEW k \in 1..(n - 1)
      PROVE  /\ wire[k].event = "message" /\ k \in DOMAIN wire
             /\ t[k] \in 1..pos
             /\ wire[k].text = <<attempt, t[k]>>
             /\ Backend!Stream!CarriesText(log[t[k]])
  <2>1. k \in DOMAIN wire /\ k # n
    <3>1. n \in Nat /\ DOMAIN wire = 1..n
      BY <1>2
    <3>. HIDE DEF n, t
    <3>. QED  BY <3>1
  <2>2. wire[k].event = "message"
    BY <1>2, <2>1
    DEF Handler!Body!IInv, Handler!Body!MessagesFirst, Handler!Body!IsMessage
  <2>3. PICK i \in 1..pos : /\ Handler!Body!CarriesText(log[i])
                            /\ wire[k].text = <<attempt, i>>
    BY <1>2, <2>1, <2>2
    DEF Handler!Body!IInv, Handler!Body!RelayIsExact, Handler!Body!IsMessage
  <2>4. t[k] = i
    BY <2>3
  <2>. HIDE DEF t
  <2>. QED  BY <1>6, <2>1, <2>2, <2>3, <2>4
<1>8. ASSUME NEW i \in 1..pos, Backend!Stream!CarriesText(log[i])
      PROVE  \E k \in 1..(n - 1) : t[k] = i
  <2>1. PICK k \in DOMAIN wire : /\ wire[k].event = "message"
                                 /\ wire[k].text = <<attempt, i>>
    BY <1>2, <1>6, <1>8
    DEF Handler!Body!IInv, Handler!Body!RelayIsExact, Handler!Body!IsMessage
  <2>2. k \in 1..(n - 1)
    BY <1>1, <1>2, <2>1
  <2>3. t[k] = i
    BY <2>1, <2>2
  <2>. QED  BY <2>2, <2>3
<1>9. \A j, k \in 1..(n - 1) : j < k => t[j] < t[k]
  <2>. SUFFICES ASSUME NEW j \in 1..(n - 1), NEW k \in 1..(n - 1), j < k
                PROVE  t[j] < t[k]
    OBVIOUS
  <2>1. Handler!Body!RelayIsExact
    BY <1>2 DEF Handler!Body!IInv
  <2>2. wire[j].text[2] < wire[k].text[2]
    BY <1>7, <2>1 DEF Handler!Body!RelayIsExact, Handler!Body!IsMessage
  <2>. QED  BY <2>2
<1>10. Client!ContentOf(wire, n - 1) = TextsUpTo(pos)
  <2>. DEFINE m == n - 1
  <2>1. m \in Nat
    BY <1>1, <1>2
  <2>2. t \in [1..m -> 1..pos]
    BY <1>7
  <2>3. \A k \in 1..m : /\ Client!IsContent(wire[k])
                        /\ wire[k].text = <<attempt, t[k]>>
                        /\ Backend!Stream!CarriesText(log[t[k]])
    BY <1>7 DEF Client!IsContent
  <2>4. /\ \A i \in 1..pos : Backend!Stream!CarriesText(log[i]) =>
             \E k \in 1..m : t[k] = i
        /\ \A j, k \in 1..m : j < k => t[j] < t[k]
    BY <1>8, <1>9
  <2>. HIDE DEF m, t
  <2>5. Client!ContentOf(wire, m) = TextsUpTo(pos)
    BY <1>5, <2>1, <2>2, <2>3, <2>4, SameTexts
  <2>. QED  BY <2>5 DEF m
<1>11. Client!ContentOf(wire, n) = Client!ContentOf(wire, n - 1)
  <2>1. n - 1 \in Nat /\ (n - 1) + 1 = n /\ ~Client!IsContent(wire[n])
    BY <1>1, <1>2 DEF Client!IsContent
  <2>2. Client!ContentOf(wire, (n - 1) + 1) =
          IF Client!IsContent(wire[(n - 1) + 1])
            THEN Append(Client!ContentOf(wire, n - 1), wire[(n - 1) + 1].text)
          ELSE Client!ContentOf(wire, n - 1)
    BY <2>1, Client!ContentGrows
  <2>. QED  BY <2>1, <2>2
<1>12. ProviderTexts = TextsUpTo(pos)
  BY DEF ProviderTexts, TextsUpTo
<1>. QED  BY <1>2, <1>3, <1>4, <1>10, <1>11, <1>12

\* Where there was no stream, it was the guard's.
LEMMA AnswerOfGuard ==
  ASSUME Known, stage # "stream", outcome = "done"
  PROVE  /\ found \in {"none", "below"}
         /\ Client!ContentOf(wire, Len(wire)) = <<Backend!Stream!NoContext>>
<1>1. seen = Len(wire) /\ seen > 0 /\ wire[seen].event = "done"
  <2>1. Client!LastIs({"done"})
    BY DEF Known, Client!IInv, Client!Decision
  <2>. QED  BY <2>1, LastRead, WhatWasRead
<1>2. wire # <<>>
  BY <1>1
<1>3. wire # Handler!TheNotice
  <2>. SUFFICES ASSUME wire = Handler!TheNotice  PROVE FALSE
    OBVIOUS
  <2>1. Len(wire) = 1 /\ wire[1].event = "notice"
    BY DEF Handler!TheNotice, Handler!Stream!Contract!Notice
  <2>. QED  BY <1>1, <2>1
<1>4. stage = "answered" /\ wire = Handler!TheWholeNotice /\ status = 200
  BY <1>2, <1>3 DEF Known, Handler!IInv, Handler!Sent
<1>5. found \in {"none", "below"}
  BY <1>4 DEF Known, Handler!NoticeHasReason
<1>6. /\ Len(wire) = 2
      /\ wire[1].event = "notice" /\ wire[1].text = Backend!Stream!NoContext
      /\ wire[2].event = "done"
  BY <1>4
  DEF Handler!TheWholeNotice, Handler!Stream!Contract!Notice,
      Handler!Stream!Contract!Done, Handler!Stream!NoContext,
      Backend!Stream!NoContext
<1>7. Client!ContentOf(wire, 2) = <<Backend!Stream!NoContext>>
  <2>1. Client!ContentOf(wire, 0) = <<>>
    BY Client!ContentGrows
  <2>2. Client!ContentOf(wire, 0 + 1) =
          IF Client!IsContent(wire[0 + 1])
            THEN Append(Client!ContentOf(wire, 0), wire[0 + 1].text)
          ELSE Client!ContentOf(wire, 0)
    BY Client!ContentGrows
  <2>3. Client!ContentOf(wire, 1) = <<Backend!Stream!NoContext>>
    <3>1. 0 + 1 = 1 /\ \A x : Append(<<>>, x) = <<x>>
      OBVIOUS
    <3>2. Client!IsContent(wire[1])
      BY <1>6 DEF Client!IsContent
    <3>. QED  BY <1>6, <2>1, <2>2, <3>1, <3>2
  <2>4. Client!ContentOf(wire, 1 + 1) =
          IF Client!IsContent(wire[1 + 1])
            THEN Append(Client!ContentOf(wire, 1), wire[1 + 1].text)
          ELSE Client!ContentOf(wire, 1)
    BY Client!ContentGrows
  <2>. QED  BY <1>6, <2>3, <2>4 DEF Client!IsContent
<1>. QED  BY <1>5, <1>6, <1>7

\* An answer that looks complete on the screen is the guard's notice for a
\* question without grounds, or every text of one stream that the provider
\* finished and its filter did not object to.
THEOREM CompleteAnswersAreWhole == Spec => []CompleteAnswer
<1>1. Known => CompleteAnswer
  <2>. SUFFICES ASSUME Known, outcome = "done"  PROVE CompleteAnswer
    BY DEF CompleteAnswer
  <2>1. seen = Len(wire) /\ seen \in Nat
    <3>1. Client!LastIs({"done"})
      BY DEF Known, Client!IInv, Client!Decision
    <3>. QED  BY <3>1, LastRead, WhatWasRead
  <2>2. screen.texts = Client!ContentOf(wire, Len(wire))
    <3>1. screen = Client!Shown(Client!ContentOf(Inbox, seen), "none")
      BY DEF Known, Client!CompleteIsEarned, Inbox
    <3>2. Client!ContentOf(Inbox, seen) = Client!ContentOf(wire, seen)
      BY <2>1, WhatWasRead, Client!ContentOfPrefix
    <3>. QED  BY <2>1, <3>1, <3>2 DEF Client!Shown
  <2>3. CASE stage = "stream"
    BY <2>2, <2>3, AnswerOfStream DEF CompleteAnswer
  <2>4. CASE stage # "stream"
    BY <2>2, <2>4, AnswerOfGuard DEF CompleteAnswer
  <2>. QED  BY <2>3, <2>4
<1>. QED  BY <1>1, KnownHolds, PTL
=============================================================================
