-------------------------- MODULE ChatRequestProofs --------------------------
(***************************************************************************)
(* Proofs about ChatRequest, for every value of its constants.  While the  *)
(* SSE body is being streamed, it is the body of ChatStream, and what was  *)
(* proved of that is used here; before and instead of it, it is untouched. *)
(***************************************************************************)
EXTENDS ChatRequest, SequenceTheorems, TLAPS

Body == INSTANCE ChatStreamProofs

-----------------------------------------------------------------------------
(* The body seen from ChatStreamProofs. *)

\* The body is the one of ChatStream with the request's own parameters.
LEMMA BodyAssumptions ==
  Body!AttemptsAssumption /\ Body!ProviderAssumption /\ Body!EntraAssumption
BY BodyAssumption
DEF Body!AttemptsAssumption, Body!ProviderAssumption, Body!EntraAssumption,
    Stream!Arrival, Stream!Payload, Stream!Finish, Stream!Delta,
    Body!Arrival, Body!Payload, Body!Finish, Body!Delta

\* The two instances of ChatStream begin alike, ...
LEMMA SameInit == Stream!Init => Body!Init
BY DEF Stream!Init, Body!Init

\* ... have the same types, ...
LEMMA SameTypes == Stream!TypeOK <=> Body!TypeOK
BY DEF Stream!TypeOK, Body!TypeOK, Stream!Control, Body!Control,
       Stream!Attempts, Body!Attempts, Stream!Arrival, Body!Arrival,
       Stream!Payload, Body!Payload, Stream!Finish, Body!Finish,
       Stream!Delta, Body!Delta, Stream!ErrorClass, Body!ErrorClass,
       Stream!Texts, Body!Texts, Stream!NoContext, Body!NoContext,
       Stream!Contract!ErrorClass, Body!Contract!ErrorClass,
       Stream!Contract!WireEvent, Body!Contract!WireEvent

\* ... fail alike, ...
LEMMA SameFailure ==
  \A e : Stream!AttemptFails(e) <=> Body!AttemptFails(e)
BY DEF Stream!AttemptFails, Body!AttemptFails, Stream!CloseUpstream,
       Body!CloseUpstream, Stream!SendTerminal, Body!SendTerminal,
       Stream!Retryable, Body!Retryable,
       Stream!Contract!Error, Body!Contract!Error

\* ... convert alike, ...
LEMMA SameConversion ==
  \A o : Stream!Converts(o) <=> Body!Converts(o)
BY DEF Stream!Converts, Body!Converts, Stream!Reading, Body!Reading,
       Stream!Convert, Body!Convert, Stream!ConvertChoice, Body!ConvertChoice,
       Stream!ConvertDelta, Body!ConvertDelta

\* ... and read alike.
LEMMA SameRead == Stream!Read => Body!Read
<1>1. Stream!ReadSkipped => Body!ReadSkipped
  BY SameConversion DEF Stream!ReadSkipped, Body!ReadSkipped
<1>2. Stream!ReadStop => Body!ReadStop
  BY SameConversion DEF Stream!ReadStop, Body!ReadStop
<1>3. Stream!ReadText => Body!ReadText
  BY SameConversion DEF Stream!ReadText, Body!ReadText,
     Stream!Contract!Message, Body!Contract!Message
<1>4. Stream!ReadDone => Body!ReadDone
  BY SameConversion, SameFailure
  DEF Stream!ReadDone, Body!ReadDone, Stream!CloseUpstream, Body!CloseUpstream,
      Stream!SendTerminal, Body!SendTerminal,
      Stream!Contract!Done, Body!Contract!Done
<1>5. Stream!ReadError => Body!ReadError
  BY SameConversion, SameFailure
  DEF Stream!ReadError, Body!ReadError, Stream!RelayFails, Body!RelayFails,
      Stream!CloseUpstream, Body!CloseUpstream,
      Stream!SendTerminal, Body!SendTerminal,
      Stream!Contract!Error, Body!Contract!Error
<1>6. Stream!ReadUndecodable => Body!ReadUndecodable
  BY DEF Stream!ReadUndecodable, Body!ReadUndecodable,
         Stream!Reading, Body!Reading, Stream!Crash, Body!Crash,
         Stream!CloseUpstream, Body!CloseUpstream,
         Stream!Convert, Body!Convert,
         Stream!ConvertChoice, Body!ConvertChoice,
         Stream!ConvertDelta, Body!ConvertDelta
<1>. QED
  BY <1>1, <1>2, <1>3, <1>4, <1>5, <1>6 DEF Stream!Read, Body!Read

\* A step of the body is a step of ChatStream.
LEMMA SameStep == StreamBody \/ ClientLeaves => Body!Next
<1>1. Stream!TokenReady => Body!TokenReady
  BY DEF Stream!TokenReady, Body!TokenReady
<1>2. Stream!TokenFails => Body!TokenFails
  BY DEF Stream!TokenFails, Body!TokenFails, Stream!Crash, Body!Crash,
         Stream!CloseUpstream, Body!CloseUpstream
<1>3. Stream!ResponseAccepted => Body!ResponseAccepted
  BY DEF Stream!ResponseAccepted, Body!ResponseAccepted
<1>4. Stream!ResponseRefused => Body!ResponseRefused
  BY SameFailure DEF Stream!ResponseRefused, Body!ResponseRefused
<1>5. Stream!FirstDeltaTimeout => Body!FirstDeltaTimeout
  BY SameFailure DEF Stream!FirstDeltaTimeout, Body!FirstDeltaTimeout,
                     Stream!Connecting, Body!Connecting
<1>6. Stream!NextAttempt => Body!NextAttempt
  BY DEF Stream!NextAttempt, Body!NextAttempt
<1>7. Stream!ProviderSends => Body!ProviderSends
  BY DEF Stream!ProviderSends, Body!ProviderSends, Stream!Reading, Body!Reading,
         Stream!BodyEnded, Body!BodyEnded, Stream!EndOfBody, Body!EndOfBody
<1>8. Stream!ChainClosed => Body!ChainClosed
  BY DEF Stream!ChainClosed, Body!ChainClosed, Stream!Over, Body!Over,
         Stream!CloseUpstream, Body!CloseUpstream
<1>9. Stream!Disconnect => Body!Disconnect
  BY DEF Stream!Disconnect, Body!Disconnect
<1>. QED
  BY <1>1, <1>2, <1>3, <1>4, <1>5, <1>6, <1>7, <1>8, <1>9, SameRead
  DEF StreamBody, ClientLeaves, Body!Next
-----------------------------------------------------------------------------
(* The inductive invariant. *)

\* The body as it is before its first step.
Untouched == /\ pc = "auth"
             /\ attempt = 1
             /\ log = <<>>
             /\ pos = 0
             /\ stopSeen = FALSE
             /\ open = {}
             /\ lastError = "none"

Entitled == request.gate = "open" /\ request.valid = TRUE

Typing == /\ request \in Request
          /\ stage \in Stage
          /\ embedAttempt \in 0..MaxAttempts
          /\ embedError \in EmbedFailure \cup {"none", "dimension"}
          /\ found \in {"unknown", "none", "below", "enough"}
          /\ status \in Statuses \cup {0}
          /\ client \in {"here", "gone"}

\* How far the handler has come, and what it took.
Progress ==
  /\ stage = "gate" => embedAttempt = 0 /\ found = "unknown"
  /\ stage \notin {"gate", "answered"} => Entitled /\ embedAttempt > 0
  /\ ~Entitled => embedAttempt = 0 /\ found = "unknown"
  /\ stage = "embed_backoff" => embedAttempt < MaxAttempts
  /\ stage \in {"properties", "stream"} => found = "enough"

\* The status goes with the stage.
Answered ==
  /\ stage \in {"gate", "embed", "embed_backoff", "search", "properties"} =>
       status = 0
  /\ stage \in {"notice", "noticed", "stream"} => status = 200
  /\ stage = "answered" => status # 0
  /\ status = 200 => Entitled
  /\ status = 502 /\ embedError \in Stream!Retryable => embedAttempt = MaxAttempts

\* The body goes with the stage.
TheNotice    == <<Stream!Contract!Notice>>
TheWholeNotice == <<Stream!Contract!Notice, Stream!Contract!Done>>

Sent ==
  /\ stage # "stream" => Untouched
  /\ stage \notin {"stream", "noticed", "answered"} => wire = <<>>
  /\ stage = "noticed" => wire = TheNotice
  /\ stage = "answered" =>
       /\ wire \in {<<>>, TheNotice, TheWholeNotice}
       /\ wire # <<>> => status = 200
       /\ status = 200 => wire = TheWholeNotice \/ client = "gone"
  /\ stage \notin {"noticed", "answered"} => Body!IInv

\* The body has ended when a terminal event was sent, and only then.
EndIsTerminal ==
  stage = "stream" /\ pc = "ended" =>
    \E k \in DOMAIN wire : Stream!Contract!IsTerminal(wire[k])

IInv == Typing /\ Progress /\ Answered /\ Sent /\ EndIsTerminal

\* A request begins at the gate, with nothing spent and nothing sent.
LEMMA InitIsGood == Init => IInv
<1>. SUFFICES ASSUME Init  PROVE IInv
  OBVIOUS
<1>1. Typing /\ Progress /\ Answered /\ EndIsTerminal
  <2>1. Typing
    BY BodyAssumption DEF Init, Stream!Init, Typing, Stage
  <2>. QED
    BY <2>1 DEF Init, Stream!Init, Progress, Answered, EndIsTerminal
<1>2. Body!IInv
  BY SameInit, BodyAssumptions, Body!IInvInit DEF Init
<1>3. Sent
  BY <1>2 DEF Init, Stream!Init, Sent, Untouched
<1>. QED  BY <1>1, <1>3 DEF IInv
-----------------------------------------------------------------------------
(* The handler. *)

\* As long as the body is not run, its invariant stays.
LEMMA BodyUntouched ==
  ASSUME Body!IInv, UNCHANGED <<bodyVars, client>>
  PROVE  Body!IInv'
<1>1. UNCHANGED Body!vars
  BY DEF bodyVars, Body!vars
<1>. QED  BY <1>1, BodyAssumptions, Body!IInvStep

\* A step of the handler before its body, to another stage before it.
LEMMA OnTheWay ==
  ASSUME IInv, UNCHANGED <<bodyVars, client>>,
         stage \notin {"stream", "noticed", "answered"},
         stage' \notin {"noticed", "answered"}
  PROVE  Sent' /\ EndIsTerminal'
<1>1. Untouched /\ wire = <<>> /\ Body!IInv
  BY DEF IInv, Sent
<1>2. Body!IInv' /\ Untouched' /\ wire' = <<>>
  BY <1>1, BodyUntouched DEF Untouched, bodyVars
<1>. QED  BY <1>2 DEF Sent, EndIsTerminal, Untouched

\* An HTTP error.
LEMMA ErrorAnswered ==
  ASSUME IInv, UNCHANGED <<bodyVars, client, request, found>>,
         stage \notin {"stream", "notice", "noticed", "answered"},
         NEW code \in Statuses \ {200}, Answer(code),
         stage = "gate" => code # 502 /\ UNCHANGED <<embedAttempt, embedError>>,
         code = 502 => (embedError' \in Stream!Retryable => embedAttempt' = MaxAttempts),
         embedAttempt' = embedAttempt,
         embedError' \in EmbedFailure \cup {"none", "dimension"},
         stage # "gate" \/ ~Entitled
  PROVE  IInv'
<1>1. stage' = "answered" /\ status' = code /\ code \notin {0, 200}
  BY DEF Answer, Statuses
<1>2. Typing'
  BY <1>1 DEF IInv, Typing, Stage
<1>3. Progress'
  BY <1>1 DEF IInv, Progress, Entitled
<1>4. Answered'
  BY <1>1 DEF IInv, Answered
<1>5. Sent' /\ EndIsTerminal'
  BY <1>1 DEF IInv, Sent, EndIsTerminal, Untouched, bodyVars
<1>. QED  BY <1>2, <1>3, <1>4, <1>5 DEF IInv

\* The gate and the validation refuse, or let the request spend.
LEMMA GateStep == IInv /\ Gate => IInv'
<1>. SUFFICES ASSUME IInv, Gate  PROVE IInv'
  OBVIOUS
<1>1. CASE request.gate = "open" /\ request.valid
  <2>1. /\ stage = "gate" /\ stage' = "embed" /\ embedAttempt' = 1
        /\ UNCHANGED <<request, embedError, found, status, bodyVars, client>>
    BY <1>1 DEF Gate
  <2>2. Entitled
    BY <1>1 DEF IInv, Typing, Request, Entitled
  <2>3. Typing'
    BY <2>1, BodyAssumption DEF IInv, Typing, Stage
  <2>4. Progress'
    BY <2>1, <2>2 DEF Progress, Entitled
  <2>5. Answered'
    BY <2>1, <2>2 DEF IInv, Answered, Entitled
  <2>. QED  BY <2>1, <2>3, <2>4, <2>5, OnTheWay DEF IInv
<1>2. CASE ~(request.gate = "open" /\ request.valid)
  <2>1. PICK code \in {404, 401, 422} : Answer(code)
    BY <1>2 DEF Gate
  <2>2. /\ stage = "gate" /\ ~Entitled
        /\ UNCHANGED <<request, embedAttempt, embedError, found, bodyVars, client>>
    BY <1>2 DEF Gate, Entitled
  <2>. QED
    BY <2>1, <2>2, ErrorAnswered DEF IInv, Typing, Statuses
<1>. QED  BY <1>1, <1>2

\* An attempt of the embedding call ends, or the next one starts.
LEMMA EmbedStep == IInv /\ Embed => IInv'
<1>. SUFFICES ASSUME IInv, Embed  PROVE IInv'
  OBVIOUS
<1>1. CASE EmbedReturns
  <2>1. /\ stage = "embed" /\ stage' = "search"
        /\ UNCHANGED <<request, embedAttempt, embedError, found, status,
                       bodyVars, client>>
    BY <1>1 DEF EmbedReturns
  <2>2. Typing' /\ Progress' /\ Answered'
    BY <2>1 DEF IInv, Typing, Stage, Progress, Entitled, Answered
  <2>. QED  BY <2>1, <2>2, OnTheWay DEF IInv
<1>2. CASE EmbedWrongDimension
  <2>1. Answer(502) /\ stage = "embed" /\ embedError' = "dimension"
        /\ UNCHANGED <<request, embedAttempt, found, bodyVars, client>>
    BY <1>2 DEF EmbedWrongDimension
  <2>2. "dimension" \notin Stream!Retryable /\ 502 \in Statuses \ {200}
    BY DEF Stream!Retryable, Statuses
  <2>. QED  BY <2>1, <2>2, ErrorAnswered
<1>3. ASSUME NEW e \in EmbedFailure, EmbedAttemptFails(e)  PROVE IInv'
  <2>1. CASE e \in Stream!Retryable /\ embedAttempt < MaxAttempts
    <3>1. /\ stage = "embed" /\ stage' = "embed_backoff" /\ embedError' = e
          /\ UNCHANGED <<request, embedAttempt, found, status, bodyVars, client>>
      BY <1>3, <2>1 DEF EmbedAttemptFails
    <3>2. Typing' /\ Progress' /\ Answered'
      BY <2>1, <3>1 DEF IInv, Typing, Stage, Progress, Entitled, Answered
    <3>. QED  BY <3>1, <3>2, OnTheWay DEF IInv
  <2>2. CASE ~(e \in Stream!Retryable /\ embedAttempt < MaxAttempts)
    <3>1. /\ stage = "embed" /\ Answer(502) /\ embedError' = e
          /\ UNCHANGED <<request, embedAttempt, found, bodyVars, client>>
      BY <1>3, <2>2 DEF EmbedAttemptFails
    <3>2. e \in Stream!Retryable => embedAttempt = MaxAttempts
      BY <2>2, BodyAssumption DEF IInv, Typing
    <3>3. 502 \in Statuses \ {200}
      BY DEF Statuses
    <3>. QED  BY <3>1, <3>2, <3>3, ErrorAnswered
  <2>. QED  BY <2>1, <2>2
<1>4. CASE EmbedTokenFails
  <2>1. Answer(500) /\ stage = "embed"
        /\ UNCHANGED <<request, embedAttempt, embedError, found, bodyVars, client>>
    BY <1>4 DEF EmbedTokenFails
  <2>. QED  BY <2>1, ErrorAnswered DEF Statuses, IInv, Typing
<1>5. CASE EmbedNextAttempt
  <2>1. /\ stage = "embed_backoff" /\ stage' = "embed"
        /\ embedAttempt' = embedAttempt + 1
        /\ UNCHANGED <<request, embedError, found, status, bodyVars, client>>
    BY <1>5 DEF EmbedNextAttempt
  <2>2. embedAttempt \in 0..MaxAttempts /\ embedAttempt < MaxAttempts /\ Entitled
    BY <2>1 DEF IInv, Typing, Progress
  <2>3. embedAttempt' \in 0..MaxAttempts /\ embedAttempt' > 0
    BY <2>1, <2>2, BodyAssumption
  <2>4. Typing'
    BY <2>1, <2>3 DEF IInv, Typing, Stage
  <2>5. Progress' /\ Answered'
    BY <2>1, <2>2, <2>3 DEF IInv, Progress, Entitled, Answered
  <2>. QED  BY <2>1, <2>4, <2>5, OnTheWay DEF IInv
<1>. QED
  BY <1>1, <1>2, <1>3, <1>4, <1>5 DEF Embed, EmbedFails, EmbedTimesOut, EmbedFailure

\* The search and the numeric records answer, fail or find nothing.
LEMMA DatabaseStep == IInv /\ Database => IInv'
<1>. SUFFICES ASSUME IInv, Database  PROVE IInv'
  OBVIOUS
<1>1. CASE SearchFails \/ PropertiesFail
  <2>1. Answer(503) /\ stage \in {"search", "properties"}
        /\ UNCHANGED <<request, embedAttempt, embedError, found, bodyVars, client>>
    BY <1>1 DEF SearchFails, PropertiesFail
  <2>. QED  BY <2>1, ErrorAnswered DEF Statuses, IInv, Typing
<1>2. CASE SearchReturns
  <2>1. /\ stage = "search" /\ found' \in {"none", "below", "enough"}
        /\ \/ found' = "enough" /\ stage' = "properties" /\ status' = status
           \/ stage' = "notice" /\ status' = 200
        /\ UNCHANGED <<request, embedAttempt, embedError, bodyVars, client>>
    BY <1>2 DEF SearchReturns
  <2>2. Typing'
    BY <2>1 DEF IInv, Typing, Stage, Statuses
  <2>3. Progress' /\ Answered'
    BY <2>1 DEF IInv, Progress, Entitled, Answered
  <2>. QED  BY <2>1, <2>2, <2>3, OnTheWay DEF IInv
<1>3. CASE PropertiesReturn
  <2>1. /\ stage = "properties" /\ stage' = "stream" /\ status' = 200
        /\ UNCHANGED <<request, embedAttempt, embedError, found, bodyVars, client>>
    BY <1>3 DEF PropertiesReturn
  <2>2. Typing'
    BY <2>1 DEF IInv, Typing, Stage, Statuses
  <2>3. Progress' /\ Answered'
    BY <2>1 DEF IInv, Progress, Entitled, Answered
  <2>4. Untouched /\ wire = <<>> /\ Body!IInv
    BY <2>1 DEF IInv, Sent
  <2>5. Body!IInv' /\ pc' = "auth"
    BY <2>1, <2>4, BodyUntouched DEF Untouched, bodyVars
  <2>6. Sent' /\ EndIsTerminal'
    BY <2>1, <2>5 DEF Sent, EndIsTerminal
  <2>. QED  BY <2>2, <2>3, <2>6 DEF IInv
<1>. QED  BY <1>1, <1>2, <1>3 DEF Database

\* The notice, and then what ends it.
LEMMA AppendToOne ==
  ASSUME NEW a, NEW b
  PROVE  Append(<<a>>, b) = <<a, b>>
<1>. DEFINE S == {a, b}
<1>1. <<a>> \in Seq(S) /\ b \in S /\ <<a, b>> \in Seq(S)
  OBVIOUS
<1>2. /\ Append(<<a>>, b) \in Seq(S)
      /\ Len(Append(<<a>>, b)) = 2 /\ Len(<<a, b>>) = 2
      /\ \A i \in 1..2 : Append(<<a>>, b)[i] = <<a, b>>[i]
  OBVIOUS
<1>. HIDE DEF S
<1>. QED  BY <1>1, <1>2, SeqEqual

\* The guard's reply, one event at a time.
LEMMA NoticeStep == IInv /\ Notice => IInv'
<1>. SUFFICES ASSUME IInv, Notice  PROVE IInv'
  OBVIOUS
<1>1. /\ stage \in {"notice", "noticed"} /\ stage' \in {"noticed", "answered"}
      /\ UNCHANGED <<request, embedAttempt, embedError, found, status, client>>
      /\ Untouched /\ Untouched'
  BY DEF Notice, SendNotice, SendNoticeDone, NoticeClosed, IInv, Sent, Untouched,
         bodyVars
<1>2. Typing' /\ Progress' /\ Answered'
  BY <1>1 DEF IInv, Typing, Stage, Progress, Entitled, Answered
<1>3. EndIsTerminal'
  BY <1>1 DEF EndIsTerminal
<1>4. status = 200
  BY <1>1 DEF IInv, Answered
<1>5. CASE SendNotice
  <2>1. stage' = "noticed" /\ wire' = TheNotice
    BY <1>5 DEF SendNotice, IInv, Sent, TheNotice
  <2>2. Sent'
    BY <1>1, <2>1 DEF Sent
  <2>. QED  BY <1>2, <1>3, <2>2 DEF IInv
<1>6. CASE SendNoticeDone
  <2>1. stage' = "answered" /\ wire' = TheWholeNotice
    BY <1>6, AppendToOne DEF SendNoticeDone, IInv, Sent, TheNotice, TheWholeNotice
  <2>2. Sent'
    BY <1>1, <1>4, <2>1 DEF Sent
  <2>. QED  BY <1>2, <1>3, <2>2 DEF IInv
<1>7. CASE NoticeClosed
  <2>1. stage' = "answered" /\ wire' = wire /\ wire \in {<<>>, TheNotice} /\ client = "gone"
    BY <1>7 DEF NoticeClosed, IInv, Sent, bodyVars
  <2>2. Sent'
    BY <1>1, <1>4, <2>1 DEF Sent
  <2>. QED  BY <1>2, <1>3, <2>2 DEF IInv
<1>. QED  BY <1>5, <1>6, <1>7 DEF Notice
-----------------------------------------------------------------------------
(* The body. *)

\* The reply of ChatStream.
StreamReply == IF pc = "ended" THEN "terminated"
               ELSE IF pc = "closed" THEN "dropped"
               ELSE "open"

\* What ChatStreamProofs says of a step, in terms of the wire.
LEMMA BodySteps ==
  ASSUME Body!IInv, Body!Next
  PROVE  /\ Body!IInv'
         /\ \/ UNCHANGED wire /\ StreamReply' = StreamReply
            \/ /\ StreamReply = "open" /\ StreamReply' = "open"
               /\ ~Contract!NoticeSent
               /\ \E t \in Stream!Texts : wire' = Append(wire, Contract!Message(t))
            \/ /\ StreamReply = "open" /\ StreamReply' = "open"
               /\ wire = <<>> /\ wire' = <<Contract!Notice>>
            \/ /\ StreamReply = "open" /\ StreamReply' = "terminated"
               /\ wire # <<>> /\ wire' = Append(wire, Contract!Done)
            \/ /\ StreamReply = "open" /\ StreamReply' = "terminated"
               /\ ~Contract!NoticeSent
               /\ \E c \in Contract!ErrorClass : wire' = Append(wire, Contract!Error(c))
            \/ /\ StreamReply = "open" /\ StreamReply' = "dropped"
               /\ UNCHANGED wire
<1>1. Body!IInv'
  BY BodyAssumptions, Body!IInvStep
<1>2. [Body!Contract!Next]_(Body!Contract!wireVars)
  BY BodyAssumptions, Body!ContractStep
<1>3. CASE Body!Contract!SendMessage
  BY <1>1, <1>3
  DEF Body!Contract!SendMessage, StreamReply, Stream!Texts, Body!Texts,
      Stream!Attempts, Body!Attempts, Contract!Message, Body!Contract!Message,
      Contract!NoticeSent, Body!Contract!NoticeSent
<1>4. CASE Body!Contract!SendNotice
  BY <1>1, <1>4
  DEF Body!Contract!SendNotice, StreamReply, Stream!NoContext, Body!NoContext,
      Contract!Notice, Body!Contract!Notice
<1>5. CASE Body!Contract!SendDone
  BY <1>1, <1>5
  DEF Body!Contract!SendDone, StreamReply, Contract!Done, Body!Contract!Done
<1>6. CASE Body!Contract!SendError
  BY <1>1, <1>6
  DEF Body!Contract!SendError, StreamReply, Contract!Error, Body!Contract!Error,
      Contract!ErrorClass, Body!Contract!ErrorClass,
      Contract!NoticeSent, Body!Contract!NoticeSent
<1>7. CASE Body!Contract!Drop
  BY <1>1, <1>7 DEF Body!Contract!Drop, StreamReply
<1>8. CASE UNCHANGED Body!Contract!wireVars
  BY <1>1, <1>8 DEF Body!Contract!wireVars, StreamReply
<1>. QED
  BY <1>2, <1>3, <1>4, <1>5, <1>6, <1>7, <1>8 DEF Body!Contract!Next

\* What is appended is where it was appended.
LEMMA AppendedIsThere ==
  ASSUME NEW S, NEW s \in Seq(S), NEW e
  PROVE  /\ \A k \in DOMAIN s : k \in DOMAIN Append(s, e) /\ Append(s, e)[k] = s[k]
         /\ DOMAIN Append(s, e) = DOMAIN s \cup {Len(s) + 1}
         /\ Append(s, e)[Len(s) + 1] = e
OBVIOUS

\* A step of the body is one that ChatStreamProofs has looked at.
LEMMA StreamStep == IInv /\ StreamBody => IInv'
<1>. SUFFICES ASSUME IInv, StreamBody  PROVE IInv'
  OBVIOUS
<1>1. stage = "stream" /\ UNCHANGED handlerVars
  BY DEF StreamBody
<1>2. Body!IInv /\ Body!Next
  BY <1>1, SameStep DEF IInv, Sent
<1>3. Body!IInv'
  BY <1>2, BodySteps
<1>4. wire \in Seq(Body!Contract!WireEvent) /\ client' \in {"here", "gone"}
  BY <1>2, <1>3 DEF Body!IInv, Body!Typing, Body!TypeOK
<1>5. Typing' /\ Progress' /\ Answered'
  BY <1>1, <1>4 DEF IInv, Typing, Progress, Entitled, Answered, handlerVars
<1>6. Sent'
  BY <1>1, <1>3 DEF Sent, handlerVars
<1>7. EndIsTerminal'
  <2>. SUFFICES ASSUME pc' = "ended"
                PROVE  \E k \in DOMAIN wire' : Stream!Contract!IsTerminal(wire'[k])
    BY DEF EndIsTerminal
  <2>1. StreamReply' = "terminated"
    BY DEF StreamReply
  <2>2. CASE UNCHANGED wire /\ StreamReply' = StreamReply
    BY <1>1, <2>1, <2>2 DEF IInv, EndIsTerminal, StreamReply
  <2>3. ASSUME NEW e, e.event \in {"done", "error"}, wire' = Append(wire, e)
        PROVE  \E k \in DOMAIN wire' : Stream!Contract!IsTerminal(wire'[k])
    <3>1. Len(wire) + 1 \in DOMAIN wire' /\ wire'[Len(wire) + 1] = e
      BY <1>4, <2>3, AppendedIsThere
    <3>. QED  BY <2>3, <3>1 DEF Stream!Contract!IsTerminal
  <2>4. Contract!Done.event = "done" /\ \A c : Contract!Error(c).event = "error"
    BY DEF Contract!Done, Contract!Error
  <2>. QED  BY <1>2, <2>1, <2>2, <2>3, <2>4, BodySteps
<1>. QED  BY <1>5, <1>6, <1>7 DEF IInv

\* The client leaves.
LEMMA LeavingStep == IInv /\ ClientLeaves => IInv'
<1>. SUFFICES ASSUME IInv, ClientLeaves  PROVE IInv'
  OBVIOUS
<1>1. /\ UNCHANGED <<handlerVars, bodyVars>> /\ client' = "gone"
      /\ pc' = pc /\ wire' = wire /\ stage' = stage
  BY DEF ClientLeaves, Stream!Disconnect, handlerVars, bodyVars
<1>2. Body!IInv => Body!IInv'
  BY SameStep, BodySteps
<1>3. Typing' /\ Progress' /\ Answered' /\ EndIsTerminal'
  BY <1>1
  DEF IInv, Typing, Progress, Entitled, Answered, EndIsTerminal, handlerVars
<1>4. Untouched' = Untouched
  BY <1>1 DEF Untouched, bodyVars
<1>5. Sent'
  BY <1>1, <1>2, <1>4 DEF IInv, Sent, handlerVars
<1>. QED  BY <1>3, <1>5 DEF IInv

\* Every step of the request keeps the invariant.
LEMMA StepIsGood == IInv /\ [Next]_vars => IInv'
<1>. SUFFICES ASSUME IInv, [Next]_vars  PROVE IInv'
  OBVIOUS
<1>1. CASE UNCHANGED vars
  <2>1. Body!IInv => Body!IInv'
    BY <1>1, BodyUntouched DEF vars
  <2>2. Typing' /\ Progress' /\ Answered' /\ EndIsTerminal'
    BY <1>1 DEF IInv, Typing, Progress, Entitled, Answered, EndIsTerminal,
                vars, handlerVars, bodyVars
  <2>3. Sent'
    BY <1>1, <2>1 DEF IInv, Sent, Untouched, vars, handlerVars, bodyVars
  <2>. QED  BY <2>2, <2>3 DEF IInv
<1>. QED
  BY <1>1, GateStep, EmbedStep, DatabaseStep, NoticeStep, StreamStep,
     LeavingStep DEF Next

\* The inductive invariant holds of every behaviour.
THEOREM Inductive == Spec => []IInv
<1>1. Init => IInv
  BY InitIsGood
<1>2. IInv /\ [Next]_vars => IInv'
  BY StepIsGood
<1>. QED  BY <1>1, <1>2, PTL DEF Spec
-----------------------------------------------------------------------------
(* What follows from it. *)

\* The chat model is called only with grounds: for a request let in and
\* valid, whose best document reaches the threshold.
THEOREM LlmHasGrounds == Spec => []LlmNeedsGrounds
<1>1. IInv => LlmNeedsGrounds
  <2>. SUFFICES ASSUME IInv, open # {} \/ pc # "auth" \/ attempt > 1
                PROVE  /\ request.gate = "open" /\ request.valid
                       /\ found = "enough" /\ stage = "stream"
    BY DEF LlmNeedsGrounds
  <2>1. stage = "stream"
    BY DEF IInv, Sent, Untouched
  <2>2. found = "enough" /\ Entitled
    BY <2>1 DEF IInv, Progress
  <2>3. request.valid
    BY <2>2 DEF Entitled
  <2>. QED  BY <2>1, <2>2, <2>3 DEF Entitled
<1>. QED  BY <1>1, Inductive, PTL

\* An HTTP error is the whole answer, cost no more than it had to, and came
\* no sooner than it had to.
THEOREM StatusesAreEarned == Spec => []StatusIsEarned
<1>1. IInv => StatusIsEarned
  <2>. SUFFICES ASSUME IInv  PROVE StatusIsEarned
    OBVIOUS
  <2>1. status \notin {0, 200} => stage = "answered"
    BY DEF IInv, Answered, Typing, Stage
  <2>2. status \notin {0, 200} => wire = <<>> /\ open = {} /\ pc = "auth"
    BY <2>1 DEF IInv, Sent, Untouched
  <2>3. wire # <<>> => status = 200
    BY DEF IInv, Answered, Sent, Typing, Stage
  <2>4. request.gate # "open" \/ ~request.valid => ~Entitled
    BY DEF Entitled
  <2>5. request.gate # "open" \/ ~request.valid =>
          embedAttempt = 0 /\ found = "unknown" /\ wire = <<>>
    BY <2>3, <2>4 DEF IInv, Progress, Answered
  <2>6. status = 502 /\ embedError \in Stream!Retryable => embedAttempt = MaxAttempts
    BY DEF IInv, Answered
  <2>. QED  BY <2>2, <2>3, <2>5, <2>6 DEF StatusIsEarned
<1>. QED  BY <1>1, Inductive, PTL

\* Every variable of the request keeps its type, the events on the wire
\* among them.
THEOREM TypeCorrect == Spec => []TypeOK
<1>1. IInv => TypeOK
  <2>. SUFFICES ASSUME IInv  PROVE TypeOK
    OBVIOUS
  <2>1. CASE stage \notin {"noticed", "answered"}
    <3>1. Stream!TypeOK
      BY <2>1, SameTypes DEF IInv, Sent, Body!IInv, Body!Typing
    <3>. QED  BY <3>1 DEF IInv, Typing, TypeOK
  <2>2. CASE stage \in {"noticed", "answered"}
    <3>1. Untouched /\ wire \in {<<>>, TheNotice, TheWholeNotice}
      BY <2>2 DEF IInv, Sent
    <3>2. /\ Stream!Contract!Notice \in Stream!Contract!WireEvent
          /\ Stream!Contract!Done \in Stream!Contract!WireEvent
      BY DEF Stream!Contract!Notice, Stream!Contract!Done, Stream!Contract!WireEvent
    <3>3. wire \in Seq(Stream!Contract!WireEvent)
      <4>. DEFINE Events == Stream!Contract!WireEvent
      <4>1. \A a, b \in Events : <<a>> \in Seq(Events) /\ <<a, b>> \in Seq(Events)
        <5>. HIDE DEF Events
        <5>. QED  OBVIOUS
      <4>2. <<>> \in Seq(Events) /\ TheNotice \in Seq(Events)
            /\ TheWholeNotice \in Seq(Events)
        BY <3>2, <4>1 DEF TheNotice, TheWholeNotice
      <4>. HIDE DEF Events
      <4>3. wire \in Seq(Events)
        BY <3>1, <4>2
      <4>. QED  BY <4>3 DEF Events
    <3>4. stopSeen \in BOOLEAN
      BY <3>1 DEF Untouched
    <3>5. Stream!TypeOK
      BY <3>1, <3>3, <3>4, BodyAssumption
      DEF Untouched, IInv, Typing, Stream!TypeOK, Stream!Control, Stream!Attempts
    <3>. QED  BY <3>5 DEF IInv, Typing, TypeOK
  <2>. QED  BY <2>1, <2>2
<1>. QED  BY <1>1, Inductive, PTL
-----------------------------------------------------------------------------
(* The guard. *)

\* The guard answers only where the search found no grounds.
NoticeHasReason ==
  stage \in {"notice", "noticed"} \/ (stage = "answered" /\ status = 200) =>
    found \in {"none", "below"}

\* No step leads to the guard's answer without that.
LEMMA ReasonStep == IInv /\ NoticeHasReason /\ [Next]_vars => NoticeHasReason'
<1>. SUFFICES ASSUME IInv, NoticeHasReason, [Next]_vars  PROVE NoticeHasReason'
  OBVIOUS
<1>. USE DEF NoticeHasReason
<1>1. CASE Gate
  BY <1>1 DEF Gate, Answer
<1>2. CASE Embed
  BY <1>2 DEF Embed, EmbedReturns, EmbedWrongDimension, EmbedFails, EmbedTimesOut,
              EmbedAttemptFails, EmbedTokenFails, EmbedNextAttempt, Answer
<1>3. CASE Database
  BY <1>3 DEF Database, SearchFails, SearchReturns, PropertiesFail,
              PropertiesReturn, Answer
<1>4. CASE Notice
  BY <1>4 DEF Notice, SendNotice, SendNoticeDone, NoticeClosed
<1>5. CASE StreamBody \/ ClientLeaves \/ UNCHANGED vars
  BY <1>5 DEF StreamBody, ClientLeaves, handlerVars, vars
<1>. QED  BY <1>1, <1>2, <1>3, <1>4, <1>5 DEF Next

\* A question with grounds is never answered with the notice.
THEOREM NoticesHaveReasons == Spec => []NoticeHasReason
<1>1. Init => NoticeHasReason
  BY DEF Init, NoticeHasReason
<1>. QED  BY <1>1, ReasonStep, Inductive, PTL DEF Spec
-----------------------------------------------------------------------------
(* Either body implements the wire contract. *)

SomethingTerminal == \E k \in DOMAIN wire : Stream!Contract!IsTerminal(wire[k])

\* Which of the guard's replies are complete.
LEMMA NoticesAreNotTerminal ==
  /\ wire = <<>> => ~SomethingTerminal
  /\ wire = TheNotice => ~SomethingTerminal
  /\ wire = TheWholeNotice => SomethingTerminal
<1>1. /\ ~Stream!Contract!IsTerminal(Stream!Contract!Notice)
      /\ Stream!Contract!IsTerminal(Stream!Contract!Done)
  BY DEF Stream!Contract!IsTerminal, Stream!Contract!Notice, Stream!Contract!Done
<1>2. ASSUME wire = TheNotice  PROVE ~SomethingTerminal
  <2>1. DOMAIN wire = {1} /\ wire[1] = Stream!Contract!Notice
    BY <1>2 DEF TheNotice
  <2>. QED  BY <1>1, <2>1 DEF SomethingTerminal
<1>3. ASSUME wire = TheWholeNotice  PROVE SomethingTerminal
  <2>1. 2 \in DOMAIN wire /\ wire[2] = Stream!Contract!Done
    BY <1>3 DEF TheWholeNotice
  <2>. QED  BY <1>1, <2>1 DEF SomethingTerminal
<1>. QED  BY <1>2, <1>3 DEF SomethingTerminal

\* Reply at every stage.
ReplyFollowsStage ==
  /\ stage = "stream" => Reply = StreamReply
  /\ stage \notin {"stream", "answered"} => Reply = "open"
  /\ stage = "answered" =>
       Reply = IF wire = TheWholeNotice THEN "terminated" ELSE "dropped"

\* What has been sent is known from the stage.
LEMMA Replies == IInv => ReplyFollowsStage
<1>. SUFFICES ASSUME IInv  PROVE ReplyFollowsStage
  OBVIOUS
<1>. USE DEF ReplyFollowsStage
<1>1. CASE stage = "stream"
  <2>1. pc = "ended" => SomethingTerminal
    BY <1>1 DEF IInv, EndIsTerminal, SomethingTerminal
  <2>2. pc # "ended" => ~SomethingTerminal
    BY <1>1 DEF IInv, Sent, Body!IInv, Body!MessagesFirst, Body!IsMessage,
                SomethingTerminal, Stream!Contract!IsTerminal
  <2>. QED  BY <1>1, <2>1, <2>2 DEF Reply, StreamReply, SomethingTerminal
<1>2. CASE stage \notin {"stream", "answered"}
  <2>1. wire \in {<<>>, TheNotice} /\ pc = "auth"
    BY <1>2 DEF IInv, Sent, Untouched
  <2>. QED
    BY <1>2, <2>1, NoticesAreNotTerminal DEF Reply, SomethingTerminal
<1>3. CASE stage = "answered"
  <2>1. /\ wire \in {<<>>, TheNotice, TheWholeNotice} /\ pc = "auth"
        /\ wire = TheWholeNotice \/ client = "gone" \/ status # 200
    BY <1>3 DEF IInv, Sent, Untouched
  <2>. QED
    BY <1>3, <2>1, NoticesAreNotTerminal DEF Reply, SomethingTerminal
<1>. QED  BY <1>1, <1>2, <1>3

\* Every step of the request is one of the contract, or none.
LEMMA ContractStep ==
  ASSUME IInv, [Next]_vars
  PROVE  [Contract!Next]_(Contract!wireVars)
<1>. USE DEF Contract!wireVars
<1>1. IInv'
  BY StepIsGood
<1>2. ReplyFollowsStage'
  BY <1>1, Replies, PTL
<1>. USE DEF ReplyFollowsStage
<1>3. CASE StreamBody
  <2>1. stage = "stream" /\ stage' = "stream" /\ Body!IInv /\ Body!Next
    BY <1>3, SameStep DEF StreamBody, handlerVars, IInv, Sent
  <2>2. Reply = StreamReply /\ Reply' = StreamReply'
    BY <1>2, <2>1, Replies
  <2>. QED
    BY <2>1, <2>2, BodySteps
    DEF Contract!Next, Contract!SendMessage, Contract!SendNotice,
        Contract!SendDone, Contract!SendError, Contract!Drop
<1>4. CASE ClientLeaves \/ UNCHANGED vars
  <2>1. UNCHANGED <<stage, wire, pc>>
    BY <1>4 DEF ClientLeaves, Stream!Disconnect, handlerVars, bodyVars, vars
  <2>. QED  BY <1>2, <2>1, Replies DEF StreamReply
<1>5. CASE Gate \/ Embed \/ Database
  <2>1. /\ stage \notin {"stream", "noticed", "answered"}
        /\ UNCHANGED <<wire, pc>> /\ wire = <<>>
    BY <1>5
    DEF IInv, Sent, bodyVars,
        Gate, Embed, EmbedReturns, EmbedWrongDimension, EmbedFails,
        EmbedTimesOut, EmbedAttemptFails, EmbedTokenFails, EmbedNextAttempt,
        Database, SearchFails, SearchReturns, PropertiesFail, PropertiesReturn
  <2>2. Reply = "open" /\ Reply' \in {"open", "dropped"}
    <3>1. pc' = "auth" /\ wire' # TheWholeNotice
      BY <2>1 DEF IInv, Sent, Untouched, TheWholeNotice
    <3>. QED  BY <1>2, <2>1, <3>1, Replies DEF StreamReply
  <2>. QED  BY <2>1, <2>2 DEF Contract!Next, Contract!Drop
<1>6. CASE SendNotice
  <2>1. Reply = "open" /\ Reply' = "open" /\ wire = <<>>
    BY <1>2, <1>6, Replies DEF SendNotice, IInv, Sent
  <2>2. wire' = <<Contract!Notice>>
    BY <1>6, <2>1 DEF SendNotice, Stream!Contract!Notice, Contract!Notice
  <2>. QED  BY <2>1, <2>2 DEF Contract!Next, Contract!SendNotice
<1>7. CASE SendNoticeDone
  <2>1. stage = "noticed" /\ stage' = "answered" /\ wire = TheNotice
        /\ wire' = Append(wire, Stream!Contract!Done)
    BY <1>7 DEF SendNoticeDone, IInv, Sent
  <2>2. wire' = TheWholeNotice /\ wire # <<>>
    BY <2>1, AppendToOne DEF TheNotice, TheWholeNotice
  <2>3. Reply = "open" /\ Reply' = "terminated"
    BY <1>2, <2>1, <2>2, Replies
  <2>. QED
    BY <2>1, <2>2, <2>3
    DEF Contract!Next, Contract!SendDone, Stream!Contract!Done, Contract!Done
<1>8. CASE NoticeClosed
  <2>1. /\ stage \in {"notice", "noticed"} /\ stage' = "answered"
        /\ wire' = wire /\ wire \in {<<>>, TheNotice}
    BY <1>8 DEF NoticeClosed, IInv, Sent, bodyVars
  <2>2. wire' # TheWholeNotice
    BY <2>1 DEF TheNotice, TheWholeNotice
  <2>3. Reply = "open" /\ Reply' = "dropped"
    BY <1>2, <2>1, <2>2, Replies
  <2>. QED  BY <2>1, <2>3 DEF Contract!Next, Contract!Drop
<1>. QED
  BY <1>3, <1>4, <1>5, <1>6, <1>7, <1>8 DEF Next, Notice

\* Whatever happens to the request, and whichever body answers it, the wire
\* carries what the contract of POST /chat allows.
THEOREM ContractRespected == Spec => RespectsContract
<1>1. Init => Contract!Init
  <2>. SUFFICES ASSUME Init  PROVE Contract!Init
    OBVIOUS
  <2>1. wire = <<>> /\ stage = "gate"
    BY DEF Init, Stream!Init
  <2>. QED  BY <2>1, InitIsGood, Replies DEF Contract!Init, ReplyFollowsStage
<1>2. IInv /\ [Next]_vars => [Contract!Next]_(Contract!wireVars)
  BY ContractStep
<1>. QED
  BY <1>1, <1>2, Inductive, PTL DEF Spec, RespectsContract, Contract!SafeSpec

\* The contract, with its theorem.
Kept == INSTANCE WireContractProofs
          WITH Texts <- Stream!Texts, NoContext <- Stream!NoContext,
               reply <- Reply

\* Of either body a client receives at most one of the three replies that
\* decision 2 of ADR-0028 allows: one terminal event, last, and no notice
\* but alone.
THEOREM RepliesAreGrammatical == Spec => []Contract!Grammar
<1>1. Contract!Init => Kept!Init
  BY DEF Contract!Init, Kept!Init
<1>2. [Contract!Next]_(Contract!wireVars) => [Kept!Next]_(Kept!wireVars)
  BY DEF Contract!wireVars, Kept!wireVars,
         Contract!Next, Contract!SendMessage, Contract!SendNotice,
         Contract!SendDone, Contract!SendError, Contract!Drop,
         Contract!NoticeSent, Contract!Message, Contract!Notice,
         Contract!Done, Contract!Error, Contract!ErrorClass,
         Kept!Next, Kept!SendMessage, Kept!SendNotice, Kept!SendDone,
         Kept!SendError, Kept!Drop, Kept!NoticeSent, Kept!Message,
         Kept!Notice, Kept!Done, Kept!Error, Kept!ErrorClass
<1>3. Kept!Grammar => Contract!Grammar
  BY DEF Kept!Grammar, Kept!IsTerminal, Kept!NoticeSent,
         Contract!Grammar, Contract!IsTerminal, Contract!NoticeSent
<1>4. Kept!SafeSpec => []Kept!Grammar
  BY Kept!GrammarKept
<1>. QED
  BY <1>1, <1>2, <1>3, <1>4, ContractRespected, PTL
  DEF RespectsContract, Contract!SafeSpec, Kept!SafeSpec
=============================================================================
