-------------------------- MODULE ChatStreamProofs --------------------------
(* Theorems about ChatStream, for every value of its constants. *)
EXTENDS ChatStream, TLAPS

-----------------------------------------------------------------------------
(* What _convert does with a payload. *)

LEMMA ConvertReadsTable ==
  ASSUME NEW p \in Arrival, NEW s \in BOOLEAN
  PROVE  /\ Convert(p, s) \in {"skip", "text", "stop", "return", "crash",
                               "server_error", "content_filter", "timeout"}
         /\ Convert(p, s) = "text" <=> CarriesText(p)
         /\ Convert(p, s) = "content_filter" <=> Condemns(p)
         /\ Convert(p, s) = "return" <=> (p.kind = "done" /\ s)
         /\ Convert(p, s) = "stop" => (p.kind = "choice" /\ p.finish = "stop")
<1>1. CASE p \in Payload
  <2>1. CASE p.kind = "choice"
    <3>1. /\ Convert(p, s) = ConvertChoice(p)
          /\ CarriesText(p) <=> ConvertChoice(p) = "text"
      BY <2>1 DEF Convert, CarriesText
    <3>2. /\ p.error \in BOOLEAN
          /\ p.finish \in {"none", "stop", "content_filter", "other"}
          /\ p.delta \in {"text", "blank", "annotation", "unknown"}
      BY <1>1 DEF Payload, Finish, Delta
    <3>3. ConvertDelta(p) \in {"skip", "text", "server_error"}
      BY <3>2 DEF ConvertDelta
    <3>4. CASE p.error \/ p.finish = "content_filter"
      BY <2>1, <3>1, <3>2, <3>4 DEF ConvertChoice, Condemns
    <3>5. CASE ~p.error /\ p.finish = "stop"
      BY <2>1, <3>1, <3>2, <3>5 DEF ConvertChoice, Condemns
    <3>6. CASE ~p.error /\ p.finish = "other"
      BY <2>1, <3>1, <3>2, <3>6 DEF ConvertChoice, Condemns
    <3>7. CASE ~p.error /\ p.finish = "none"
      BY <2>1, <3>1, <3>2, <3>3, <3>7 DEF ConvertChoice, Condemns
    <3>. QED  BY <3>2, <3>4, <3>5, <3>6, <3>7
  <2>2. CASE p.kind # "choice"
    BY <1>1, <2>2 DEF Payload, Convert, CarriesText, Condemns
  <2>. QED  BY <2>1, <2>2
<1>2. CASE p \in [kind : {"eof", "broken", "http_timeout", "undecodable"}]
  BY <1>2 DEF Convert, CarriesText, Condemns
<1>. QED  BY <1>1, <1>2 DEF Arrival
-----------------------------------------------------------------------------
(* Type correctness. *)

LEMMA EventTypes ==
  /\ \A c \in ErrorClass : Contract!Error(c) \in Contract!WireEvent
  /\ \A t \in Texts : Contract!Message(t) \in Contract!WireEvent
  /\ Contract!Done \in Contract!WireEvent
BY DEF ErrorClass, Contract!Error, Contract!Message, Contract!Done,
       Contract!WireEvent, Contract!ErrorClass

LEMMA AttemptFailsType ==
  ASSUME TypeOK, NEW e \in ErrorClass, AttemptFails(e)
  PROVE  /\ pc' \in Control
         /\ open' \subseteq Attempts
         /\ lastError' \in ErrorClass
         /\ wire' \in Seq(Contract!WireEvent)
         /\ attempt' = attempt
         /\ client' = client
<1>1. wire' \in Seq(Contract!WireEvent)
  <2>1. Contract!Error(e) \in Contract!WireEvent
    BY EventTypes
  <2>2. wire \in Seq(Contract!WireEvent)
    BY DEF TypeOK
  <2>3. wire' = wire \/ wire' = Append(wire, Contract!Error(e))
    BY DEF AttemptFails, SendTerminal
  <2>. QED  BY <2>1, <2>2, <2>3
<1>2. pc' \in Control
  BY DEF AttemptFails, SendTerminal, Control
<1>3. /\ open' \subseteq Attempts
      /\ lastError' \in ErrorClass
      /\ attempt' = attempt
      /\ client' = client
  BY DEF AttemptFails, CloseUpstream, TypeOK
<1>. QED  BY <1>1, <1>2, <1>3

\* A retry is still within the budget.
RetryLeft == pc = "backoff" => attempt < MaxAttempts

Typing == TypeOK /\ RetryLeft

LEMMA TypingInit == Init => Typing
<1>. SUFFICES ASSUME Init  PROVE Typing
  OBVIOUS
<1>1. stopSeen \in BOOLEAN
  BY DEF Init
<1>2. /\ pc \in Control
      /\ attempt \in Attempts
      /\ log \in Seq(Arrival)
      /\ Len(log) \in 0..(MaxArrivals + 1)
      /\ pos \in 0..Len(log)
      /\ open \subseteq Attempts
      /\ lastError \in ErrorClass \cup {"none"}
      /\ wire \in Seq(Contract!WireEvent)
      /\ client \in {"here", "gone"}
  BY AttemptsAssumption, ProviderAssumption DEF Init, Control, Attempts
<1>3. RetryLeft
  BY DEF Init, RetryLeft
<1>. QED  BY <1>1, <1>2, <1>3 DEF Typing, TypeOK

LEMMA TypingStep == Typing /\ [Next]_vars => Typing'
<1>. SUFFICES ASSUME Typing, [Next]_vars  PROVE Typing'
  OBVIOUS
<1>a. TypeOK /\ RetryLeft
  BY DEF Typing
<1>b. \A e \in ErrorClass : AttemptFails(e) => RetryLeft'
  BY <1>a DEF AttemptFails, SendTerminal, RetryLeft, TypeOK
<1>c. {"timeout", "rate_limit", "server_error", "bad_request",
       "content_filter"} \subseteq ErrorClass
  BY DEF ErrorClass, Contract!ErrorClass
<1>1. CASE TokenReady
  BY <1>a, <1>1 DEF TokenReady, Control, TypeOK, RetryLeft, Typing
<1>2. CASE TokenFails
  BY <1>a, <1>2 DEF TokenFails, Crash, CloseUpstream, Control,
                    TypeOK, RetryLeft, Typing
<1>3. CASE ResponseAccepted
  BY <1>a, <1>3 DEF ResponseAccepted, Control, TypeOK, RetryLeft, Typing
<1>4. CASE ResponseRefused
  <2>1. PICK e \in ErrorClass : AttemptFails(e)
    BY <1>4, <1>c DEF ResponseRefused
  <2>2. UNCHANGED <<log, pos, stopSeen>>
    BY <1>4 DEF ResponseRefused
  <2>. QED
    BY <1>a, <1>b, <2>1, <2>2, AttemptFailsType DEF Typing, TypeOK
<1>5. CASE FirstDeltaTimeout
  <2>1. AttemptFails("timeout") /\ UNCHANGED <<log, pos, stopSeen>>
    BY <1>5 DEF FirstDeltaTimeout
  <2>. QED
    BY <1>a, <1>b, <1>c, <2>1, AttemptFailsType DEF Typing, TypeOK
<1>6. CASE NextAttempt
  <2>1. attempt' \in Attempts
    BY <1>a, <1>6, AttemptsAssumption
       DEF NextAttempt, RetryLeft, TypeOK, Attempts
  <2>2. stopSeen' \in BOOLEAN
    BY <1>6 DEF NextAttempt
  <2>3. /\ pc' \in Control
        /\ log' \in Seq(Arrival)
        /\ Len(log') \in 0..(MaxArrivals + 1)
        /\ pos' \in 0..Len(log')
    BY <1>6, ProviderAssumption DEF NextAttempt, Control
  <2>4. UNCHANGED <<open, lastError, wire, client>>
    BY <1>6 DEF NextAttempt
  <2>5. RetryLeft'
    BY <1>6 DEF NextAttempt, RetryLeft
  <2>. QED
    BY <1>a, <2>1, <2>2, <2>3, <2>4, <2>5 DEF Typing, TypeOK
<1>7. CASE Read
  <2>1. /\ pos' \in 0..Len(log')
        /\ log' = log
        /\ pos + 1 \in 1..(MaxArrivals + 1)
        /\ pc \in Reading
    BY <1>a, <1>7, ProviderAssumption
       DEF Read, ReadSkipped, ReadStop, ReadText, ReadDone, ReadError,
           ReadUndecodable, Converts, TypeOK
  <2>2. stopSeen' \in BOOLEAN
    BY <1>a, <1>7
       DEF Read, ReadSkipped, ReadStop, ReadText, ReadDone, ReadError,
           ReadUndecodable, TypeOK
  <2>3. /\ pc' \in Control
        /\ open' \subseteq Attempts
        /\ lastError' \in ErrorClass \cup {"none"}
        /\ wire' \in Seq(Contract!WireEvent)
        /\ attempt' = attempt
        /\ client' = client
        /\ RetryLeft'
    <3>1. CASE ReadSkipped \/ ReadStop
      BY <1>a, <3>1 DEF ReadSkipped, ReadStop, TypeOK, RetryLeft
    <3>2. CASE ReadText
      <4>1. Contract!Message(<<attempt, pos + 1>>) \in Contract!WireEvent
        BY <1>a, <2>1, EventTypes DEF TypeOK, Texts
      <4>. QED
        BY <1>a, <4>1, <3>2 DEF ReadText, TypeOK, RetryLeft, Control
    <3>3. CASE ReadDone
      <4>1. CASE pc = "first"
        <5>1. AttemptFails("server_error")
          BY <3>3, <4>1 DEF ReadDone
        <5>. QED  BY <1>a, <1>b, <1>c, <5>1, AttemptFailsType
      <4>2. CASE pc # "first"
        <5>1. /\ CloseUpstream
              /\ SendTerminal(Contract!Done)
              /\ UNCHANGED <<attempt, lastError, client>>
          BY <3>3, <4>2 DEF ReadDone
        <5>. QED
          BY <1>a, <5>1, EventTypes
             DEF CloseUpstream, SendTerminal, TypeOK, RetryLeft, Control
      <4>. QED  BY <4>1, <4>2
    <3>4. CASE ReadError
      <4>1. PICK e \in ErrorClass :
               IF pc = "first" THEN AttemptFails(e) ELSE RelayFails(e)
        BY <1>c, <3>4 DEF ReadError
      <4>2. CASE pc = "first"
        BY <1>a, <1>b, <4>1, <4>2, AttemptFailsType
      <4>3. CASE pc # "first"
        <5>1. Contract!Error(e) \in Contract!WireEvent
          BY EventTypes
        <5>2. wire' \in Seq(Contract!WireEvent)
          BY <1>a, <4>1, <4>3, <5>1 DEF RelayFails, SendTerminal, TypeOK
        <5>3. pc' = "ended"
          BY <4>1, <4>3 DEF RelayFails, SendTerminal
        <5>4. /\ open' \subseteq Attempts
              /\ lastError' \in ErrorClass
              /\ attempt' = attempt
              /\ client' = client
          BY <1>a, <4>1, <4>3 DEF RelayFails, CloseUpstream, TypeOK
        <5>. QED  BY <5>2, <5>3, <5>4 DEF Control, RetryLeft
      <4>. QED  BY <4>2, <4>3
    <3>5. CASE ReadUndecodable
      BY <1>a, <3>5
         DEF ReadUndecodable, Crash, CloseUpstream, TypeOK, RetryLeft, Control
    <3>. QED  BY <1>7, <3>1, <3>2, <3>3, <3>4, <3>5 DEF Read
  <2>. QED
    BY <1>a, <2>1, <2>2, <2>3 DEF Typing, TypeOK
<1>8. CASE ProviderSends
  <2>1. PICK a \in Arrival : log' = Append(log, a)
    BY <1>8, ProviderAssumption DEF ProviderSends, EndOfBody, Arrival
  <2>2. /\ log' \in Seq(Arrival)
        /\ Len(log') = Len(log) + 1
    BY <1>a, <2>1 DEF TypeOK
  <2>3. /\ Len(log') \in 0..(MaxArrivals + 1)
        /\ pos \in 0..Len(log')
    BY <1>a, <1>8, <2>2, ProviderAssumption DEF ProviderSends, TypeOK
  <2>4. UNCHANGED <<pc, attempt, pos, stopSeen, open, lastError, wire, client>>
    BY <1>8 DEF ProviderSends
  <2>. QED
    BY <1>a, <2>2, <2>3, <2>4 DEF Typing, TypeOK, RetryLeft
<1>9. CASE Disconnect
  BY <1>a, <1>9 DEF Disconnect, TypeOK, RetryLeft, Typing
<1>10. CASE ChainClosed
  BY <1>a, <1>10
     DEF ChainClosed, CloseUpstream, Control, TypeOK, RetryLeft, Typing
<1>11. CASE UNCHANGED vars
  BY <1>a, <1>11 DEF vars, TypeOK, RetryLeft, Typing
<1>. QED
  BY <1>1, <1>2, <1>3, <1>4, <1>5, <1>6, <1>7, <1>8, <1>9, <1>10, <1>11
     DEF Next

\* Every variable keeps its type, and no attempt beyond MaxAttempts is made.
THEOREM TypeCorrect == Spec => []TypeOK
<1>1. Init => Typing
  BY TypingInit
<1>2. Typing /\ [Next]_vars => Typing'
  BY TypingStep
<1>3. Typing => TypeOK
  BY DEF Typing
<1>. QED  BY <1>1, <1>2, <1>3, PTL DEF Spec
-----------------------------------------------------------------------------
(* The inductive invariant. *)

\* Nothing is sent before the first delta, and something once it is relayed.
Quiet    == pc \in {"auth", "connect", "first", "backoff"} => wire = <<>>
Relaying == pc = "relay" => wire # <<>>

\* Only the last event of an ended reply is not a message.
MessagesFirst ==
  \A k \in DOMAIN wire : IsMessage(k) \/ (pc = "ended" /\ k = Len(wire))

\* stopSeen remembers a payload that finished with stop.
StopRemembered ==
  stopSeen => \E i \in 1..pos : /\ log[i].kind = "choice"
                                /\ log[i].finish = "stop"

\* What the chain has consumed without ending passed the content filter.
NotCondemned == pc # "ended" => \A i \in 1..pos : ~Condemns(log[i])

BackoffIsRetryable == pc = "backoff" => lastError \in Retryable

IInv == /\ Typing
        /\ Quiet
        /\ Relaying
        /\ MessagesFirst
        /\ StopRemembered
        /\ NotCondemned
        /\ BackoffIsRetryable
        /\ RelayIsExact
        /\ DoneIsEarned
        /\ FilterFailsClosed
        /\ UpstreamReleased
        /\ RetryBudgetIsUsed

LEMMA IInvInit == Init => IInv
<1>. SUFFICES ASSUME Init  PROVE IInv
  OBVIOUS
<1>1. Typing
  BY TypingInit
<1>2. /\ wire = <<>>
      /\ DOMAIN wire = {}
      /\ pos = 0
      /\ pc = "auth"
      /\ open = {}
  BY DEF Init
<1>3. StopRemembered
  BY DEF Init, StopRemembered
<1>4. NotCondemned /\ FilterFailsClosed /\ DoneIsEarned
  BY <1>2 DEF NotCondemned, FilterFailsClosed, DoneIsEarned
<1>5. RelayIsExact
  BY <1>2 DEF RelayIsExact
<1>6. Quiet /\ Relaying /\ MessagesFirst /\ BackoffIsRetryable
  BY <1>2 DEF Quiet, Relaying, MessagesFirst, BackoffIsRetryable
<1>7. UpstreamReleased /\ RetryBudgetIsUsed
  BY <1>2 DEF UpstreamReleased, RetryBudgetIsUsed
<1>. QED  BY <1>1, <1>3, <1>4, <1>5, <1>6, <1>7 DEF IInv

\* A step that changes neither what was sent nor what was consumed, and does
\* not end the reply, keeps everything that relates the two.
LEMMA SilentStep ==
  ASSUME IInv, Typing',
         UNCHANGED <<attempt, wire>>,
         pc' # "ended", pc # "ended",
         pos' \in {pos, pos + 1},
         pos' \in 0..Len(log),
         \A i \in 1..pos : log'[i] = log[i],
         pos' = pos + 1 => /\ log' = log
                           /\ ~CarriesText(log[pos + 1])
                           /\ ~Condemns(log[pos + 1])
  PROVE  /\ MessagesFirst'
         /\ NotCondemned'
         /\ RelayIsExact'
         /\ DoneIsEarned'
         /\ FilterFailsClosed'
         /\ RetryBudgetIsUsed'
<1>. USE DEF IInv
<1>0. pos \in Nat /\ pos' \in Nat
  BY DEF Typing, TypeOK
<1>1. \A i \in 1..pos' : i \in 1..pos \/ (pos' = pos + 1 /\ i = pos + 1)
  BY <1>0
<1>2. \A i \in 1..pos : i \in 1..pos'
  BY <1>0
<1>3. MessagesFirst'
  BY DEF MessagesFirst, IsMessage
<1>4. NotCondemned'
  BY <1>0, <1>1 DEF NotCondemned
<1>5. RelayIsExact'
  <2>1. \A k \in DOMAIN wire : IsMessage(k)' => IsMessage(k)
    BY DEF IsMessage
  <2>2. \A k \in DOMAIN wire' : IsMessage(k)' =>
          \E i \in 1..pos' : /\ CarriesText(log[i])'
                             /\ wire'[k].text = <<attempt', i>>
    BY <1>2 DEF RelayIsExact, IsMessage, CarriesText
  <2>3. \A i \in 1..pos' : CarriesText(log[i])' =>
          \E k \in DOMAIN wire' : /\ IsMessage(k)'
                                  /\ wire'[k].text = <<attempt', i>>
    BY <1>1 DEF RelayIsExact, IsMessage, CarriesText
  <2>4. \A j, k \in DOMAIN wire' :
          (j < k /\ IsMessage(j)' /\ IsMessage(k)') =>
             wire'[j].text[2] < wire'[k].text[2]
    BY DEF RelayIsExact, IsMessage
  <2>. QED  BY <2>2, <2>3, <2>4 DEF RelayIsExact
<1>6. DoneIsEarned'
  BY DEF MessagesFirst, IsMessage, DoneIsEarned
<1>7. FilterFailsClosed'
  BY <1>4 DEF NotCondemned, FilterFailsClosed
<1>8. RetryBudgetIsUsed'
  BY DEF RetryBudgetIsUsed
<1>. QED  BY <1>3, <1>4, <1>5, <1>6, <1>7, <1>8

\* A step that ends the reply with the terminal event t.
LEMMA EndStep ==
  ASSUME IInv, Typing',
         NEW t, t.event \in {"done", "error"},
         wire' = Append(wire, t),
         attempt' = attempt, log' = log,
         pc # "ended", pc' = "ended",
         pos' \in {pos, pos + 1},
         pos' \in 0..Len(log),
         pos' = pos + 1 => ~CarriesText(log[pos + 1])
  PROVE  /\ MessagesFirst'
         /\ NotCondemned'
         /\ RelayIsExact'
         /\ Len(wire') = Len(wire) + 1
         /\ wire'[Len(wire')] = t
         /\ \A k \in DOMAIN wire : wire'[k] = wire[k] /\ IsMessage(k)
<1>. USE DEF IInv
<1>0. pos \in Nat /\ pos' \in Nat /\ wire \in Seq(Contract!WireEvent)
  BY DEF Typing, TypeOK
<1>1. /\ Len(wire') = Len(wire) + 1
      /\ DOMAIN wire = 1..Len(wire)
      /\ DOMAIN wire' = 1..(Len(wire) + 1)
      /\ Len(wire) \in Nat
      /\ wire'[Len(wire')] = t
      /\ \A k \in DOMAIN wire : wire'[k] = wire[k]
  BY <1>0
<1>2. \A k \in DOMAIN wire : IsMessage(k) /\ IsMessage(k)'
  BY <1>1 DEF MessagesFirst, IsMessage
<1>3. \A k \in DOMAIN wire' : IsMessage(k)' => k \in DOMAIN wire
  BY <1>1 DEF IsMessage
<1>4. MessagesFirst'
  BY <1>1, <1>2 DEF MessagesFirst
<1>5. NotCondemned'
  BY DEF NotCondemned
<1>6. RelayIsExact'
  <2>1. \A k \in DOMAIN wire' : IsMessage(k)' =>
          \E i \in 1..pos' : /\ CarriesText(log[i])'
                             /\ wire'[k].text = <<attempt', i>>
    <3>. SUFFICES ASSUME NEW k \in DOMAIN wire', IsMessage(k)'
                  PROVE  \E i \in 1..pos' : /\ CarriesText(log[i])'
                                            /\ wire'[k].text = <<attempt', i>>
      OBVIOUS
    <3>1. k \in DOMAIN wire /\ IsMessage(k) /\ wire'[k] = wire[k]
      BY <1>1, <1>2, <1>3
    <3>2. PICK i \in 1..pos : CarriesText(log[i]) /\ wire[k].text = <<attempt, i>>
      BY <3>1 DEF RelayIsExact
    <3>3. i \in 1..pos'
      BY <1>0, <3>2
    <3>. QED  BY <3>1, <3>2, <3>3 DEF CarriesText
  <2>2. \A i \in 1..pos' : CarriesText(log[i])' =>
          \E k \in DOMAIN wire' : /\ IsMessage(k)'
                                  /\ wire'[k].text = <<attempt', i>>
    <3>. SUFFICES ASSUME NEW i \in 1..pos', CarriesText(log[i])'
                  PROVE  \E k \in DOMAIN wire' : /\ IsMessage(k)'
                                                 /\ wire'[k].text = <<attempt', i>>
      OBVIOUS
    <3>1. i \in 1..pos /\ CarriesText(log[i])
      BY <1>0 DEF CarriesText
    <3>2. PICK k \in DOMAIN wire : IsMessage(k) /\ wire[k].text = <<attempt, i>>
      BY <3>1 DEF RelayIsExact
    <3>3. k \in DOMAIN wire' /\ wire'[k] = wire[k] /\ IsMessage(k)'
      BY <1>1, <1>2, <3>2
    <3>. QED  BY <3>2, <3>3
  <2>3. \A j, k \in DOMAIN wire' :
          (j < k /\ IsMessage(j)' /\ IsMessage(k)') =>
             wire'[j].text[2] < wire'[k].text[2]
    BY <1>1, <1>2, <1>3 DEF RelayIsExact
  <2>. QED  BY <2>1, <2>2, <2>3 DEF RelayIsExact
<1>. QED  BY <1>1, <1>2, <1>4, <1>5, <1>6

\* An attempt that fails before the first delta: nothing was sent.
LEMMA AttemptFailsSafe ==
  ASSUME IInv, Typing',
         NEW e \in ErrorClass, AttemptFails(e),
         pc \in Connecting,
         log' = log, stopSeen' = stopSeen,
         pos' \in {pos, pos + 1},
         pos' \in 0..Len(log),
         pos' = pos => e # "content_filter",
         pos' = pos + 1 => /\ ~CarriesText(log[pos + 1])
                           /\ Condemns(log[pos + 1]) => e = "content_filter"
  PROVE  IInv'
<1>. USE DEF IInv
<1>0. /\ pos \in Nat /\ pos' \in Nat
      /\ wire = <<>>
      /\ pc # "ended"
      /\ attempt' = attempt
      /\ attempt \in 1..MaxAttempts
      /\ MaxAttempts \in Nat
  BY AttemptsAssumption
     DEF Typing, TypeOK, Quiet, Connecting, AttemptFails, Attempts
<1>1. StopRemembered'
  BY <1>0 DEF StopRemembered
<1>2. UpstreamReleased'
  BY <1>0 DEF UpstreamReleased, AttemptFails, CloseUpstream
<1>3. CASE e \in Retryable /\ attempt < MaxAttempts
  <2>1. pc' = "backoff" /\ wire' = wire /\ lastError' = e
    BY <1>3 DEF AttemptFails
  <2>2. e # "content_filter"
    BY <1>3 DEF Retryable
  <2>3. /\ MessagesFirst' /\ NotCondemned' /\ RelayIsExact'
        /\ DoneIsEarned' /\ FilterFailsClosed' /\ RetryBudgetIsUsed'
    BY <1>0, <2>1, <2>2, SilentStep
  <2>4. Quiet' /\ Relaying' /\ BackoffIsRetryable'
    BY <1>0, <1>3, <2>1 DEF Quiet, Relaying, BackoffIsRetryable
  <2>. QED  BY <1>1, <1>2, <2>3, <2>4
<1>4. CASE ~(e \in Retryable /\ attempt < MaxAttempts)
  <2>1. pc' = "ended" /\ wire' = Append(wire, Contract!Error(e))
    BY <1>4 DEF AttemptFails, SendTerminal
  <2>2. /\ Contract!Error(e).event = "error"
        /\ Contract!Error(e).class = e
    BY DEF Contract!Error
  <2>3. /\ MessagesFirst' /\ NotCondemned' /\ RelayIsExact'
        /\ Len(wire') = Len(wire) + 1
        /\ wire'[Len(wire')] = Contract!Error(e)
    BY <1>0, <2>1, <2>2, EndStep
  <2>4. Len(wire') = 1 /\ DOMAIN wire' = {1} /\ wire'[1] = Contract!Error(e)
    BY <1>0, <2>1
  <2>5. DoneIsEarned'
    BY <2>2, <2>4 DEF DoneIsEarned
  <2>6. FilterFailsClosed'
    <3>1. \A i \in 1..pos' : Condemns(log[i]) => e = "content_filter"
      BY <1>0 DEF NotCondemned
    <3>. QED  BY <2>1, <2>4, <3>1 DEF FilterFailsClosed, Condemns
  <2>7. RetryBudgetIsUsed'
    BY <1>0, <1>4, <2>2, <2>4 DEF RetryBudgetIsUsed
  <2>8. Quiet' /\ Relaying' /\ BackoffIsRetryable'
    BY <2>1 DEF Quiet, Relaying, BackoffIsRetryable
  <2>. QED  BY <1>1, <1>2, <2>3, <2>5, <2>6, <2>7, <2>8
<1>. QED  BY <1>3, <1>4

\* One more delta is relayed.
LEMMA ReadTextSafe ==
  ASSUME IInv, Typing', ReadText
  PROVE  IInv'
<1>. USE DEF IInv
<1>. DEFINE m == Contract!Message(<<attempt, pos + 1>>)
<1>0. /\ pc \in {"first", "relay"}
      /\ pc' = "relay"
      /\ wire' = Append(wire, m)
      /\ pos' = pos + 1
      /\ log' = log
      /\ UNCHANGED <<attempt, stopSeen, open, lastError, client>>
  BY DEF ReadText, Converts, Reading
<1>1. pos \in Nat /\ pos + 1 \in 1..Len(log) /\ wire \in Seq(Contract!WireEvent)
  BY DEF Typing, TypeOK, ReadText, Converts
<1>2. CarriesText(log[pos + 1]) /\ ~Condemns(log[pos + 1])
  <2>1. log[pos + 1] \in Arrival /\ stopSeen \in BOOLEAN
    BY <1>1 DEF Typing, TypeOK
  <2>2. Convert(log[pos + 1], stopSeen) = "text"
    BY DEF ReadText, Converts
  <2>. QED  BY <2>1, <2>2, ConvertReadsTable
<1>3. m.event = "message" /\ m.text = <<attempt, pos + 1>>
  BY DEF Contract!Message
<1>4. /\ Len(wire) \in Nat
      /\ DOMAIN wire = 1..Len(wire)
      /\ DOMAIN wire' = 1..(Len(wire) + 1)
      /\ Len(wire') = Len(wire) + 1
      /\ wire'[Len(wire) + 1] = m
      /\ \A k \in DOMAIN wire : wire'[k] = wire[k]
  BY <1>0, <1>1
<1>5. \A k \in DOMAIN wire : IsMessage(k) /\ IsMessage(k)'
  BY <1>0, <1>4 DEF MessagesFirst, IsMessage
<1>6. \A k \in DOMAIN wire' : IsMessage(k)'
  BY <1>3, <1>4, <1>5 DEF IsMessage
<1>7. MessagesFirst'
  BY <1>6 DEF MessagesFirst
<1>8. RelayIsExact'
  <2>1. \A k \in DOMAIN wire' :
          \E i \in 1..pos' : /\ CarriesText(log[i])'
                             /\ wire'[k].text = <<attempt', i>>
    <3>. SUFFICES ASSUME NEW k \in DOMAIN wire'
                  PROVE  \E i \in 1..pos' : /\ CarriesText(log[i])'
                                            /\ wire'[k].text = <<attempt', i>>
      OBVIOUS
    <3>1. CASE k \in DOMAIN wire
      <4>1. PICK i \in 1..pos : CarriesText(log[i]) /\ wire[k].text = <<attempt, i>>
        BY <1>5, <3>1 DEF RelayIsExact
      <4>2. i \in 1..pos'
        BY <1>0, <1>1
      <4>. QED  BY <1>0, <1>4, <3>1, <4>1, <4>2 DEF CarriesText
    <3>2. CASE k = Len(wire) + 1
      <4>1. pos + 1 \in 1..pos'
        BY <1>0, <1>1
      <4>. QED  BY <1>0, <1>2, <1>3, <1>4, <3>2, <4>1 DEF CarriesText
    <3>. QED  BY <1>4, <3>1, <3>2
  <2>2. \A i \in 1..pos' : CarriesText(log[i])' =>
          \E k \in DOMAIN wire' : /\ IsMessage(k)'
                                  /\ wire'[k].text = <<attempt', i>>
    <3>. SUFFICES ASSUME NEW i \in 1..pos', CarriesText(log[i])'
                  PROVE  \E k \in DOMAIN wire' : /\ IsMessage(k)'
                                                 /\ wire'[k].text = <<attempt', i>>
      OBVIOUS
    <3>1. CASE i \in 1..pos
      <4>1. PICK k \in DOMAIN wire : IsMessage(k) /\ wire[k].text = <<attempt, i>>
        BY <1>0, <3>1 DEF RelayIsExact, CarriesText
      <4>2. k \in DOMAIN wire' /\ wire'[k] = wire[k] /\ IsMessage(k)'
        BY <1>4, <1>5, <4>1
      <4>. QED  BY <1>0, <4>1, <4>2
    <3>2. CASE i = pos + 1
      <4>1. Len(wire) + 1 \in DOMAIN wire'
        BY <1>4
      <4>2. wire'[Len(wire) + 1].text = <<attempt', i>>
        BY <1>0, <1>3, <1>4, <3>2
      <4>. QED  BY <1>6, <4>1, <4>2
    <3>3. i \in 1..pos \/ i = pos + 1
      BY <1>0, <1>1
    <3>. QED  BY <3>1, <3>2, <3>3
  <2>3. \A j, k \in DOMAIN wire' :
          (j < k /\ IsMessage(j)' /\ IsMessage(k)') =>
             wire'[j].text[2] < wire'[k].text[2]
    <3>. SUFFICES ASSUME NEW j \in DOMAIN wire', NEW k \in DOMAIN wire', j < k
                  PROVE  wire'[j].text[2] < wire'[k].text[2]
      OBVIOUS
    <3>1. j \in DOMAIN wire
      BY <1>4
    <3>2. CASE k \in DOMAIN wire
      BY <1>4, <1>5, <3>1, <3>2 DEF RelayIsExact
    <3>3. CASE k = Len(wire) + 1
      <4>1. PICK i \in 1..pos : wire[j].text = <<attempt, i>>
        BY <1>5, <3>1 DEF RelayIsExact
      <4>2. wire'[j].text[2] = i /\ wire'[k].text[2] = pos + 1
        BY <1>3, <1>4, <3>1, <3>3, <4>1
      <4>. QED  BY <1>1, <4>2
    <3>. QED  BY <1>4, <3>2, <3>3
  <2>. QED  BY <2>1, <2>2, <2>3 DEF RelayIsExact
<1>9. NotCondemned'
  <2>1. \A i \in 1..pos' : i \in 1..pos \/ i = pos + 1
    BY <1>0, <1>1
  <2>. QED  BY <1>0, <1>2, <2>1 DEF NotCondemned
<1>10. StopRemembered'
  <2>1. \A i \in 1..pos : i \in 1..pos'
    BY <1>0, <1>1
  <2>. QED  BY <1>0, <2>1 DEF StopRemembered
<1>11. DoneIsEarned'
  <2>1. \A k \in DOMAIN wire' : wire'[k].event = "message"
    BY <1>6 DEF IsMessage
  <2>. QED  BY <2>1 DEF DoneIsEarned
<1>12. FilterFailsClosed'
  BY <1>0, <1>9 DEF FilterFailsClosed, NotCondemned
<1>13. Quiet' /\ Relaying' /\ BackoffIsRetryable' /\ RetryBudgetIsUsed'
  BY <1>0, <1>4 DEF Quiet, Relaying, BackoffIsRetryable, RetryBudgetIsUsed
<1>14. UpstreamReleased'
  BY <1>0 DEF UpstreamReleased
<1>. QED
  BY <1>7, <1>8, <1>9, <1>10, <1>11, <1>12, <1>13, <1>14

\* After the first delta, a failure or [DONE] ends the reply.
LEMMA RelayEndsSafe ==
  ASSUME IInv, Typing',
         NEW t, wire' = Append(wire, t),
         pc = "relay", pc' = "ended",
         open' = open \ {attempt}, attempt' = attempt,
         log' = log, stopSeen' = stopSeen,
         pos' = pos + 1, pos + 1 \in 1..Len(log),
         ~CarriesText(log[pos + 1]),
         \/ /\ t = Contract!Done
            /\ log[pos + 1].kind = "done"
            /\ stopSeen
            /\ ~Condemns(log[pos + 1])
         \/ \E e \in ErrorClass :
               /\ t = Contract!Error(e)
               /\ Condemns(log[pos + 1]) => e = "content_filter"
  PROVE  IInv'
<1>. USE DEF IInv
<1>0. /\ pos \in Nat
      /\ pos' \in 0..Len(log)
      /\ wire # <<>>
      /\ wire \in Seq(Contract!WireEvent)
  BY DEF Typing, TypeOK, Relaying
<1>1. t.event \in {"done", "error"}
  BY DEF Contract!Done, Contract!Error
<1>2. /\ MessagesFirst' /\ NotCondemned' /\ RelayIsExact'
      /\ Len(wire') = Len(wire) + 1
      /\ wire'[Len(wire')] = t
      /\ \A k \in DOMAIN wire : wire'[k] = wire[k] /\ IsMessage(k)
  BY <1>0, <1>1, EndStep
<1>3. \A i \in 1..pos' : i \in 1..pos \/ i = pos + 1
  BY <1>0
<1>4. \A i \in 1..pos : ~Condemns(log[i])
  BY DEF NotCondemned
<1>5. StopRemembered'
  <2>1. \A i \in 1..pos : i \in 1..pos'
    BY <1>0
  <2>. QED  BY <2>1 DEF StopRemembered
<1>6. DoneIsEarned'
  <2>. SUFFICES ASSUME NEW k \in DOMAIN wire', wire'[k].event = "done"
                PROVE  /\ pos' > 0
                       /\ log'[pos'].kind = "done"
                       /\ \E i \in 1..(pos' - 1) : /\ log'[i].kind = "choice"
                                                   /\ log'[i].finish = "stop"
                       /\ \A i \in 1..pos' : ~Condemns(log'[i])
    BY DEF DoneIsEarned, Condemns
  <2>1. k = Len(wire')
    <3>1. /\ DOMAIN wire = 1..Len(wire)
          /\ DOMAIN wire' = 1..(Len(wire) + 1)
          /\ Len(wire) \in Nat
      BY <1>0
    <3>2. k \in DOMAIN wire => wire'[k].event = "message"
      BY <1>2 DEF IsMessage
    <3>. QED  BY <1>2, <3>1, <3>2
  <2>2. t.event = "done"
    BY <1>2, <2>1
  <2>3. /\ log[pos + 1].kind = "done"
        /\ stopSeen
        /\ ~Condemns(log[pos + 1])
    BY <2>2 DEF Contract!Error
  <2>4. PICK i \in 1..pos : log[i].kind = "choice" /\ log[i].finish = "stop"
    BY <2>3 DEF StopRemembered
  <2>5. i \in 1..(pos' - 1) /\ pos' > 0
    BY <1>0
  <2>. QED  BY <1>3, <1>4, <2>3, <2>4, <2>5
<1>7. FilterFailsClosed'
  <2>. SUFFICES ASSUME NEW i \in 1..pos', Condemns(log[i])
                PROVE  wire'[Len(wire')] = Contract!Error("content_filter")
    BY DEF FilterFailsClosed, Condemns
  <2>1. Condemns(log[pos + 1])
    BY <1>3, <1>4
  <2>. QED  BY <1>2, <2>1
<1>8. Quiet' /\ Relaying' /\ BackoffIsRetryable'
  BY DEF Quiet, Relaying, BackoffIsRetryable
<1>9. UpstreamReleased'
  BY DEF UpstreamReleased
<1>10. RetryBudgetIsUsed'
  <2>1. Len(wire) \in Nat /\ Len(wire) # 0
    BY <1>0
  <2>2. Len(wire') # 1
    BY <1>2, <2>1
  <2>. QED  BY <2>2 DEF RetryBudgetIsUsed
<1>. QED
  BY <1>2, <1>5, <1>6, <1>7, <1>8, <1>9, <1>10

\* The next arrival is inside the log, and is one _convert knows.
LEMMA NextArrival ==
  ASSUME Typing, NEW o, Converts(o)
  PROVE  /\ pos + 1 \in 1..Len(log)
         /\ pos' = pos + 1
         /\ log' = log
         /\ pc \in {"first", "relay"}
         /\ log[pos + 1] \in Arrival
         /\ CarriesText(log[pos + 1]) <=> o = "text"
         /\ Condemns(log[pos + 1]) <=> o = "content_filter"
         /\ o = "return" => log[pos + 1].kind = "done" /\ stopSeen
         /\ o = "stop" => /\ log[pos + 1].kind = "choice"
                          /\ log[pos + 1].finish = "stop"
<1>1. /\ pos + 1 \in 1..Len(log)
      /\ pos' = pos + 1
      /\ log' = log
      /\ pc \in {"first", "relay"}
  BY DEF Typing, TypeOK, Converts, Reading
<1>2. log[pos + 1] \in Arrival /\ stopSeen \in BOOLEAN
  BY <1>1 DEF Typing, TypeOK
<1>3. Convert(log[pos + 1], stopSeen) = o
  BY DEF Converts
<1>. QED  BY <1>1, <1>2, <1>3, ConvertReadsTable

LEMMA ReadSafe ==
  ASSUME IInv, Typing', Read
  PROVE  IInv'
<1>. USE DEF IInv
<1>0. {"server_error", "content_filter", "timeout"} \subseteq ErrorClass
  BY DEF ErrorClass, Contract!ErrorClass
<1>a. pos \in Nat
  BY DEF Typing, TypeOK
<1>1. CASE ReadSkipped \/ ReadStop
  <2>1. PICK o \in {"skip", "stop"} : Converts(o)
    BY <1>1 DEF ReadSkipped, ReadStop
  <2>2. UNCHANGED <<pc, attempt, open, lastError, wire, client>>
    BY <1>1 DEF ReadSkipped, ReadStop
  <2>3. /\ pc # "ended"
        /\ pos' = pos + 1 /\ log' = log
        /\ pos' \in 0..Len(log)
        /\ ~CarriesText(log[pos + 1]) /\ ~Condemns(log[pos + 1])
    BY <1>a, <2>1, NextArrival
  <2>4. /\ MessagesFirst' /\ NotCondemned' /\ RelayIsExact'
        /\ DoneIsEarned' /\ FilterFailsClosed' /\ RetryBudgetIsUsed'
    BY <2>2, <2>3, SilentStep
  <2>5. StopRemembered'
    <3>1. \A i \in 1..pos : i \in 1..pos'
      BY <1>a, <2>3
    <3>2. pos + 1 \in 1..pos'
      BY <1>a, <2>3
    <3>3. CASE ReadSkipped
      BY <2>3, <3>1, <3>3 DEF ReadSkipped, StopRemembered
    <3>4. CASE ReadStop
      <4>1. log[pos + 1].kind = "choice" /\ log[pos + 1].finish = "stop"
        BY <3>4, NextArrival DEF ReadStop
      <4>. QED  BY <2>3, <3>2, <4>1 DEF StopRemembered
    <3>. QED  BY <1>1, <3>3, <3>4
  <2>6. Quiet' /\ Relaying' /\ BackoffIsRetryable'
    BY <2>2 DEF Quiet, Relaying, BackoffIsRetryable
  <2>7. UpstreamReleased'
    BY <2>2 DEF UpstreamReleased
  <2>. QED  BY <2>4, <2>5, <2>6, <2>7
<1>2. CASE ReadText
  BY <1>2, ReadTextSafe
<1>3. CASE ReadDone
  <2>1. Converts("return") /\ stopSeen' = stopSeen
    BY <1>3 DEF ReadDone
  <2>2. /\ pos + 1 \in 1..Len(log)
        /\ pos' = pos + 1 /\ log' = log
        /\ pos' \in 0..Len(log)
        /\ pc \in {"first", "relay"}
        /\ ~CarriesText(log[pos + 1]) /\ ~Condemns(log[pos + 1])
        /\ log[pos + 1].kind = "done" /\ stopSeen
    BY <1>a, <2>1, NextArrival
  <2>3. CASE pc = "first"
    <3>1. AttemptFails("server_error") /\ pc \in Connecting
      BY <1>3, <2>3 DEF ReadDone, Connecting
    <3>. QED  BY <1>0, <1>a, <2>1, <2>2, <3>1, AttemptFailsSafe
  <2>4. CASE pc = "relay"
    <3>1. /\ CloseUpstream
          /\ SendTerminal(Contract!Done)
          /\ attempt' = attempt
      BY <1>3, <2>4 DEF ReadDone
    <3>. QED
      BY <2>1, <2>2, <2>4, <3>1, RelayEndsSafe DEF CloseUpstream, SendTerminal
  <2>. QED  BY <2>2, <2>3, <2>4
<1>4. CASE ReadError
  <2>1. PICK e \in {"server_error", "content_filter", "timeout"} :
           /\ Converts(e)
           /\ IF pc = "first" THEN AttemptFails(e) ELSE RelayFails(e)
    BY <1>4 DEF ReadError
  <2>2. stopSeen' = stopSeen /\ e \in ErrorClass
    BY <1>0, <1>4 DEF ReadError
  <2>3. /\ pos + 1 \in 1..Len(log)
        /\ pos' = pos + 1 /\ log' = log
        /\ pos' \in 0..Len(log)
        /\ pc \in {"first", "relay"}
        /\ ~CarriesText(log[pos + 1])
        /\ Condemns(log[pos + 1]) => e = "content_filter"
    BY <1>a, <2>1, NextArrival
  <2>4. CASE pc = "first"
    BY <1>a, <2>1, <2>2, <2>3, <2>4, AttemptFailsSafe DEF Connecting
  <2>5. CASE pc = "relay"
    <3>1. RelayFails(e)
      BY <2>1, <2>5
    <3>. QED
      BY <2>2, <2>3, <2>5, <3>1, RelayEndsSafe
         DEF RelayFails, CloseUpstream, SendTerminal
  <2>. QED  BY <2>3, <2>4, <2>5
<1>5. CASE ReadUndecodable
  <2>1. Crash /\ UNCHANGED <<log, pos, stopSeen>> /\ pc \in {"first", "relay"}
    BY <1>5 DEF ReadUndecodable, Reading
  <2>2. pos \in 0..Len(log) /\ log \in Seq(Arrival)
    BY DEF Typing, TypeOK
  <2>3. /\ MessagesFirst' /\ NotCondemned' /\ RelayIsExact'
        /\ DoneIsEarned' /\ FilterFailsClosed' /\ RetryBudgetIsUsed'
    BY <2>1, <2>2, SilentStep DEF Crash
  <2>4. StopRemembered'
    BY <2>1 DEF StopRemembered
  <2>5. Quiet' /\ Relaying' /\ BackoffIsRetryable' /\ UpstreamReleased'
    BY <2>1 DEF Crash, CloseUpstream, Quiet, Relaying, BackoffIsRetryable,
                UpstreamReleased
  <2>. QED  BY <2>3, <2>4, <2>5
<1>. QED  BY <1>1, <1>2, <1>3, <1>4, <1>5 DEF Read

LEMMA IInvStep == IInv /\ [Next]_vars => IInv'
<1>. SUFFICES ASSUME IInv, [Next]_vars  PROVE IInv'
  OBVIOUS
<1>. USE DEF IInv
<1>0. Typing'
  BY TypingStep
<1>a. pos \in 0..Len(log) /\ pos \in Nat /\ log \in Seq(Arrival)
  BY DEF Typing, TypeOK
<1>1. CASE TokenReady
  <2>1. /\ MessagesFirst' /\ NotCondemned' /\ RelayIsExact'
        /\ DoneIsEarned' /\ FilterFailsClosed' /\ RetryBudgetIsUsed'
    BY <1>0, <1>1, <1>a, SilentStep DEF TokenReady
  <2>2. /\ StopRemembered' /\ Quiet' /\ Relaying' /\ BackoffIsRetryable'
        /\ UpstreamReleased'
    BY <1>1 DEF TokenReady, StopRemembered, Quiet, Relaying,
                BackoffIsRetryable, UpstreamReleased
  <2>. QED  BY <1>0, <2>1, <2>2
<1>2. CASE TokenFails
  <2>1. /\ MessagesFirst' /\ NotCondemned' /\ RelayIsExact'
        /\ DoneIsEarned' /\ FilterFailsClosed' /\ RetryBudgetIsUsed'
    BY <1>0, <1>2, <1>a, SilentStep DEF TokenFails, Crash
  <2>2. /\ StopRemembered' /\ Quiet' /\ Relaying' /\ BackoffIsRetryable'
        /\ UpstreamReleased'
    BY <1>2 DEF TokenFails, Crash, CloseUpstream, StopRemembered, Quiet,
                Relaying, BackoffIsRetryable, UpstreamReleased
  <2>. QED  BY <1>0, <2>1, <2>2
<1>3. CASE ResponseAccepted
  <2>1. /\ MessagesFirst' /\ NotCondemned' /\ RelayIsExact'
        /\ DoneIsEarned' /\ FilterFailsClosed' /\ RetryBudgetIsUsed'
    BY <1>0, <1>3, <1>a, SilentStep DEF ResponseAccepted
  <2>2. /\ StopRemembered' /\ Quiet' /\ Relaying' /\ BackoffIsRetryable'
        /\ UpstreamReleased'
    BY <1>3 DEF ResponseAccepted, StopRemembered, Quiet, Relaying,
                BackoffIsRetryable, UpstreamReleased
  <2>. QED  BY <1>0, <2>1, <2>2
<1>4. CASE ResponseRefused \/ FirstDeltaTimeout
  <2>1. PICK e \in {"rate_limit", "server_error", "bad_request", "timeout"} :
           AttemptFails(e)
    BY <1>4 DEF ResponseRefused, FirstDeltaTimeout
  <2>2. e \in ErrorClass /\ e # "content_filter"
    BY DEF ErrorClass, Contract!ErrorClass
  <2>3. pc \in Connecting /\ UNCHANGED <<log, pos, stopSeen>>
    BY <1>4 DEF ResponseRefused, FirstDeltaTimeout, Connecting
  <2>. QED  BY <1>0, <1>a, <2>1, <2>2, <2>3, AttemptFailsSafe
<1>5. CASE NextAttempt
  <2>1. /\ wire' = <<>>
        /\ DOMAIN wire' = {}
        /\ pos' = 0
        /\ pc' = "auth"
        /\ open' = {}
    BY <1>5 DEF NextAttempt, Quiet, UpstreamReleased
  <2>2. StopRemembered'
    BY <1>5 DEF NextAttempt, StopRemembered
  <2>3. NotCondemned' /\ FilterFailsClosed' /\ DoneIsEarned'
    BY <2>1 DEF NotCondemned, FilterFailsClosed, DoneIsEarned
  <2>4. RelayIsExact'
    BY <2>1 DEF RelayIsExact
  <2>5. /\ Quiet' /\ Relaying' /\ MessagesFirst' /\ BackoffIsRetryable'
        /\ UpstreamReleased' /\ RetryBudgetIsUsed'
    BY <2>1 DEF Quiet, Relaying, MessagesFirst, BackoffIsRetryable,
                UpstreamReleased, RetryBudgetIsUsed
  <2>. QED  BY <1>0, <2>2, <2>3, <2>4, <2>5
<1>6. CASE Read
  BY <1>0, <1>6, ReadSafe
<1>7. CASE ProviderSends
  <2>1. PICK a : log' = Append(log, a)
    BY <1>7 DEF ProviderSends
  <2>2. \A i \in 1..pos : log'[i] = log[i]
    BY <1>a, <2>1
  <2>3. UNCHANGED <<pc, attempt, pos, stopSeen, open, lastError, wire, client>>
    BY <1>7 DEF ProviderSends
  <2>4. pc # "ended"
    BY <1>7 DEF ProviderSends, Reading
  <2>5. /\ MessagesFirst' /\ NotCondemned' /\ RelayIsExact'
        /\ DoneIsEarned' /\ FilterFailsClosed' /\ RetryBudgetIsUsed'
    BY <1>0, <1>a, <2>2, <2>3, <2>4, SilentStep
  <2>6. StopRemembered'
    BY <2>2, <2>3 DEF StopRemembered
  <2>7. /\ Quiet' /\ Relaying' /\ BackoffIsRetryable' /\ UpstreamReleased'
    BY <2>3 DEF Quiet, Relaying, BackoffIsRetryable, UpstreamReleased
  <2>. QED  BY <1>0, <2>5, <2>6, <2>7
<1>8. CASE Disconnect \/ UNCHANGED vars
  <2>1. UNCHANGED <<pc, attempt, log, pos, stopSeen, open, lastError, wire>>
    BY <1>8 DEF Disconnect, vars
  <2>. QED
    BY <1>0, <2>1
       DEF Quiet, Relaying, MessagesFirst, StopRemembered, NotCondemned,
           BackoffIsRetryable, RelayIsExact, DoneIsEarned, FilterFailsClosed,
           UpstreamReleased, RetryBudgetIsUsed, IsMessage, CarriesText,
           Condemns
<1>9. CASE ChainClosed
  <2>1. /\ MessagesFirst' /\ NotCondemned' /\ RelayIsExact'
        /\ DoneIsEarned' /\ FilterFailsClosed' /\ RetryBudgetIsUsed'
    BY <1>0, <1>9, <1>a, SilentStep DEF ChainClosed, Over
  <2>2. /\ StopRemembered' /\ Quiet' /\ Relaying' /\ BackoffIsRetryable'
        /\ UpstreamReleased'
    BY <1>9 DEF ChainClosed, CloseUpstream, StopRemembered, Quiet,
                Relaying, BackoffIsRetryable, UpstreamReleased
  <2>. QED  BY <1>0, <2>1, <2>2
<1>. QED
  BY <1>1, <1>2, <1>3, <1>4, <1>5, <1>6, <1>7, <1>8, <1>9 DEF Next
-----------------------------------------------------------------------------
(* The theorems. *)

LEMMA IInvHolds == Spec => []IInv
BY IInvInit, IInvStep, PTL DEF Spec

\* The client is sent exactly the text deltas consumed in one attempt, in
\* order, whatever the retries, timeouts and disconnections.
THEOREM RelayExact == Spec => []RelayIsExact
<1>1. IInv => RelayIsExact
  BY DEF IInv
<1>. QED  BY <1>1, IInvHolds, PTL

\* done means that the provider finished and nothing was condemned.
THEOREM DoneEarned == Spec => []DoneIsEarned
<1>1. IInv => DoneIsEarned
  BY DEF IInv
<1>. QED  BY <1>1, IInvHolds, PTL

\* A condemned payload always ends the reply with error(content_filter).
THEOREM FilterClosed == Spec => []FilterFailsClosed
<1>1. IInv => FilterFailsClosed
  BY DEF IInv
<1>. QED  BY <1>1, IInvHolds, PTL

\* No provider request outlives its attempt.
THEOREM UpstreamClosed == Spec => []UpstreamReleased
<1>1. IInv => UpstreamReleased
  BY DEF IInv
<1>. QED  BY <1>1, IInvHolds, PTL

\* A retryable failure is reported only when the attempts are used up.
THEOREM BudgetUsed == Spec => []RetryBudgetIsUsed
<1>1. IInv => RetryBudgetIsUsed
  BY DEF IInv
<1>. QED  BY <1>1, IInvHolds, PTL

\* Retries stay on the near side of the first delta.
THEOREM RetriesBounded == Spec => RetryBoundary
<1>1. IInv /\ [Next]_vars =>
        [attempt' # attempt => /\ attempt' = attempt + 1
                               /\ wire = <<>>
                               /\ open = {}
                               /\ lastError \in Retryable]_vars
  <2>. SUFFICES ASSUME IInv, Next, attempt' # attempt
                PROVE  /\ attempt' = attempt + 1
                       /\ wire = <<>>
                       /\ open = {}
                       /\ lastError \in Retryable
    BY DEF vars
  <2>1. NextAttempt
    BY DEF Next, TokenReady, TokenFails, ResponseAccepted, ResponseRefused,
           FirstDeltaTimeout, Read, ReadSkipped, ReadStop, ReadText, ReadDone,
           ReadError, ReadUndecodable, ProviderSends, Disconnect, ChainClosed,
           AttemptFails, RelayFails, Crash
  <2>. QED
    BY <2>1 DEF NextAttempt, IInv, Quiet, UpstreamReleased, BackoffIsRetryable
<1>. QED  BY <1>1, IInvHolds, PTL DEF Spec, RetryBoundary
-----------------------------------------------------------------------------
(* The stream of events implements the wire contract. *)

LEMMA ContractErrorStep ==
  ASSUME IInv, NEW e \in ErrorClass, pc \notin {"ended", "closed"},
         SendTerminal(Contract!Error(e))
  PROVE  Contract!SendError
<1>1. ~Contract!NoticeSent
  <2>1. wire # <<>> => 1 \in DOMAIN wire
    BY DEF IInv, Typing, TypeOK
  <2>. QED
    BY <2>1 DEF IInv, MessagesFirst, IsMessage, Contract!NoticeSent
<1>. QED
  BY <1>1 DEF SendTerminal, Contract!SendError, ErrorClass

LEMMA ContractStep ==
  ASSUME IInv, [Next]_vars
  PROVE  [Contract!Next]_(Contract!wireVars)
<1>. USE DEF Contract!wireVars
<1>0. \A e \in ErrorClass : AttemptFails(e) /\ pc \in Connecting =>
        [Contract!Next]_(Contract!wireVars)
  <2>. SUFFICES ASSUME NEW e \in ErrorClass, AttemptFails(e), pc \in Connecting
                PROVE  [Contract!Next]_(Contract!wireVars)
    OBVIOUS
  <2>1. CASE e \in Retryable /\ attempt < MaxAttempts
    BY <2>1 DEF AttemptFails, Connecting
  <2>2. CASE ~(e \in Retryable /\ attempt < MaxAttempts)
    BY <2>2, ContractErrorStep DEF AttemptFails, Connecting, Contract!Next
  <2>. QED  BY <2>1, <2>2
<1>a. {"timeout", "rate_limit", "server_error", "bad_request",
       "content_filter"} \subseteq ErrorClass
  BY DEF ErrorClass, Contract!ErrorClass
<1>1. CASE \/ TokenReady \/ TokenFails \/ ResponseAccepted \/ NextAttempt
           \/ ProviderSends \/ Disconnect \/ UNCHANGED vars
  BY <1>1 DEF TokenReady, TokenFails, Crash, ResponseAccepted, NextAttempt,
              ProviderSends, Disconnect, vars
<1>2. CASE ResponseRefused \/ FirstDeltaTimeout
  BY <1>0, <1>a, <1>2 DEF ResponseRefused, FirstDeltaTimeout, Connecting
<1>3. CASE ReadSkipped \/ ReadStop \/ ReadUndecodable
  BY <1>3 DEF ReadSkipped, ReadStop, ReadUndecodable, Crash, Converts, Reading
<1>4. CASE ReadText
  <2>1. ~Contract!NoticeSent
    <3>1. wire # <<>> => 1 \in DOMAIN wire
      BY DEF IInv, Typing, TypeOK
    <3>2. pc # "ended"
      BY <1>4 DEF ReadText, Converts, Reading
    <3>. QED
      BY <3>1, <3>2 DEF IInv, MessagesFirst, IsMessage, Contract!NoticeSent
  <2>2. <<attempt, pos + 1>> \in Texts
    <3>1. attempt \in Attempts /\ pos + 1 \in 1..(MaxArrivals + 1)
      BY <1>4, ProviderAssumption
         DEF IInv, Typing, TypeOK, ReadText, Converts
    <3>. QED  BY <3>1 DEF Texts
  <2>. QED
    BY <1>4, <2>1, <2>2
       DEF ReadText, Converts, Reading, Contract!Next, Contract!SendMessage
<1>5. CASE ReadDone
  <2>1. CASE pc = "first"
    BY <1>0, <1>a, <1>5, <2>1 DEF ReadDone, Connecting
  <2>2. CASE pc # "first"
    <3>1. pc = "relay" /\ wire # <<>>
      BY <1>5, <2>2 DEF ReadDone, Converts, Reading, IInv, Relaying
    <3>. QED
      BY <1>5, <2>2, <3>1
         DEF ReadDone, SendTerminal, Contract!Next, Contract!SendDone
  <2>. QED  BY <2>1, <2>2
<1>6. CASE ReadError
  <2>1. PICK e \in ErrorClass :
           IF pc = "first" THEN AttemptFails(e) ELSE RelayFails(e)
    BY <1>a, <1>6 DEF ReadError
  <2>2. pc \in Reading
    BY <1>6 DEF ReadError, Converts
  <2>3. CASE pc = "first"
    BY <1>0, <2>1, <2>3 DEF Connecting
  <2>4. CASE pc = "relay"
    BY <2>1, <2>4, ContractErrorStep DEF RelayFails, Contract!Next
  <2>. QED  BY <2>2, <2>3, <2>4 DEF Reading
<1>7. CASE ChainClosed
  BY <1>7 DEF ChainClosed, Over, Contract!Next, Contract!Drop
<1>. QED
  BY <1>1, <1>2, <1>3, <1>4, <1>5, <1>6, <1>7 DEF Next, Read

\* Every behaviour of the chain, with every retry, timeout, malformed stream
\* and disconnection, is one the wire contract allows.
THEOREM ContractRespected == Spec => RespectsContract
<1>1. Init => Contract!Init
  BY DEF Init, Contract!Init
<1>2. IInv /\ [Next]_vars => [Contract!Next]_(Contract!wireVars)
  BY ContractStep
<1>. QED
  BY <1>1, <1>2, IInvHolds, PTL DEF Spec, RespectsContract, Contract!SafeSpec

\* The contract, with its theorem.
Kept == INSTANCE WireContractProofs
          WITH reply <- IF pc = "ended" THEN "terminated"
                        ELSE IF pc = "closed" THEN "dropped"
                        ELSE "open"

\* At any time the wire holds a prefix of one of the replies that decision 2
\* of ADR-0028 allows: the contract is respected, and it keeps the grammar.
THEOREM WireIsGrammatical == Spec => []Contract!Grammar
<1>1. Init => Kept!Init
  BY DEF Init, Kept!Init
<1>2. IInv /\ [Next]_vars => [Kept!Next]_(Kept!wireVars)
  <2>1. Contract!Next => Kept!Next
    BY DEF Contract!Next, Contract!SendMessage, Contract!SendNotice,
           Contract!SendDone, Contract!SendError, Contract!Drop,
           Contract!NoticeSent, Contract!Message, Contract!Notice,
           Contract!Done, Contract!Error, Contract!ErrorClass,
           Kept!Next, Kept!SendMessage, Kept!SendNotice, Kept!SendDone,
           Kept!SendError, Kept!Drop, Kept!NoticeSent, Kept!Message,
           Kept!Notice, Kept!Done, Kept!Error, Kept!ErrorClass
  <2>2. QED
    BY <2>1, ContractStep DEF Contract!wireVars, Kept!wireVars
<1>3. Kept!Grammar => Contract!Grammar
  BY DEF Kept!Grammar, Kept!IsTerminal, Kept!NoticeSent,
         Contract!Grammar, Contract!IsTerminal, Contract!NoticeSent
<1>4. Kept!SafeSpec => []Kept!Grammar
  BY Kept!GrammarKept
<1>5. QED
  BY <1>1, <1>2, <1>3, <1>4, IInvHolds, PTL DEF Spec, Kept!SafeSpec
=============================================================================
