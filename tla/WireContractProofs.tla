------------------------- MODULE WireContractProofs -------------------------
(***************************************************************************)
(* The wire contract keeps the grammar of ADR-0028, decision 2.            *)
(***************************************************************************)
EXTENDS WireContract, TLAPS

\* As long as the reply is open, nothing terminal has been sent.
OpenEnded == reply = "open" => \A k \in DOMAIN wire : ~IsTerminal(wire[k])

IInv == /\ wire \in Seq(WireEvent)
        /\ OpenEnded
        /\ Grammar

\* What an appended event does to a sequence.
LEMMA AppendFacts ==
  ASSUME wire \in Seq(WireEvent), NEW e \in WireEvent
  PROVE  /\ Append(wire, e) \in Seq(WireEvent)
         /\ Len(Append(wire, e)) = Len(wire) + 1
         /\ Len(wire) \in Nat
         /\ DOMAIN wire = 1..Len(wire)
         /\ DOMAIN Append(wire, e) = 1..(Len(wire) + 1)
         /\ \A k \in 1..Len(wire) : Append(wire, e)[k] = wire[k]
         /\ Append(wire, e)[Len(wire) + 1] = e
  OBVIOUS

\* A message, a done and an error are events.
LEMMA EventsAreTyped ==
  /\ \A t \in Texts : Message(t) \in WireEvent /\ Message(t).event = "message"
  /\ Notice \in WireEvent /\ Notice.event = "notice"
  /\ Done \in WireEvent /\ Done.event = "done"
  /\ \A c \in ErrorClass : Error(c) \in WireEvent /\ Error(c).event = "error"
  BY DEF WireEvent, Message, Notice, Done, Error

LEMMA IInvInit == Init => IInv
<1> SUFFICES ASSUME Init PROVE IInv
  OBVIOUS
<1>1. wire = <<>>
  BY DEF Init
<1>2. QED
  BY <1>1 DEF IInv, OpenEnded, Grammar, NoticeSent

\* A notice leaves room for nothing but itself while the reply is open.
LEMMA NoticeIsAlone ==
  ASSUME IInv, reply = "open", NoticeSent
  PROVE  Len(wire) = 1
<1>1. /\ Len(wire) \in Nat /\ DOMAIN wire = 1..Len(wire)
      /\ wire # <<>> /\ Len(wire) <= 2
      /\ \A k \in DOMAIN wire : wire[k].event \in {"notice", "done"}
  BY DEF IInv, Grammar, NoticeSent
<1>2. \A k \in DOMAIN wire : wire[k].event = "notice" /\ k = 1
  BY <1>1 DEF IInv, OpenEnded, IsTerminal, Grammar
<1>3. Len(wire) >= 1
  BY <1>1 DEF IInv
<1>4. QED
  BY <1>1, <1>2, <1>3

LEMMA SendMessageStep == IInv /\ SendMessage => IInv'
<1> SUFFICES ASSUME IInv, SendMessage PROVE IInv'
  OBVIOUS
<1>1. PICK t \in Texts : wire' = Append(wire, Message(t))
  BY DEF SendMessage
<1>2. Message(t) \in WireEvent /\ Message(t).event = "message"
  BY EventsAreTyped
<1> DEFINE n == Len(wire)
<1>3. /\ wire' \in Seq(WireEvent) /\ Len(wire') = n + 1 /\ n \in Nat
      /\ DOMAIN wire = 1..n /\ DOMAIN wire' = 1..(n + 1)
      /\ \A k \in 1..n : wire'[k] = wire[k]
      /\ wire'[n + 1].event = "message"
  BY <1>1, <1>2, AppendFacts DEF IInv
<1>4. reply = "open" /\ reply' = "open" /\ ~NoticeSent
  BY DEF SendMessage
<1> HIDE DEF n
<1>5. \A k \in 1..n : ~IsTerminal(wire[k])
  BY <1>3, <1>4 DEF IInv, OpenEnded
<1>6. \A k \in DOMAIN wire' : ~IsTerminal(wire'[k])
  BY <1>3, <1>5 DEF IsTerminal
<1>7. ~NoticeSent'
  <2>1. CASE n = 0
    BY <2>1, <1>3 DEF NoticeSent
  <2>2. CASE n > 0
    <3>1. wire # <<>> /\ wire'[1] = wire[1]
      BY <2>2, <1>3
    <3>2. QED
      BY <3>1, <1>4 DEF NoticeSent
  <2>3. QED
    BY <2>1, <2>2, <1>3
<1>8. Grammar'
  <2>1. \A k \in DOMAIN wire' : wire'[k].event = "notice" => k = 1
    BY <1>3 DEF IInv, Grammar
  <2>2. QED
    BY <2>1, <1>6, <1>7 DEF Grammar, IsTerminal
<1>9. QED
  BY <1>3, <1>6, <1>8 DEF IInv, OpenEnded

LEMMA SendNoticeStep == IInv /\ SendNotice => IInv'
<1> SUFFICES ASSUME IInv, SendNotice PROVE IInv'
  OBVIOUS
<1>1. wire' = <<Notice>>
  BY DEF SendNotice
<1>2. /\ wire' \in Seq(WireEvent) /\ Len(wire') = 1 /\ DOMAIN wire' = {1}
      /\ wire'[1].event = "notice"
  BY <1>1, EventsAreTyped
<1>3. QED
  BY <1>2 DEF IInv, OpenEnded, Grammar, IsTerminal, NoticeSent

\* Both terminal events: what follows an open reply ends it.
LEMMA TerminalStep ==
  ASSUME IInv, reply = "open", reply' = "terminated",
         NEW e \in WireEvent, IsTerminal(e), wire' = Append(wire, e),
         e.event = "done" => wire # <<>>,
         NoticeSent => e.event = "done"
  PROVE  IInv'
<1> DEFINE n == Len(wire)
<1>1. /\ wire' \in Seq(WireEvent) /\ Len(wire') = n + 1 /\ n \in Nat
      /\ DOMAIN wire = 1..n /\ DOMAIN wire' = 1..(n + 1)
      /\ \A k \in 1..n : wire'[k] = wire[k]
      /\ wire'[n + 1] = e
  BY AppendFacts DEF IInv
<1>2. e.event = "done" => n > 0
  BY <1>1 DEF IInv
<1>3. NoticeSent => n = 1
  BY NoticeIsAlone
<1> HIDE DEF n
<1>4. \A k \in 1..n : ~IsTerminal(wire'[k])
  BY <1>1 DEF IInv, OpenEnded
<1>5. \A k \in DOMAIN wire' : IsTerminal(wire'[k]) => k = Len(wire')
  BY <1>1, <1>4
<1>6. \A k \in DOMAIN wire' : wire'[k].event = "notice" => k = 1
  BY <1>1 DEF IInv, Grammar, IsTerminal
<1>7. \A k \in DOMAIN wire' : wire'[k].event = "done" => k > 1
  BY <1>1, <1>2, <1>4 DEF IsTerminal
<1>8. NoticeSent' => /\ Len(wire') <= 2
                     /\ \A k \in DOMAIN wire' : wire'[k].event \in {"notice", "done"}
  <2> SUFFICES ASSUME NoticeSent'
               PROVE  /\ Len(wire') <= 2
                      /\ \A k \in DOMAIN wire' : wire'[k].event \in {"notice", "done"}
    OBVIOUS
  <2>1. wire'[1].event = "notice" /\ 1 \in DOMAIN wire'
    BY <1>1 DEF NoticeSent
  <2>2. n > 0 /\ wire # <<>> /\ wire[1].event = "notice"
    BY <2>1, <1>1 DEF IsTerminal
  <2>3. NoticeSent
    BY <2>2 DEF NoticeSent
  <2>4. n = 1 /\ e.event = "done"
    BY <2>3, <1>3
  <2>5. QED
    BY <2>1, <2>4, <1>1
<1>9. QED
  BY <1>1, <1>5, <1>6, <1>7, <1>8 DEF IInv, OpenEnded, Grammar

LEMMA IInvStep == IInv /\ [Next]_wireVars => IInv'
<1> SUFFICES ASSUME IInv, [Next]_wireVars PROVE IInv'
  OBVIOUS
<1>1. CASE SendMessage
  BY <1>1, SendMessageStep
<1>2. CASE SendNotice
  BY <1>2, SendNoticeStep
<1>3. CASE SendDone
  <2>1. Done \in WireEvent /\ IsTerminal(Done) /\ Done.event = "done"
    BY EventsAreTyped DEF IsTerminal
  <2>2. QED
    BY <1>3, <2>1, TerminalStep DEF SendDone
<1>4. CASE SendError
  <2>1. PICK c \in ErrorClass : wire' = Append(wire, Error(c))
    BY <1>4 DEF SendError
  <2>2. Error(c) \in WireEvent /\ IsTerminal(Error(c)) /\ Error(c).event # "done"
    BY EventsAreTyped DEF IsTerminal
  <2>3. QED
    BY <1>4, <2>1, <2>2, TerminalStep DEF SendError
<1>5. CASE Drop
  BY <1>5 DEF Drop, IInv, OpenEnded, Grammar, NoticeSent
<1>6. CASE UNCHANGED wireVars
  BY <1>6 DEF wireVars, IInv, OpenEnded, Grammar, NoticeSent
<1>7. QED
  BY <1>1, <1>2, <1>3, <1>4, <1>5, <1>6 DEF Next

\* Whatever keeps the wire contract never sends anything but a prefix of one
\* of the three replies of ADR-0028 decision 2: a terminal event at most once
\* and last, a notice only as the whole content, done never first.
THEOREM GrammarKept == SafeSpec => []Grammar
<1>1. Init => IInv
  BY IInvInit
<1>2. IInv /\ [Next]_wireVars => IInv'
  BY IInvStep
<1>3. IInv => Grammar
  BY DEF IInv
<1>4. QED
  BY <1>1, <1>2, <1>3, PTL DEF SafeSpec
=============================================================================
