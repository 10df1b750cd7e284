--------------------------- MODULE ChatClientProofs ---------------------------
(***************************************************************************)
(* Proofs about ChatClient, for any items in any order and any end of the  *)
(* body.  ContentOf is recursive, so the proofs begin with what a          *)
(* recursion over the natural numbers computes.                            *)
(***************************************************************************)
EXTENDS ChatClient, WellFoundedInduction, TLAPS

-----------------------------------------------------------------------------
(* Induction and recursion over the natural numbers, for sets and          *)
(* functions.                                                              *)

\* A set of natural numbers that is not empty has a least element.
LEMMA LeastNumber ==
  ASSUME NEW T, T \subseteq Nat, T # {}
  PROVE  \E m \in T : \A k \in T : m <= k
<1>. DEFINE R == {ss \in Nat \X Nat : ss[1] < ss[2]}
<1>1. IsWellFoundedOn(R, Nat)
  BY NatLessThanWellFounded DEF OpToRel
<1>2. PICK m \in T : \A k \in T : ~ (<<k, m>> \in R)
  <2>. HIDE DEF R
  <2>. QED  BY <1>1, WFMin
<1>3. \A k \in T : ~(k < m)
  BY <1>2
<1>. QED  BY <1>3

\* A function can be defined by its value at 0 and by steps.
Recurs(f, base, step) == /\ f[0] = base
                         /\ \A n \in Nat : f[n + 1] = step[n][f[n]]

\* Recursion on numbers defines a function (the library's theorem would need
\* an operator as its argument).
LEMMA RecursionOnNat ==
  ASSUME NEW S, NEW base \in S, NEW step \in [Nat -> [S -> S]]
  PROVE  \E f \in [Nat -> S] : Recurs(f, base, step)
<1>. DEFINE Approx(n, g) == /\ g \in [0..n -> S]
                            /\ g[0] = base
                            /\ \A k \in 0..(n - 1) : g[k + 1] = step[k][g[k]]
<1>1. \A n \in Nat : \E g : Approx(n, g)
  <2>. DEFINE T == {n \in Nat : ~\E g : Approx(n, g)}
  <2>. SUFFICES T = {}
    OBVIOUS
  <2>. SUFFICES ASSUME T # {}  PROVE FALSE
    OBVIOUS
  <2>1. PICK m \in T : \A k \in T : m <= k
    BY LeastNumber
  <2>2. Approx(0, [k \in 0..0 |-> base])
    OBVIOUS
  <2>3. m \in Nat \ {0} /\ m - 1 \in Nat /\ m - 1 \notin T
    <3>1. m \in Nat /\ m # 0
      <4>. HIDE DEF Approx
      <4>. QED  BY <2>1, <2>2
    <3>2. m - 1 \in Nat /\ ~(m <= m - 1)
      BY <3>1
    <3>. HIDE DEF T
    <3>. QED  BY <2>1, <3>1, <3>2
  <2>4. PICK g : Approx(m - 1, g)
    BY <2>3
  <2>5. step[m - 1][g[m - 1]] \in S
    BY <2>3, <2>4
  <2>6. Approx(m, [k \in 0..m |-> IF k = m THEN step[m - 1][g[m - 1]] ELSE g[k]])
    BY <2>3, <2>4, <2>5
  <2>. QED  BY <2>1, <2>6
<1>2. ASSUME NEW m \in Nat, NEW n \in Nat, NEW g, NEW h,
             Approx(m, g), Approx(n, h), m <= n
      PROVE  g[m] = h[m]
  <2>. DEFINE T == {i \in 0..m : g[i] # h[i]}
  <2>. SUFFICES ASSUME T # {}  PROVE FALSE
    OBVIOUS
  <2>0. T \subseteq Nat
    OBVIOUS
  <2>1. PICK i \in T : \A k \in T : i <= k
    <3>. HIDE DEF T
    <3>. QED  BY <2>0, LeastNumber
  <2>2. i # 0 /\ i - 1 \in 0..(m - 1) /\ i - 1 \notin T
    BY <1>2, <2>1
  <2>3. g[i - 1] = h[i - 1] /\ (i - 1) + 1 = i /\ i - 1 \in 0..(n - 1)
    BY <1>2, <2>2, <2>1
  <2>4. g[i] = step[i - 1][g[i - 1]] /\ h[i] = step[i - 1][h[i - 1]]
    BY <1>2, <2>2, <2>3
  <2>. QED  BY <2>1, <2>3, <2>4
<1>. DEFINE chain == [n \in Nat |-> CHOOSE g : Approx(n, g)]
<1>3. \A n \in Nat : Approx(n, chain[n])
  <2>. HIDE DEF Approx
  <2>. QED  BY <1>1
<1>. HIDE DEF chain
<1>. DEFINE f == [n \in Nat |-> chain[n][n]]
<1>4. f \in [Nat -> S]
  BY <1>3
<1>5. f[0] = base
  BY <1>3
<1>6. ASSUME NEW n \in Nat  PROVE f[n + 1] = step[n][f[n]]
  <2>1. Approx(n, chain[n]) /\ Approx(n + 1, chain[n + 1]) /\ n + 1 \in Nat
    <3>1. n \in Nat /\ n + 1 \in Nat
      OBVIOUS
    <3>. HIDE DEF Approx
    <3>. QED  BY <1>3, <3>1
  <2>2. chain[n][n] = chain[n + 1][n]
    <3>. HIDE DEF Approx
    <3>. QED  BY <1>2, <2>1
  <2>3. chain[n + 1][n + 1] = step[n][chain[n + 1][n]]
    BY <2>1
  <2>. QED  BY <2>1, <2>2, <2>3
<1>. QED  BY <1>4, <1>5, <1>6 DEF Recurs
-----------------------------------------------------------------------------
(* ContentOf. *)

\* The texts of the first n + 1 items are those of the first n, and that of
\* the last one if it is content.
LEMMA ContentGrows ==
  ASSUME NEW items
  PROVE  /\ ContentOf(items, 0) = <<>>
         /\ \A n \in Nat :
              ContentOf(items, n + 1) =
                IF IsContent(items[n + 1])
                  THEN Append(ContentOf(items, n), items[n + 1].text)
                ELSE ContentOf(items, n)
<1>. DEFINE Texts == {items[n].text : n \in Nat}
            S == Seq(Texts)
            step == [n \in Nat |-> [s \in S |->
                       IF IsContent(items[n + 1])
                         THEN Append(s, items[n + 1].text) ELSE s]]
            IsTexts(f) == f = [k \in Nat |->
                                 IF k = 0 THEN <<>>
                                 ELSE IF IsContent(items[k])
                                   THEN Append(f[k - 1], items[k].text)
                                 ELSE f[k - 1]]
            texts == CHOOSE f : IsTexts(f)
<1>1. <<>> \in S /\ step \in [Nat -> [S -> S]]
  OBVIOUS
<1>2. PICK f \in [Nat -> S] : Recurs(f, <<>>, step)
  <2>. HIDE DEF S, step
  <2>. QED  BY <1>1, RecursionOnNat
<1>3. IsTexts(f)
  <2>1. ASSUME NEW k \in Nat, k # 0
        PROVE  f[k] = IF IsContent(items[k])
                        THEN Append(f[k - 1], items[k].text) ELSE f[k - 1]
    <3>1. k - 1 \in Nat /\ (k - 1) + 1 = k /\ f[k - 1] \in S
      BY <1>2, <2>1
    <3>2. f[k] = step[k - 1][f[k - 1]]
      BY <1>2, <3>1 DEF Recurs
    <3>. QED  BY <3>1, <3>2
  <2>2. f = [k \in Nat |-> f[k]] /\ f[0] = <<>>
    BY <1>2 DEF Recurs
  <2>. HIDE DEF S
  <2>. QED  BY <2>1, <2>2
<1>4. IsTexts(texts)
  BY <1>3
<1>5. \A n : ContentOf(items, n) = texts[n]
  BY DEF ContentOf
<1>. HIDE DEF texts
<1>6. texts[0] = <<>>
  BY <1>4
<1>7. ASSUME NEW n \in Nat
      PROVE  texts[n + 1] = IF IsContent(items[n + 1])
                              THEN Append(texts[n], items[n + 1].text)
                            ELSE texts[n]
  <2>1. n + 1 \in Nat /\ n + 1 # 0 /\ (n + 1) - 1 = n
    OBVIOUS
  <2>. QED  BY <1>4, <2>1
<1>. QED  BY <1>5, <1>6, <1>7

\* Only the first n items matter.
LEMMA ContentOfPrefix ==
  ASSUME NEW s, NEW t, NEW n \in Nat, \A k \in 1..n : s[k] = t[k]
  PROVE  ContentOf(s, n) = ContentOf(t, n)
<1>. DEFINE T == {k \in 0..n : ContentOf(s, k) # ContentOf(t, k)}
<1>. SUFFICES ASSUME T # {}  PROVE FALSE
  OBVIOUS
<1>1. T \subseteq Nat
  OBVIOUS
<1>2. PICK k \in T : \A j \in T : k <= j
  <2>. HIDE DEF T
  <2>. QED  BY <1>1, LeastNumber
<1>3. k # 0
  BY ContentGrows
<1>4. /\ k \in 1..n /\ k - 1 \in Nat /\ (k - 1) + 1 = k
      /\ ContentOf(s, k - 1) = ContentOf(t, k - 1)
  BY <1>2, <1>3
<1>5. ContentOf(s, k) = ContentOf(t, k)
  BY <1>4, ContentGrows
<1>. QED  BY <1>5
-----------------------------------------------------------------------------
(* The inductive invariant. *)

Proceeding == phase \in {"fetching", "reading"}
Decided    == {"done", "error", "failed"}
Dropped    == {"stopped", "lost", "refused"}
Harmless   == {"message", "notice", "empty"}

\* The last item handled.
LastIs(events) == seen > 0 /\ inbox[seen].event \in events

Typing == /\ inbox \in Seq(Items)
          /\ phase \in {"fetching", "reading", "closing", "settled"}
          /\ seen \in 0..Len(inbox)
          /\ fatal \in BOOLEAN
          /\ outcome \in Outcome
          /\ banner \in BOOLEAN
          /\ Len(partial) \in 0..seen
          /\ partial \in Seq({i.text : i \in Items})

\* What has been put together is what has been read, whatever was decided.
PartialIsContent == partial = ContentOf(inbox, seen)

\* Before the decision everything read was harmless, up to what the parser
\* choked on, and is on the screen.
Before ==
  /\ phase = "fetching" => seen = 0
  /\ Proceeding <=> outcome = "none"
  /\ Proceeding => display = Shown(<<>>, "none")
  /\ Proceeding \/ phase = "closing" =>
       ~banner /\ screen = Shown(partial, "none")

\* How the decision goes with the last item handled.
Decision ==
  /\ \A i \in 1..(seen - 1) : inbox[i].event \in Harmless
  /\ Proceeding => seen = 0 \/ LastIs(Harmless \cup {"unreadable"})
  /\ Proceeding /\ ~fatal => seen = 0 \/ LastIs(Harmless)
  /\ outcome = "done" => LastIs({"done"})
  /\ LastIs({"error"}) <=> outcome = "error"

Note == IF outcome = "done" THEN "none"
        ELSE IF outcome = "error" /\ inbox[seen].class = "content_filter"
          THEN "retracted"
        ELSE "incomplete"

Verdict == Shown(IF Note = "retracted" THEN <<>> ELSE partial, Note)

\* What the decision makes of the message.
After ==
  /\ outcome \in Decided => display = Verdict
  /\ outcome \in Dropped =>
       /\ phase = "settled" /\ banner
       /\ display = Shown(<<>>, "none") /\ screen = Shown(partial, "none")
  /\ phase = "settled" /\ outcome \in Decided => screen = display

IInv == Typing /\ PartialIsContent /\ Before /\ Decision /\ After

\* A turn begins with an empty screen and an empty connection.
LEMMA InitIsGood == Init => IInv
<1>. SUFFICES ASSUME Init  PROVE IInv
  OBVIOUS
<1>. USE DEF Init, ClientInit, ServerInit
<1>1. Typing
  <2>1. inbox = <<>> /\ inbox \in Seq(Items) /\ Len(inbox) = 0
    OBVIOUS
  <2>2. partial \in Seq({i.text : i \in Items}) /\ Len(partial) = 0
    OBVIOUS
  <2>3. seen \in 0..Len(inbox) /\ Len(partial) \in 0..seen
    BY <2>1, <2>2
  <2>4. fatal \in BOOLEAN /\ banner \in BOOLEAN
    OBVIOUS
  <2>5. outcome \in Outcome /\ phase = "fetching"
    BY DEF Outcome
  <2>. QED  BY <2>1, <2>2, <2>3, <2>4, <2>5 DEF Typing
<1>2. PartialIsContent
  BY ContentGrows DEF PartialIsContent
<1>3. Before /\ Decision /\ After
  BY DEF Before, Proceeding, Decision, LastIs, After, Decided, Dropped
<1>. QED  BY <1>1, <1>2, <1>3 DEF IInv
-----------------------------------------------------------------------------
(* The server. *)

\* More of the same inbox: whatever the client has read stays what it was.
LEMMA InboxGrows ==
  ASSUME IInv, UNCHANGED clientVars,
         inbox' = inbox \/ \E i \in Items : inbox' = Append(inbox, i)
  PROVE  IInv'
<1>1. /\ inbox \in Seq(Items) /\ seen \in 0..Len(inbox) /\ seen \in Nat
  BY DEF IInv, Typing
<1>2. /\ inbox' \in Seq(Items) /\ seen \in 0..Len(inbox')
      /\ \A k \in 1..seen : inbox'[k] = inbox[k]
  BY <1>1
<1>3. ContentOf(inbox', seen) = ContentOf(inbox, seen)
  BY <1>1, <1>2, ContentOfPrefix
<1>4. seen > 0 => seen \in 1..seen
  BY <1>1
<1>5. Typing' /\ PartialIsContent'
  BY <1>2, <1>3 DEF IInv, Typing, PartialIsContent, clientVars
<1>6. Before' /\ After'
  <2>1. outcome = "error" => inbox'[seen] = inbox[seen]
    BY <1>2, <1>4 DEF IInv, Decision, LastIs
  <2>2. Note' = Note /\ Verdict' = Verdict
    BY <2>1 DEF Note, Verdict, clientVars
  <2>. QED  BY <2>2 DEF IInv, Before, Proceeding, After, clientVars
<1>7. Decision'
  <2>1. \A events : LastIs(events) <=> seen > 0 /\ inbox'[seen].event \in events
    BY <1>2, <1>4 DEF LastIs
  <2>2. \A i \in 1..(seen - 1) : inbox'[i] = inbox[i]
    BY <1>1, <1>2
  <2>. QED
    BY <2>1, <2>2 DEF IInv, Decision, LastIs, Proceeding, clientVars
<1>. QED  BY <1>5, <1>6, <1>7 DEF IInv
-----------------------------------------------------------------------------
(* The client. *)

\* One more item is handled, and its text added if it is content.
LEMMA OneMoreItem ==
  ASSUME IInv, seen < Len(inbox), seen' = seen + 1, inbox' = inbox,
         partial' = IF IsContent(Next1) THEN Append(partial, Next1.text)
                    ELSE partial
  PROVE  /\ PartialIsContent'
         /\ partial' \in Seq({i.text : i \in Items})
         /\ Len(partial') \in 0..seen'
         /\ seen' \in 0..Len(inbox') /\ seen' > 0
         /\ inbox'[seen'] = Next1
         /\ Proceeding /\ ~fatal =>
              \A i \in 1..(seen' - 1) : inbox'[i].event \in Harmless
<1>1. /\ inbox \in Seq(Items) /\ seen \in Nat /\ seen + 1 \in 1..Len(inbox)
      /\ partial \in Seq({i.text : i \in Items}) /\ Len(partial) \in 0..seen
  BY DEF IInv, Typing
<1>2. Next1 \in Items /\ Next1.text \in {i.text : i \in Items}
  BY <1>1 DEF Next1
<1>3. ContentOf(inbox, seen + 1) =
        IF IsContent(Next1) THEN Append(ContentOf(inbox, seen), Next1.text)
        ELSE ContentOf(inbox, seen)
  BY <1>1, ContentGrows DEF Next1
<1>4. PartialIsContent'
  BY <1>3 DEF IInv, PartialIsContent
<1>5. partial' \in Seq({i.text : i \in Items}) /\ Len(partial') \in 0..seen'
  <2>1. CASE IsContent(Next1)
    <3>. DEFINE Texts == {i.text : i \in Items}
    <3>1. partial \in Seq(Texts) /\ Next1.text \in Texts
      BY <1>1, <1>2
    <3>. HIDE DEF Texts
    <3>2. /\ Append(partial, Next1.text) \in Seq(Texts)
          /\ Len(Append(partial, Next1.text)) = Len(partial) + 1
      BY <3>1
    <3>. USE DEF Texts
    <3>. QED  BY <1>1, <2>1, <3>2
  <2>2. CASE ~IsContent(Next1)
    BY <1>1, <2>2
  <2>. QED  BY <2>1, <2>2
<1>6. /\ seen' \in 0..Len(inbox') /\ seen' > 0
      /\ inbox'[seen'] = Next1
  BY <1>1 DEF Next1
<1>7. ASSUME Proceeding, ~fatal, NEW i \in 1..(seen' - 1)
      PROVE  inbox'[i].event \in Harmless
  <2>1. i \in 1..(seen - 1) \/ (i = seen /\ seen # 0)
    BY <1>1, <1>7
  <2>. QED  BY <1>7, <2>1 DEF IInv, Decision, LastIs
<1>. QED  BY <1>4, <1>5, <1>6, <1>7

\* A message or a notice of the server is rendered and counted.
LEMMA Render == IInv /\ HandleContent /\ UNCHANGED serverVars => IInv'
<1>. SUFFICES ASSUME IInv, HandleContent, UNCHANGED serverVars  PROVE IInv'
  OBVIOUS
<1>1. /\ Proceeding /\ Proceeding' /\ ~fatal /\ ~fatal' /\ inbox' = inbox
      /\ IsContent(Next1) /\ Next1.event \in Harmless
      /\ seen < Len(inbox) /\ seen' = seen + 1
      /\ partial' = Append(partial, Next1.text)
  BY DEF HandleContent, Handles, Proceeding, IsContent, Harmless, serverVars
<1>2. /\ PartialIsContent'
      /\ partial' \in Seq({i.text : i \in Items})
      /\ Len(partial') \in 0..seen'
      /\ seen' \in 0..Len(inbox') /\ seen' > 0
      /\ inbox'[seen'] = Next1
      /\ \A i \in 1..(seen' - 1) : inbox'[i].event \in Harmless
  BY <1>1, OneMoreItem
<1>3. Typing'
  BY <1>1, <1>2 DEF IInv, Typing, HandleContent, Handles
<1>4. Before'
  BY <1>1 DEF IInv, Before, Proceeding, HandleContent, Handles
<1>5. Decision'
  BY <1>1, <1>2
  DEF IInv, Before, Decision, LastIs, Harmless, HandleContent
<1>6. After'
  BY <1>1 DEF IInv, Before, After, Decided, Dropped, HandleContent
<1>. QED  BY <1>2, <1>3, <1>4, <1>5, <1>6 DEF IInv

\* An item that is not content is handled and the turn goes on.
LEMMA Skip ==
  ASSUME IInv, Proceeding, Proceeding', ~fatal, inbox' = inbox,
         seen < Len(inbox), seen' = seen + 1,
         ~IsContent(Next1), Next1.event \in Harmless \cup {"unreadable"},
         fatal' \in BOOLEAN, Next1.event \in Harmless \/ fatal',
         UNCHANGED <<phase, partial, outcome, display, screen, banner>>,
         phase = "reading"
  PROVE  IInv'
<1>1. /\ PartialIsContent'
      /\ partial' \in Seq({i.text : i \in Items})
      /\ Len(partial') \in 0..seen'
      /\ seen' \in 0..Len(inbox') /\ seen' > 0
      /\ inbox'[seen'] = Next1
      /\ \A i \in 1..(seen' - 1) : inbox'[i].event \in Harmless
  BY OneMoreItem
<1>2. Typing'
  BY <1>1 DEF IInv, Typing
<1>3. Before'
  BY DEF IInv, Before, Proceeding
<1>4. Decision'
  BY <1>1 DEF IInv, Before, Decision, LastIs, Harmless
<1>5. After'
  BY DEF IInv, Before, After, Decided, Dropped
<1>. QED  BY <1>1, <1>2, <1>3, <1>4, <1>5 DEF IInv

\* The consumer decides, having handled one more item or none.
LEMMA Decide ==
  ASSUME IInv, phase = "reading", inbox' = inbox,
         NEW terminal \in Decided, NEW retract \in BOOLEAN,
         outcome' = terminal, display' = DisplayText(terminal, retract),
         UNCHANGED <<fatal, partial, banner>>,
         \/ phase' = "closing" /\ screen' = screen
         \/ phase' = "settled" /\ screen' = display',
         \/ /\ ~fatal /\ seen < Len(inbox) /\ seen' = seen + 1
            /\ ~IsContent(Next1)
            /\ Next1.event = "done" <=> terminal = "done"
            /\ Next1.event = "error" <=> terminal = "error"
            /\ retract = (terminal = "error" /\ Next1.class = "content_filter")
         \/ seen' = seen /\ terminal = "failed" /\ retract = FALSE
  PROVE  IInv'
<1>0. Proceeding /\ ~Proceeding'
  BY DEF Proceeding
<1>1. CASE /\ ~fatal /\ seen < Len(inbox) /\ seen' = seen + 1
           /\ ~IsContent(Next1)
           /\ Next1.event = "done" <=> terminal = "done"
           /\ Next1.event = "error" <=> terminal = "error"
           /\ retract = (terminal = "error" /\ Next1.class = "content_filter")
  <2>1. /\ PartialIsContent'
        /\ partial' \in Seq({i.text : i \in Items})
        /\ Len(partial') \in 0..seen'
        /\ seen' \in 0..Len(inbox') /\ seen' > 0
        /\ inbox'[seen'] = Next1
        /\ \A i \in 1..(seen' - 1) : inbox'[i].event \in Harmless
    BY <1>0, <1>1, OneMoreItem
  <2>2. Typing'
    BY <1>0, <2>1 DEF IInv, Typing, Decided, Outcome
  <2>3. Before'
    BY <1>0 DEF IInv, Before, Proceeding, Decided
  <2>4. Decision'
    BY <1>0, <1>1, <2>1 DEF Decision, LastIs
  <2>5. display' = Verdict'
    BY <1>1, <2>1 DEF DisplayText, Verdict, Note, Decided
  <2>6. After'
    BY <2>5 DEF After, Decided, Dropped
  <2>. QED  BY <2>1, <2>2, <2>3, <2>4, <2>6 DEF IInv
<1>2. CASE seen' = seen /\ terminal = "failed" /\ retract = FALSE
  <2>1. Typing'
    BY <1>2 DEF IInv, Typing, Decided, Outcome
  <2>2. PartialIsContent'
    BY <1>2 DEF IInv, PartialIsContent
  <2>3. Before'
    BY <1>0, <1>2 DEF IInv, Before, Proceeding
  <2>4. Decision'
    BY <1>0, <1>2 DEF IInv, Before, Decision, LastIs
  <2>5. display' = Verdict'
    BY <1>2 DEF DisplayText, Verdict, Note, Decided
  <2>6. After'
    BY <2>5 DEF After, Decided, Dropped
  <2>. QED  BY <2>1, <2>2, <2>3, <2>4, <2>6 DEF IInv
<1>. QED  BY <1>1, <1>2

\* The turn is given up with a banner.
LEMMA GiveUp ==
  ASSUME IInv, Proceeding, UNCHANGED serverVars,
         NEW why \in Dropped, Abandon(why)
  PROVE  IInv'
<1>0. ~Proceeding' /\ phase' = "settled" /\ outcome' = why
  BY DEF Proceeding, Abandon
<1>1. Typing'
  BY <1>0 DEF IInv, Typing, Dropped, Outcome, Abandon, serverVars
<1>2. PartialIsContent'
  BY DEF IInv, PartialIsContent, Abandon, serverVars
<1>3. Before'
  BY <1>0 DEF IInv, Before, Dropped, Abandon
<1>4. Decision'
  BY <1>0 DEF IInv, Before, Decision, LastIs, Dropped, Abandon, serverVars
<1>5. After'
  BY <1>0 DEF IInv, Before, After, Decided, Dropped, Abandon
<1>. QED  BY <1>1, <1>2, <1>3, <1>4, <1>5 DEF IInv

\* The last rendering.
LEMMA Rendered == IInv /\ Settle /\ UNCHANGED serverVars => IInv'
<1>. SUFFICES ASSUME IInv, Settle, UNCHANGED serverVars  PROVE IInv'
  OBVIOUS
<1>0. ~Proceeding /\ ~Proceeding'
  BY DEF Proceeding, Settle
<1>1. Typing' /\ PartialIsContent'
  BY DEF IInv, Typing, PartialIsContent, Settle, serverVars
<1>2. Before'
  BY <1>0 DEF IInv, Before, Settle
<1>3. Decision'
  BY <1>0 DEF IInv, Decision, LastIs, Settle, serverVars
<1>4. Verdict' = Verdict
  BY DEF Verdict, Note, Settle, serverVars
<1>5. After'
  BY <1>4 DEF IInv, After, Settle
<1>. QED  BY <1>1, <1>2, <1>3, <1>5 DEF IInv
-----------------------------------------------------------------------------
(* All together. *)

\* Every step of the turn or of the server keeps the invariant.
LEMMA StepIsGood == IInv /\ [Next]_vars => IInv'
<1>. SUFFICES ASSUME IInv, [Next]_vars  PROVE IInv'
  OBVIOUS
<1>1. ASSUME FetchRefused, UNCHANGED serverVars  PROVE IInv'
  BY <1>1, GiveUp DEF FetchRefused, Proceeding, Dropped
<1>2. ASSUME FetchResponds, UNCHANGED serverVars  PROVE IInv'
  <2>1. Proceeding /\ Proceeding'
    BY <1>2 DEF FetchResponds, Proceeding
  <2>2. Typing' /\ PartialIsContent'
    BY <1>2 DEF IInv, Typing, PartialIsContent, FetchResponds, serverVars
  <2>3. Before'
    BY <1>2, <2>1 DEF IInv, Before, FetchResponds
  <2>4. Decision'
    BY <1>2, <2>1 DEF IInv, Decision, LastIs, FetchResponds, serverVars
  <2>5. Verdict' = Verdict
    BY <1>2 DEF Verdict, Note, FetchResponds, serverVars
  <2>6. After'
    BY <1>2, <2>5 DEF IInv, After, FetchResponds, Dropped
  <2>. QED  BY <2>2, <2>3, <2>4, <2>6 DEF IInv
<1>3. ASSUME ConnectionLost, UNCHANGED serverVars  PROVE IInv'
  BY <1>3, GiveUp DEF ConnectionLost, Proceeding, Dropped
<1>4. ASSUME UserStops, UNCHANGED serverVars  PROVE IInv'
  BY <1>4, GiveUp DEF UserStops, Proceeding, Dropped
<1>5. ASSUME Handle, UNCHANGED serverVars  PROVE IInv'
  <2>1. CASE HandleContent
    BY <1>5, <2>1, Render
  <2>2. CASE HandleEmpty
    BY <1>5, <2>2, Skip
    DEF HandleEmpty, Handles, Proceeding, IsContent, Harmless, IInv, Typing,
        serverVars
  <2>3. CASE HandleDone
    BY <1>5, <2>3, Decide
    DEF HandleDone, Handles, Conclude, IsContent, Decided, serverVars
  <2>4. CASE HandleError
    BY <1>5, <2>4, Decide
    DEF HandleError, Handles, Conclude, IsContent, Decided, serverVars
  <2>5. CASE HandleIllegal
    BY <1>5, <2>5, Decide
    DEF HandleIllegal, Handles, Conclude, IsContent, Decided, serverVars
  <2>6. CASE ParserFails
    BY <1>5, <2>6, Skip
    DEF ParserFails, Proceeding, IsContent, Harmless, serverVars
  <2>7. CASE FatalSurfaces
    BY <1>5, <2>7, Decide
    DEF FatalSurfaces, Conclude, Decided, serverVars
  <2>8. CASE BodyEnds
    BY <1>5, <2>8, Decide DEF BodyEnds, Decided, serverVars
  <2>. QED  BY <1>5, <2>1, <2>2, <2>3, <2>4, <2>5, <2>6, <2>7, <2>8 DEF Handle
<1>6. ASSUME Settle, UNCHANGED serverVars  PROVE IInv'
  BY <1>6, Rendered
<1>7. ASSUME Server  PROVE IInv'
  BY <1>7, InboxGrows DEF Server, Respond, Deliver, CloseBody
<1>8. ASSUME UNCHANGED vars  PROVE IInv'
  BY <1>8, InboxGrows DEF vars, serverVars
<1>. QED
  BY <1>1, <1>2, <1>3, <1>4, <1>5, <1>6, <1>7, <1>8 DEF Next, ClientStep

\* The inductive invariant holds of every behaviour.
THEOREM Inductive == Spec => []IInv
<1>1. Init => IInv
  BY InitIsGood
<1>2. IInv /\ [Next]_vars => IInv'
  BY StepIsGood
<1>. QED  BY <1>1, <1>2, PTL DEF Spec
-----------------------------------------------------------------------------
(* What follows from it. *)

\* Where the turn stands decides what the message shows.
LEMMA WhatIsShown ==
  ASSUME IInv
  PROVE  /\ outcome = "none" => screen = Shown(partial, "none")
         /\ outcome \in Dropped =>
              screen = Shown(partial, "none") /\ display = Shown(<<>>, "none")
         /\ outcome \in Decided =>
              /\ display = Verdict
              /\ phase = "settled" => screen = Verdict
              /\ phase # "settled" => screen = Shown(partial, "none")
         /\ outcome = "none" \/ outcome \in Dropped \/ outcome \in Decided
<1>1. outcome \in Outcome /\ phase \in {"fetching", "reading", "closing", "settled"}
  BY DEF IInv, Typing
<1>2. outcome = "none" \/ outcome \in Dropped \/ outcome \in Decided
  BY <1>1 DEF Outcome, Dropped, Decided
<1>3. Proceeding <=> outcome = "none"
  BY DEF IInv, Before
<1>4. ~Proceeding => phase \in {"closing", "settled"}
  BY <1>1 DEF Proceeding
<1>5. outcome \in Decided => outcome # "none"
  BY DEF Decided
<1>. QED
  BY <1>2, <1>3, <1>4, <1>5 DEF IInv, Before, After

\* The two parts of what the user sees.
LEMMA RecordFields ==
  ASSUME NEW texts, NEW note
  PROVE  Shown(texts, note).texts = texts /\ Shown(texts, note).note = note
BY DEF Shown

\* Whatever the server sends, the consumer never counts more than it was
\* sent, and the parts of its state stay in their ranges.
THEOREM TypeCorrect == Spec => []TypeOK
<1>1. IInv => TypeOK
  <2>. SUFFICES ASSUME IInv  PROVE TypeOK
    OBVIOUS
  <2>1. Note \in {"none", "incomplete", "retracted"}
    BY DEF Note
  <2>2. /\ display.note \in {"none", "incomplete", "retracted"}
        /\ screen.note \in {"none", "incomplete", "retracted"}
    <3>1. outcome = "none" => display = Shown(<<>>, "none")
      BY DEF IInv, Before
    <3>. QED  BY <2>1, <3>1, WhatIsShown, RecordFields DEF Verdict
  <2>3. Len(partial) <= seen
    BY DEF IInv, Typing
  <2>. QED  BY <2>2, <2>3 DEF IInv, Typing, TypeOK
<1>. QED  BY <1>1, Inductive, PTL

\* A message that looks complete has been earned: done was received after
\* nothing but harmless items, and every text received is on the screen.
THEOREM CompleteTurnsAreEarned == Spec => []CompleteIsEarned
<1>1. IInv => CompleteIsEarned
  <2>. SUFFICES ASSUME IInv, outcome = "done"  PROVE CompleteIsEarned
    BY DEF CompleteIsEarned
  <2>1. /\ seen > 0 /\ inbox[seen].event = "done"
        /\ \A i \in 1..(seen - 1) : inbox[i].event \in {"message", "notice", "empty"}
    BY DEF IInv, Decision, LastIs, Harmless
  <2>2. Verdict = Shown(partial, "none") /\ outcome \in Decided
    BY DEF Verdict, Note, Decided
  <2>3. screen = Shown(partial, "none")
    BY <2>2, WhatIsShown
  <2>. QED  BY <2>1, <2>3 DEF CompleteIsEarned, IInv, PartialIsContent
<1>. QED  BY <1>1, Inductive, PTL

\* A turn that failed says so: in the message, or with a banner.
THEOREM FailuresAreVisible == Spec => []FailureIsVisible
<1>1. IInv => FailureIsVisible
  <2>. SUFFICES ASSUME IInv, phase = "settled", outcome # "done"
                PROVE  screen.note # "none" \/ banner
    BY DEF FailureIsVisible
  <2>1. outcome # "none"
    BY DEF IInv, Before, Proceeding
  <2>2. CASE outcome \in Dropped
    BY <2>2 DEF IInv, After
  <2>3. CASE outcome \in Decided
    <3>1. screen = Verdict /\ Note # "none"
      BY <2>3, WhatIsShown DEF Note
    <3>. QED  BY <3>1, RecordFields DEF Verdict
  <2>. QED  BY <2>1, <2>2, <2>3, WhatIsShown
<1>. QED  BY <1>1, Inductive, PTL

\* Text leaves the screen only when the content filter could not clear it.
THEOREM NothingElseIsRetracted == Spec => []ScreenIsFaithful
<1>1. IInv => ScreenIsFaithful
  <2>. SUFFICES ASSUME IInv  PROVE ScreenIsFaithful
    OBVIOUS
  <2>. DEFINE Condemned == /\ seen > 0
                           /\ inbox[seen].event = "error"
                           /\ inbox[seen].class = "content_filter"
  <2>1. partial = ContentOf(inbox, seen)
    BY DEF IInv, PartialIsContent
  <2>2. (seen > 0 /\ inbox[seen].event = "error") <=> outcome = "error"
    BY DEF IInv, Decision, LastIs
  <2>3. CASE phase = "settled" /\ Condemned
    <3>1. outcome = "error" /\ outcome \in Decided
      BY <2>2, <2>3 DEF Decided
    <3>2. Verdict = Shown(<<>>, "retracted")
      BY <2>3, <3>1 DEF Verdict, Note
    <3>. QED  BY <2>3, <3>1, <3>2, WhatIsShown DEF ScreenIsFaithful
  <2>4. CASE ~(phase = "settled" /\ Condemned)
    <3>1. screen.texts = partial
      <4>1. CASE phase # "settled" \/ outcome \notin Decided
        BY <4>1, WhatIsShown, RecordFields
      <4>2. CASE phase = "settled" /\ outcome \in Decided
        <5>1. Note # "retracted"
          BY <2>2, <2>4, <4>2 DEF Note
        <5>2. screen = Shown(partial, Note)
          BY <4>2, <5>1, WhatIsShown DEF Verdict
        <5>. QED  BY <5>2, RecordFields
      <4>. QED  BY <4>1, <4>2
    <3>. QED  BY <2>1, <2>4, <3>1 DEF ScreenIsFaithful
  <2>. QED  BY <2>3, <2>4
<1>. QED  BY <1>1, Inductive, PTL

\* Once the turn is decided, the only thing left to do is to render it.
THEOREM VerdictsAreFinal == Spec => VerdictIsFinal
<1>1. IInv /\ [Next]_vars =>
        [outcome # "none" => UNCHANGED <<outcome, display, banner>>]_vars
  <2>. SUFFICES ASSUME IInv, [Next]_vars, outcome # "none"
                PROVE  UNCHANGED <<outcome, display, banner>>
    OBVIOUS
  <2>1. phase \notin {"fetching", "reading"}
    BY DEF IInv, Before, Proceeding
  <2>2. ~FetchRefused /\ ~FetchResponds /\ ~ConnectionLost /\ ~UserStops
    BY <2>1 DEF FetchRefused, FetchResponds, ConnectionLost, UserStops
  <2>3. ~Handle
    BY <2>1 DEF Handle, HandleContent, HandleEmpty, HandleDone, HandleError,
                HandleIllegal, ParserFails, FatalSurfaces, BodyEnds, Handles
  <2>4. Settle \/ UNCHANGED clientVars
    BY <2>2, <2>3 DEF Next, ClientStep, Server, Respond, Deliver, CloseBody, vars
  <2>. QED  BY <2>4 DEF Settle, clientVars
<1>. QED  BY <1>1, Inductive, PTL DEF Spec, VerdictIsFinal
-----------------------------------------------------------------------------
(* Why a turn fails. *)

\* The consumer gives up on its own only after an item that it could not
\* read or did not know, or at the end of a body that it has read completely.
Cause ==
  /\ fatal => LastIs({"unreadable"})
  /\ outcome = "failed" => \/ LastIs({"illegal", "unreadable"})
                           \/ body = "ended" /\ seen = Len(inbox)

\* A cause remains one: what was read stays, and nothing follows the end.
LEMMA CauseRemains ==
  ASSUME IInv, Cause, UNCHANGED <<seen, fatal>>,
         outcome' = "failed" => outcome = "failed",
         body = "ended" => UNCHANGED serverVars,
         inbox' = inbox \/ \E i \in Items : inbox' = Append(inbox, i)
  PROVE  Cause'
<1>1. seen > 0 => inbox'[seen] = inbox[seen]
  BY DEF IInv, Typing
<1>. QED  BY <1>1 DEF Cause, LastIs, serverVars

\* No step fails without a cause.
LEMMA CauseStep == IInv /\ Cause /\ [Next]_vars => Cause'
<1>. SUFFICES ASSUME IInv, Cause, [Next]_vars  PROVE Cause'
  OBVIOUS
<1>1. ASSUME \/ FetchRefused \/ FetchResponds \/ ConnectionLost
             \/ UserStops \/ Settle,
             UNCHANGED serverVars
      PROVE  Cause'
  BY <1>1, CauseRemains
  DEF FetchRefused, FetchResponds, ConnectionLost, UserStops, Settle, Abandon,
      serverVars
<1>2. ASSUME Handle, UNCHANGED serverVars  PROVE Cause'
  <2>1. seen \in Nat /\ seen + 1 > 0
    BY DEF IInv, Typing
  <2>2. phase = "reading" => outcome = "none"
    BY DEF IInv, Before, Proceeding
  <2>3. CASE HandleContent \/ HandleEmpty
    BY <2>2, <2>3 DEF HandleContent, HandleEmpty, Handles, Cause
  <2>4. CASE HandleDone
    BY <2>4 DEF HandleDone, Handles, Conclude, Cause
  <2>5. CASE HandleError
    BY <2>5 DEF HandleError, Handles, Conclude, Cause
  <2>6. CASE HandleIllegal
    <3>1. /\ ~fatal' /\ seen' = seen + 1 /\ inbox' = inbox
          /\ inbox[seen + 1].event = "illegal"
      BY <1>2, <2>6 DEF HandleIllegal, Handles, Next1, serverVars
    <3>. QED  BY <2>1, <3>1 DEF Cause, LastIs
  <2>7. CASE ParserFails
    <3>1. /\ outcome' = outcome /\ seen' = seen + 1 /\ inbox' = inbox
          /\ inbox[seen + 1].event = "unreadable" /\ phase = "reading"
      BY <1>2, <2>7 DEF ParserFails, Next1, serverVars
    <3>. QED  BY <2>1, <2>2, <3>1 DEF Cause, LastIs
  <2>8. CASE FatalSurfaces
    BY <1>2, <2>8 DEF FatalSurfaces, Conclude, Cause, LastIs, serverVars
  <2>9. CASE BodyEnds
    BY <1>2, <2>9 DEF BodyEnds, Cause, LastIs, serverVars
  <2>. QED
    BY <1>2, <2>3, <2>4, <2>5, <2>6, <2>7, <2>8, <2>9 DEF Handle
<1>3. ASSUME Server  PROVE Cause'
  BY <1>3, CauseRemains
  DEF Server, Respond, Deliver, CloseBody, clientVars, serverVars
<1>4. ASSUME UNCHANGED vars  PROVE Cause'
  BY <1>4, CauseRemains DEF vars, clientVars, serverVars
<1>. QED
  BY <1>1, <1>2, <1>3, <1>4 DEF Next, ClientStep

\* The consumer declares a turn failed only over an item outside the contract,
\* or when the body has ended and every item of it was read.
THEOREM FailuresHaveCauses == Spec => []Cause
<1>1. Init => Cause
  BY DEF Init, ClientInit, Cause, LastIs
<1>. QED  BY <1>1, CauseStep, Inductive, PTL DEF Spec
=============================================================================
