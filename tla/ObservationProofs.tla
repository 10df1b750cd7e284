-------------------------- MODULE ObservationProofs --------------------------
(***************************************************************************)
(* Proofs about Observation, for every schedule, every interval and every  *)
(* threshold, as long as an execution is ended before the next one is      *)
(* created.  That is the whole point: the conditions of collect.sql do not *)
(* keep two runs apart (run observe_overlap), the run limit does.          *)
(***************************************************************************)
EXTENDS Observation, TLAPS

\* replica_timeout_in_seconds is 55, the schedule that of every minute.  What
\* is proved below has this as its assumption.
LimitIsBelowPeriod == RunLimit < Period

USE DEF Never

-----------------------------------------------------------------------------
(* The inductive invariant. *)

Place == {"idle", "starting", "marking", "marked", "table", "db", "bloat",
          "commit"}

Names == {"none", "marker", "heartbeat"}

Executions == [pc : Place, since : 0..RunLimit, now : 0..RunLimit,
               wrote : SUBSET Series, names : Names]

Typing ==
  /\ age \in [Series -> Int]
  /\ \A s \in Series : age[s] \in {Never} \cup 0..Old(s)
  /\ run \in [Runs -> Executions]
  /\ \A r \in Runs : run[r].now <= run[r].since
  /\ clock \in 0..(Period - 1)
  /\ due \in BOOLEAN
  /\ missed \in [{"t1", "t2"} -> 0..Many]
  /\ probe \in {"none", "checked", "green", "red"}
  /\ table \in [db : Names, ops : Names, api : Names]

\* An execution is as old as the mark of the schedule it was created at, so
\* it is gone before the next mark.
OneAtATime ==
  /\ due => clock = 0
  /\ \A r \in Runs : InFlight(r) => run[r].since = clock /\ ~due
  /\ \A q, r \in Runs : InFlight(q) /\ InFlight(r) => q = r

\* The condition of a sample, whatever the transaction has written.
Ripe(r, s) == age[s] = Never \/ age[s] >= run[r].now + Interval[s]

\* What a run has written, by the statement it is at.  From the first sample
\* to the commit the condition of that sample stays what it was.
Draft(r) ==
  /\ run[r].pc \in {"idle", "starting", "marked", "table"} => run[r].wrote = {}
  /\ run[r].pc = "marking" => run[r].wrote = {"heartbeat"}
  /\ run[r].pc = "db" => /\ run[r].wrote \subseteq {"table"}
                         /\ ("table" \in run[r].wrote) <=> Ripe(r, "db")
  /\ run[r].pc = "bloat" => run[r].wrote \subseteq {"table", "db"}
  /\ run[r].pc = "commit" => run[r].wrote \subseteq {"table", "db", "bloat"}
  /\ run[r].pc \in {"bloat", "commit"} =>
       (("table" \in run[r].wrote) <=> ("db" \in run[r].wrote))
  /\ \A s \in run[r].wrote \ {"heartbeat"} : Ripe(r, s)

Drafts == \A r \in Runs : Draft(r)

IInv == Typing /\ OneAtATime /\ Drafts /\ SeriesInStep

-----------------------------------------------------------------------------
(* Arithmetic. *)

\* The bound of the counters of missed executions is a number.
LEMMA ManyIsNat == Many \in Nat \ {0}
<1>1. \E n \in {MaxAge[s] : s \in Series} : \A s \in Series : n >= MaxAge[s]
  BY SeriesHaveTimes, SMTT(30) DEF Series, Judged
<1>2. DEFINE n == CHOOSE n \in {MaxAge[s] : s \in Series} :
                    \A s \in Series : n >= MaxAge[s]
<1>3. n \in Nat
  BY <1>1, SeriesHaveTimes
<1> HIDE DEF n
<1>4. n \div Period \in Nat
  BY <1>3, TimesArePositive
<1>5. Many = 1 + (n \div Period)
  BY DEF Many, n
<1>6. QED BY <1>4, <1>5

\* A miss is counted up to a bound.
LEMMA MissingIsTyped ==
  ASSUME missed \in [{"t1", "t2"} -> 0..Many], NEW ts
  PROVE  Missing(ts) \in [{"t1", "t2"} -> 0..Many]
BY ManyIsNat DEF Missing, Least

\* The ages in the range that Typing gives them.
LEMMA AgesStayInRange ==
  ASSUME NEW s \in Series, NEW a \in {Never} \cup 0..Old(s)
  PROVE  /\ Older(a, s) \in {Never} \cup 0..Old(s)
         /\ \A t \in 0..RunLimit : Newest(a, t) \in 0..Old(s)
         /\ Old(s) \in Nat
BY SeriesHaveTimes, TimesArePositive, ThresholdsAreApart
DEF Older, Newest, Least, Old

\* Where no execution is in flight, the record has the type of one.
LEMMA IdleIsExecution == Idle \in Executions /\ Idle.now <= Idle.since
BY TimesArePositive DEF Idle, Execution, Executions, Place, Names

\* The mark of the schedule is not reached while an execution may go on.
LEMMA ClockTurns ==
  ASSUME LimitIsBelowPeriod, NEW c \in 0..(Period - 1)
  PROVE  /\ (c + 1) % Period \in 0..(Period - 1)
         /\ c < RunLimit => (c + 1) % Period = c + 1
BY TimesArePositive DEF LimitIsBelowPeriod

-----------------------------------------------------------------------------
(* The invariant holds at the beginning and is kept by every action. *)

\* It holds on empty tables.
LEMMA InitIsGood == Init => IInv
<1> SUFFICES ASSUME Init PROVE IInv
  OBVIOUS
<1>1. Typing
  <2>1. Idle \in Executions
    BY IdleIsExecution
  <2>2. run \in [Runs -> Executions] /\ \A r \in Runs : run[r].now <= run[r].since
    BY <2>1 DEF Init, Idle, Execution
  <2>3. missed \in [{"t1", "t2"} -> 0..Many]
    BY ManyIsNat DEF Init
  <2>4. clock \in 0..(Period - 1) /\ due \in BOOLEAN
    BY TimesArePositive DEF Init
  <2>5. /\ age \in [Series -> Int]
        /\ \A s \in Series : age[s] \in {Never} \cup 0..Old(s)
    BY SMT DEF Init
  <2>6. /\ probe \in {"none", "checked", "green", "red"}
        /\ table \in [db : Names, ops : Names, api : Names]
    BY DEF Init, Names
  <2>7. QED
    BY <2>2, <2>3, <2>4, <2>5, <2>6 DEF Typing
<1>2. OneAtATime
  BY DEF Init, OneAtATime, InFlight, Idle, Execution
<1>3. Drafts
  BY DEF Init, Drafts, Draft, Idle, Execution
<1>4. SeriesInStep
  BY DEF Init, SeriesInStep, Series, Judged
<1>5. QED
  BY <1>1, <1>2, <1>3, <1>4 DEF IInv

\* While time passes a condition stays true or false: the age of the newest
\* sample and the age of the transaction grow alike, and the age that stops
\* growing is above any that the condition asks for.
LEMMA TimeKeepsRipeness ==
  ASSUME LimitIsBelowPeriod, IInv, Tick, NEW r \in Runs, InFlight(r),
         NEW s \in Series
  PROVE  Ripe(r, s)' <=> Ripe(r, s)
<1>1. /\ run'[r].now = run[r].now + 1
      /\ run[r].since < RunLimit
      /\ age'[s] = Older(age[s], s)
  BY DEF Tick, Passes, Execution
<1>2. /\ run[r] \in Executions
      /\ run[r].now <= run[r].since
      /\ age[s] \in {Never} \cup 0..Old(s)
  BY DEF IInv, Typing
<1>3. /\ run[r].now \in 0..RunLimit
      /\ run[r].since \in 0..RunLimit
  BY <1>2 DEF Executions
<1>4. QED
  BY <1>1, <1>2, <1>3, SeriesHaveTimes, TimesArePositive, ThresholdsAreApart
  DEF Ripe, Older, Old, Least

\* Time passes, for the series and for who is in flight.
LEMMA TickIsGood ==
  ASSUME LimitIsBelowPeriod, IInv, Tick
  PROVE  IInv'
<1>1. \A r \in Runs :
        /\ run[r] \in Executions
        /\ ~InFlight(r) => run'[r] = Idle
        /\ InFlight(r) => /\ run[r].since < RunLimit
                         /\ run'[r] = Execution(run[r].pc, run[r].since + 1,
                                run[r].now + 1, run[r].wrote, run[r].names)
  BY DEF IInv, Typing, Tick, Passes
<1>2. ASSUME NEW r \in Runs
      PROVE  /\ run'[r].pc = run[r].pc
             /\ InFlight(r) => /\ run'[r].wrote = run[r].wrote
                              /\ run'[r].since = run[r].since + 1
                              /\ run'[r].now = run[r].now + 1
                              /\ run'[r].names = run[r].names
             /\ ~InFlight(r) => run'[r].wrote = {}
  <2>1. CASE InFlight(r)
    <3>1. run'[r] = Execution(run[r].pc, run[r].since + 1, run[r].now + 1,
                              run[r].wrote, run[r].names)
      BY <2>1, <1>1
    <3>2. QED
      BY <2>1, <3>1 DEF Execution
  <2>2. CASE ~InFlight(r)
    <3>1. run'[r] = Idle /\ run[r].pc = "idle"
      BY <2>2, <1>1 DEF InFlight
    <3>2. Idle.pc = "idle" /\ Idle.wrote = {}
      BY DEF Idle, Execution
    <3>3. QED
      BY <2>2, <3>1, <3>2
  <2>3. QED
    BY <2>1, <2>2
<1>3. Typing'
  <2>1. ASSUME NEW r \in Runs
        PROVE  run'[r] \in Executions /\ run'[r].now <= run'[r].since
    <3>1. CASE ~InFlight(r)
      <4>1. Idle \in Executions /\ Idle.now <= Idle.since
        BY IdleIsExecution
      <4>2. run'[r] = Idle
        BY <3>1, <1>1
      <4>3. QED
        BY <4>1, <4>2
    <3>2. CASE InFlight(r)
      <4>1. run[r] \in Executions /\ run[r].now <= run[r].since
        BY DEF IInv, Typing
      <4>2. /\ run[r].since + 1 \in 0..RunLimit
            /\ run[r].now + 1 \in 0..RunLimit
            /\ run[r].now + 1 <= run[r].since + 1
        BY <4>1, <3>2, <1>1, TimesArePositive DEF Executions
      <4>3. run'[r] = Execution(run[r].pc, run[r].since + 1, run[r].now + 1,
                                run[r].wrote, run[r].names)
        BY <3>2, <1>1
      <4>4. run'[r] \in Executions
        BY <4>1, <4>2, <4>3 DEF Execution, Executions
      <4>5. QED
        BY <3>2, <4>2, <4>4, <1>2
    <3>3. QED
      BY <3>1, <3>2
  <2>2. run' \in [Runs -> Executions] /\ \A r \in Runs : run'[r].now <= run'[r].since
    BY <2>1 DEF Tick, Passes
  <2>3. \A s \in Series : age'[s] \in {Never} \cup 0..Old(s)
    BY AgesStayInRange DEF IInv, Typing, Tick, Passes
  <2>4. age' \in [Series -> Int]
    BY <2>3, AgesStayInRange DEF Tick, Passes
  <2>5. clock' \in 0..(Period - 1) /\ due' \in BOOLEAN
    BY ClockTurns DEF IInv, Typing, Tick, Passes
  <2>6. UNCHANGED <<missed, probe, table>>
    BY DEF Tick, Passes
  <2>7. QED
    BY <2>2, <2>3, <2>4, <2>5, <2>6 DEF IInv, Typing
<1>4. OneAtATime'
  <2>1. \A r \in Runs : InFlight(r)' => InFlight(r)
    BY <1>2 DEF InFlight
  <2>2. ASSUME NEW r \in Runs, InFlight(r)
        PROVE  run'[r].since = clock' /\ ~due'
    <3>1. run[r].since = clock /\ run[r].since < RunLimit
      BY <2>2, <1>1 DEF IInv, OneAtATime
    <3>2. clock' = clock + 1 /\ clock \in Nat
      BY <3>1, ClockTurns DEF IInv, Typing, Tick, Passes
    <3>3. ~due'
      <4>1. clock' # 0
        BY <3>2
      <4>2. due' = (clock' = 0)
        BY DEF Tick, Passes
      <4>3. QED
        BY <4>1, <4>2, Zenon
    <3>4. run'[r].since = run[r].since + 1
      BY <2>2, <1>2
    <3>5. QED
      BY <3>1, <3>2, <3>3, <3>4
  <2>3. due' => clock' = 0
    BY DEF Tick, Passes
  <2>4. QED
    BY <2>1, <2>2, <2>3 DEF IInv, OneAtATime
<1>5. Drafts'
  <2>1. ASSUME NEW r \in Runs PROVE Draft(r)'
    <3>1. CASE ~InFlight(r)
      BY <3>1, <1>2 DEF Draft, InFlight
    <3>2. CASE InFlight(r)
      <4>1. run[r].wrote \subseteq Series
        BY DEF IInv, Typing, Executions
      <4>2. \A s \in Series : Ripe(r, s)' <=> Ripe(r, s)
        BY <3>2, TimeKeepsRipeness
      <4>3. Draft(r)
        BY DEF IInv, Drafts
      <4>4. run'[r].pc = run[r].pc /\ run'[r].wrote = run[r].wrote
        BY <3>2, <1>2
      <4>5. "db" \in Series
        BY DEF Series, Judged
      <4>6. QED
        BY <4>1, <4>2, <4>3, <4>4, <4>5 DEF Draft
    <3>3. QED
      BY <3>1, <3>2
  <2>2. QED
    BY <2>1 DEF Drafts
<1>6. SeriesInStep'
  <2>1. "table" \in Series /\ "db" \in Series
    BY DEF Series, Judged
  <2>2. /\ age'["table"] = Older(age["table"], "table")
        /\ age'["db"] = Older(age["db"], "db")
    BY <2>1 DEF Tick, Passes
  <2>3. QED
    BY <2>2, TableGoesWithDb DEF IInv, SeriesInStep, Older, Old
<1>7. QED
  BY <1>3, <1>4, <1>5, <1>6 DEF IInv

\* While one execution is in flight the others are idle.
LEMMA OthersRest ==
  ASSUME IInv, NEW r \in Runs, InFlight(r), NEW q \in Runs, q # r
  PROVE  run[q].pc = "idle" /\ run[q].wrote = {}
BY DEF IInv, OneAtATime, Drafts, Draft, InFlight

\* A statement of the one execution in flight keeps its place in the schedule.
LEMMA GoesOn ==
  ASSUME IInv, NEW r \in Runs, InFlight(r),
         NEW pc \in Place \ {"idle"}, NEW now \in 0..RunLimit,
         NEW wrote \in SUBSET Series,
         now <= run[r].since, Goes(r, pc, now, wrote), UNCHANGED <<clock, due>>
  PROVE  /\ run' \in [Runs -> Executions]
         /\ \A q \in Runs : run'[q].now <= run'[q].since
         /\ OneAtATime'
         /\ run'[r].pc = pc /\ run'[r].now = now /\ run'[r].wrote = wrote
         /\ \A q \in Runs : q # r => run'[q].pc = "idle" /\ run'[q].wrote = {}
<1> DEFINE e == Execution(pc, run[r].since, now, wrote, run[r].names)
<1>1. run \in [Runs -> Executions] /\ \A q \in Runs : run[q].now <= run[q].since
  BY DEF IInv, Typing
<1>2. run' = [run EXCEPT ![r] = e]
  BY DEF Goes
<1>3. run[r] \in Executions
  BY <1>1
<1>4. e \in Executions
  BY <1>3 DEF Execution, Executions
<1>5. e.pc = pc /\ e.since = run[r].since /\ e.now = now /\ e.wrote = wrote
  BY DEF Execution
<1> HIDE DEF e
<1>6. run'[r] = e /\ \A q \in Runs : q # r => run'[q] = run[q]
  BY <1>1, <1>2
<1>7. run' \in [Runs -> Executions]
  BY <1>1, <1>2, <1>4
<1>8. \A q \in Runs : run'[q].now <= run'[q].since
  BY <1>1, <1>5, <1>6
<1>9. \A q \in Runs : q # r => run'[q].pc = "idle" /\ run'[q].wrote = {}
  BY <1>6, OthersRest
<1>10. OneAtATime'
  <2>1. run[r].since = clock /\ ~due
    BY DEF IInv, OneAtATime
  <2>2. clock' = clock /\ due' = due
    OBVIOUS
  <2>3. \A q \in Runs : InFlight(q)' => q = r
    BY <1>9 DEF InFlight
  <2>4. run'[r].since = clock' /\ ~due'
    BY <2>1, <2>2, <1>5, <1>6
  <2>5. QED
    BY <2>3, <2>4 DEF OneAtATime
<1>11. QED
  BY <1>5, <1>6, <1>7, <1>8, <1>9, <1>10

\* When it ends all are idle.
LEMMA Ends ==
  ASSUME IInv, NEW r \in Runs, InFlight(r),
         run' = [run EXCEPT ![r] = Idle], UNCHANGED <<clock, due>>
  PROVE  /\ run' \in [Runs -> Executions]
         /\ \A q \in Runs : run'[q].now <= run'[q].since
         /\ OneAtATime'
         /\ Drafts'
<1>1. run \in [Runs -> Executions] /\ \A q \in Runs : run[q].now <= run[q].since
  BY DEF IInv, Typing
<1>2. run'[r] = Idle /\ \A q \in Runs : q # r => run'[q] = run[q]
  BY <1>1
<1>3. run' \in [Runs -> Executions] /\ \A q \in Runs : run'[q].now <= run'[q].since
  BY <1>1, <1>2, IdleIsExecution
<1>4. \A q \in Runs : run'[q].pc = "idle" /\ run'[q].wrote = {}
  <2>1. Idle.pc = "idle" /\ Idle.wrote = {}
    BY DEF Idle, Execution
  <2>2. QED
    BY <2>1, <1>2, OthersRest
<1>5. OneAtATime'
  BY <1>4 DEF IInv, OneAtATime, InFlight
<1>6. Drafts'
  BY <1>4 DEF Drafts, Draft
<1>7. QED
  BY <1>3, <1>5, <1>6

\* Where no execution has moved and no row been written nothing changes.
LEMMA NothingMoves ==
  ASSUME IInv, UNCHANGED <<age, run, clock, due>>,
         missed' \in [{"t1", "t2"} -> 0..Many],
         probe' \in {"none", "checked", "green", "red"},
         table' \in [db : Names, ops : Names, api : Names]
  PROVE  IInv'
<1>1. Typing'
  BY DEF IInv, Typing
<1>2. OneAtATime'
  BY DEF IInv, OneAtATime, InFlight
<1>3. Drafts'
  BY DEF IInv, Drafts, Draft, Ripe
<1>4. SeriesInStep'
  BY DEF IInv, SeriesInStep
<1>5. QED
  BY <1>1, <1>2, <1>3, <1>4 DEF IInv

\* The schedule creates an execution.
LEMMA CronIsGood ==
  ASSUME IInv, NEW r \in Runs, Cron(r)
  PROVE  IInv'
<1> DEFINE e == Execution("starting", 0, 0, {}, table.ops)
<1>1. \A q \in Runs : ~InFlight(q)
  BY DEF IInv, OneAtATime, Cron
<1>2. run \in [Runs -> Executions] /\ \A q \in Runs : run[q].now <= run[q].since
  BY DEF IInv, Typing
<1>3. e \in Executions
  BY TimesArePositive DEF IInv, Typing, Execution, Executions, Place
<1>4. e.pc = "starting" /\ e.since = 0 /\ e.now = 0 /\ e.wrote = {}
  BY DEF Execution
<1>5. /\ run' = [run EXCEPT ![r] = e]
      /\ clock = 0 /\ clock' = clock /\ due' = FALSE
      /\ UNCHANGED <<age, missed, probe, table>>
  BY DEF IInv, OneAtATime, Cron
<1> HIDE DEF e
<1>6. run'[r] = e /\ \A q \in Runs : q # r => run'[q] = run[q]
  BY <1>2, <1>5
<1>7. Typing'
  <2>1. run' \in [Runs -> Executions] /\ \A q \in Runs : run'[q].now <= run'[q].since
    BY <1>2, <1>3, <1>4, <1>5, <1>6
  <2>2. QED
    BY <2>1, <1>5 DEF IInv, Typing
<1>8. OneAtATime'
  BY <1>1, <1>4, <1>5, <1>6 DEF OneAtATime, InFlight
<1>9. Drafts'
  <2>1. \A q \in Runs : /\ run'[q].wrote = {}
                        /\ run'[q].pc \in {"idle", "starting"}
    BY <1>1, <1>4, <1>6 DEF IInv, Drafts, Draft, InFlight
  <2>2. QED
    BY <2>1 DEF Drafts, Draft
<1>10. SeriesInStep'
  BY <1>5 DEF IInv, SeriesInStep
<1>11. QED
  BY <1>7, <1>8, <1>9, <1>10 DEF IInv

\* An execution fails, and what it has written is gone.
LEMMA FailIsGood ==
  ASSUME IInv, NEW r \in Runs, Fail(r)
  PROVE  IInv'
<1>1. missed' \in [{"t1", "t2"} -> 0..Many]
  BY MissingIsTyped DEF IInv, Typing, Fail
<1>2. /\ InFlight(r) /\ run' = [run EXCEPT ![r] = Idle]
      /\ UNCHANGED <<age, clock, due, probe, table>>
  BY DEF Fail
<1>3. /\ run' \in [Runs -> Executions]
      /\ \A q \in Runs : run'[q].now <= run'[q].since
      /\ OneAtATime' /\ Drafts'
  BY <1>2, Ends
<1>4. Typing' /\ SeriesInStep'
  BY <1>1, <1>2, <1>3 DEF IInv, Typing, SeriesInStep
<1>5. QED
  BY <1>3, <1>4 DEF IInv

\* T1 begins and writes the heartbeat.
LEMMA BeginT1IsGood ==
  ASSUME IInv, NEW r \in Runs, BeginT1(r)
  PROVE  IInv'
<1>1. /\ run[r].pc = "starting" /\ Goes(r, "marking", 0, {"heartbeat"})
      /\ UNCHANGED <<age, clock, due, missed, probe, table>>
  BY DEF BeginT1, Begin
<1>2. InFlight(r) /\ run[r].since \in 0..RunLimit
  BY <1>1 DEF InFlight, IInv, Typing, Executions
<1>3. /\ "marking" \in Place \ {"idle"} /\ {"heartbeat"} \in SUBSET Series
      /\ 0 \in 0..RunLimit /\ 0 <= run[r].since
  BY <1>2, TimesArePositive DEF Place, Series, Judged
<1>4. /\ run' \in [Runs -> Executions]
      /\ \A q \in Runs : run'[q].now <= run'[q].since
      /\ OneAtATime'
      /\ run'[r].pc = "marking" /\ run'[r].wrote = {"heartbeat"}
      /\ \A q \in Runs : q # r => run'[q].pc = "idle" /\ run'[q].wrote = {}
  BY <1>1, <1>2, <1>3, GoesOn
<1>5. Drafts'
  BY <1>4 DEF Drafts, Draft
<1>6. Typing' /\ SeriesInStep'
  BY <1>1, <1>4 DEF IInv, Typing, SeriesInStep
<1>7. QED
  BY <1>4, <1>5, <1>6 DEF IInv

\* T2 begins.
LEMMA BeginT2IsGood ==
  ASSUME IInv, NEW r \in Runs, BeginT2(r)
  PROVE  IInv'
<1>1. /\ run[r].pc = "marked" /\ Goes(r, "table", 0, run[r].wrote)
      /\ UNCHANGED <<age, clock, due, missed, probe, table>>
  BY DEF BeginT2, Begin
<1>2. InFlight(r) /\ run[r].since \in 0..RunLimit /\ run[r].wrote = {}
  BY <1>1 DEF InFlight, IInv, Typing, Executions, Drafts, Draft
<1>3. /\ "table" \in Place \ {"idle"} /\ {} \in SUBSET Series
      /\ 0 \in 0..RunLimit /\ 0 <= run[r].since
  BY <1>2, TimesArePositive DEF Place
<1>4. /\ run' \in [Runs -> Executions]
      /\ \A q \in Runs : run'[q].now <= run'[q].since
      /\ OneAtATime'
      /\ run'[r].pc = "table" /\ run'[r].wrote = {}
      /\ \A q \in Runs : q # r => run'[q].pc = "idle" /\ run'[q].wrote = {}
  BY <1>1, <1>2, <1>3, GoesOn
<1>5. Drafts'
  BY <1>4 DEF Drafts, Draft
<1>6. Typing' /\ SeriesInStep'
  BY <1>1, <1>4 DEF IInv, Typing, SeriesInStep
<1>7. QED
  BY <1>4, <1>5, <1>6 DEF IInv

\* What the three samples have in common: the age of the transaction stays,
\* and so do the conditions of all samples.
LEMMA SampleGoesOn ==
  ASSUME IInv, NEW r \in Runs, InFlight(r),
         NEW next \in Place \ {"idle"}, NEW wrote \in SUBSET Series,
         Goes(r, next, run[r].now, wrote),
         UNCHANGED <<age, clock, due, missed, probe, table>>
  PROVE  /\ Typing' /\ OneAtATime' /\ SeriesInStep'
         /\ run'[r].pc = next /\ run'[r].wrote = wrote
         /\ \A q \in Runs : q # r => run'[q].pc = "idle" /\ run'[q].wrote = {}
         /\ \A t \in Series : Ripe(r, t)' <=> Ripe(r, t)
<1>1. run[r].now \in 0..RunLimit /\ run[r].now <= run[r].since
  BY DEF IInv, Typing, Executions
<1>2. /\ run' \in [Runs -> Executions]
      /\ \A q \in Runs : run'[q].now <= run'[q].since
      /\ OneAtATime'
      /\ run'[r].pc = next /\ run'[r].now = run[r].now /\ run'[r].wrote = wrote
      /\ \A q \in Runs : q # r => run'[q].pc = "idle" /\ run'[q].wrote = {}
  BY <1>1, GoesOn
<1>3. Typing' /\ SeriesInStep'
  BY <1>2 DEF IInv, Typing, SeriesInStep
<1>4. \A t \in Series : Ripe(r, t)' <=> Ripe(r, t)
  BY <1>2 DEF Ripe
<1>5. QED
  BY <1>2, <1>3, <1>4

\* The first sample, if its interval has passed.
LEMMA TableStatsIsGood ==
  ASSUME IInv, NEW r \in Runs, TableStats(r)
  PROVE  IInv'
<1> DEFINE wrote == IF Ripe(r, "db") THEN {"table"} ELSE {}
<1>1. "db" \in Place \ {"idle"} /\ "table" \in Series /\ "db" \in Series
  BY DEF Place, Series, Judged
<1>2. run[r].pc = "table" /\ run[r].wrote = {} /\ InFlight(r)
  BY DEF IInv, Drafts, Draft, InFlight, TableStats, Sample
<1>3. Due(r, "db") <=> Ripe(r, "db")
  BY <1>2 DEF Due, Ripe
<1>4. /\ Goes(r, "db", run[r].now, wrote)
      /\ wrote \in SUBSET Series
      /\ UNCHANGED <<age, clock, due, missed, probe, table>>
  <2>1. (IF Due(r, "db") THEN run[r].wrote \cup {"table"} ELSE run[r].wrote) = wrote
    BY <1>2, <1>3
  <2>2. QED
    BY <1>1, <2>1 DEF TableStats, Sample
<1>5. /\ Typing' /\ OneAtATime' /\ SeriesInStep'
      /\ run'[r].pc = "db" /\ run'[r].wrote = wrote
      /\ \A q \in Runs : q # r => run'[q].pc = "idle" /\ run'[q].wrote = {}
      /\ \A t \in Series : Ripe(r, t)' <=> Ripe(r, t)
  <2> HIDE DEF wrote
  <2>1. QED
    BY <1>1, <1>2, <1>4, SampleGoesOn
<1>6. Ripe(r, "table") <=> Ripe(r, "db")
  BY TableGoesWithDb DEF Ripe, IInv, SeriesInStep
<1>7. Draft(r)'
  BY <1>1, <1>5, <1>6 DEF Draft
<1>8. \A q \in Runs : q # r => Draft(q)'
  BY <1>5 DEF Draft
<1>9. QED
  BY <1>5, <1>7, <1>8 DEF IInv, Drafts

\* The second one, which shares the interval of the first.
LEMMA DbStatsIsGood ==
  ASSUME IInv, NEW r \in Runs, DbStats(r)
  PROVE  IInv'
<1> DEFINE wrote == IF Ripe(r, "db") THEN run[r].wrote \cup {"db"} ELSE run[r].wrote
<1>1. "bloat" \in Place \ {"idle"} /\ "table" \in Series /\ "db" \in Series
  BY DEF Place, Series, Judged
<1>2. run[r].pc = "db" /\ InFlight(r)
  BY DEF InFlight, DbStats, Sample
<1>3. /\ run[r].wrote \subseteq {"table"}
      /\ ("table" \in run[r].wrote) <=> Ripe(r, "db")
      /\ \A s \in run[r].wrote \ {"heartbeat"} : Ripe(r, s)
  BY <1>2 DEF IInv, Drafts, Draft
<1>4. /\ Goes(r, "bloat", run[r].now, wrote)
      /\ wrote \in SUBSET Series
      /\ UNCHANGED <<age, clock, due, missed, probe, table>>
  <2>1. Due(r, "db") <=> Ripe(r, "db")
    BY <1>3 DEF Due, Ripe
  <2>2. (IF Due(r, "db") THEN run[r].wrote \cup {"db"} ELSE run[r].wrote) = wrote
    BY <2>1
  <2>3. QED
    BY <1>1, <1>3, <2>2 DEF DbStats, Sample
<1>5. /\ Typing' /\ OneAtATime' /\ SeriesInStep'
      /\ run'[r].pc = "bloat" /\ run'[r].wrote = wrote
      /\ \A q \in Runs : q # r => run'[q].pc = "idle" /\ run'[q].wrote = {}
      /\ \A t \in Series : Ripe(r, t)' <=> Ripe(r, t)
  <2> HIDE DEF wrote
  <2>1. QED
    BY <1>1, <1>2, <1>4, SampleGoesOn
<1>6. /\ run'[r].wrote \subseteq {"table", "db"}
      /\ ("table" \in run'[r].wrote) <=> ("db" \in run'[r].wrote)
      /\ \A s \in run'[r].wrote : Ripe(r, s)'
  BY <1>1, <1>3, <1>5
<1>7. Draft(r)'
  BY <1>5, <1>6 DEF Draft
<1>8. \A q \in Runs : q # r => Draft(q)'
  BY <1>5 DEF Draft
<1>9. QED
  BY <1>5, <1>7, <1>8 DEF IInv, Drafts

\* The third one.
LEMMA BloatStatsIsGood ==
  ASSUME IInv, NEW r \in Runs, BloatStats(r)
  PROVE  IInv'
<1> DEFINE wrote == IF Ripe(r, "bloat") THEN run[r].wrote \cup {"bloat"} ELSE run[r].wrote
<1>1. /\ "commit" \in Place \ {"idle"}
      /\ "table" \in Series /\ "db" \in Series /\ "bloat" \in Series
  BY DEF Place, Series, Judged
<1>2. run[r].pc = "bloat" /\ InFlight(r)
  BY DEF InFlight, BloatStats, Sample
<1>3. /\ run[r].wrote \subseteq {"table", "db"}
      /\ ("table" \in run[r].wrote) <=> ("db" \in run[r].wrote)
      /\ \A s \in run[r].wrote \ {"heartbeat"} : Ripe(r, s)
  BY <1>2 DEF IInv, Drafts, Draft
<1>4. /\ Goes(r, "commit", run[r].now, wrote)
      /\ wrote \in SUBSET Series
      /\ UNCHANGED <<age, clock, due, missed, probe, table>>
  <2>1. Due(r, "bloat") <=> Ripe(r, "bloat")
    BY <1>3 DEF Due, Ripe
  <2>2. (IF Due(r, "bloat") THEN run[r].wrote \cup {"bloat"} ELSE run[r].wrote) = wrote
    BY <2>1
  <2>3. QED
    BY <1>1, <1>3, <2>2 DEF BloatStats, Sample
<1>5. /\ Typing' /\ OneAtATime' /\ SeriesInStep'
      /\ run'[r].pc = "commit" /\ run'[r].wrote = wrote
      /\ \A q \in Runs : q # r => run'[q].pc = "idle" /\ run'[q].wrote = {}
      /\ \A t \in Series : Ripe(r, t)' <=> Ripe(r, t)
  <2> HIDE DEF wrote
  <2>1. QED
    BY <1>1, <1>2, <1>4, SampleGoesOn
<1>6. /\ run'[r].wrote \subseteq {"table", "db", "bloat"}
      /\ ("table" \in run'[r].wrote) <=> ("db" \in run'[r].wrote)
      /\ \A s \in run'[r].wrote : Ripe(r, s)'
  BY <1>1, <1>3, <1>5
<1>7. Draft(r)'
  BY <1>5, <1>6 DEF Draft
<1>8. \A q \in Runs : q # r => Draft(q)'
  BY <1>5 DEF Draft
<1>9. QED
  BY <1>5, <1>7, <1>8 DEF IInv, Drafts

\* The rows of a commit are in step if they were before and are written
\* together or not at all.
LEMMA CommitAges ==
  ASSUME IInv, NEW r \in Runs, NEW next, Commit(r, next),
         ("table" \in run[r].wrote) <=> ("db" \in run[r].wrote)
  PROVE  /\ age' \in [Series -> Int]
         /\ \A s \in Series : age'[s] \in {Never} \cup 0..Old(s)
         /\ SeriesInStep'
<1>1. run[r].now \in 0..RunLimit
  BY DEF IInv, Typing, Executions
<1>2. age' = [s \in Series |-> IF s \in run[r].wrote
                              THEN Newest(age[s], run[r].now) ELSE age[s]]
  BY DEF Commit
<1>3. \A s \in Series : age'[s] \in {Never} \cup 0..Old(s)
  BY <1>1, <1>2, AgesStayInRange DEF IInv, Typing
<1>4. age' \in [Series -> Int]
  BY <1>2, <1>3, AgesStayInRange
<1>5. SeriesInStep'
  BY <1>2 DEF IInv, SeriesInStep, Series, Judged
<1>6. QED
  BY <1>3, <1>4, <1>5

\* The heartbeat is committed.
LEMMA CommitT1IsGood ==
  ASSUME IInv, NEW r \in Runs, CommitT1(r)
  PROVE  IInv'
<1>1. run[r].pc = "marking" /\ run[r].wrote = {"heartbeat"} /\ InFlight(r)
  BY DEF CommitT1, IInv, Drafts, Draft, InFlight
<1>2. /\ Commit(r, "marked") /\ Goes(r, "marked", run[r].now, {})
      /\ UNCHANGED <<clock, due, probe, table>>
      /\ missed' = [missed EXCEPT !["t1"] = 0]
  BY DEF CommitT1, Commit
<1>3. /\ "marked" \in Place \ {"idle"} /\ {} \in SUBSET Series
      /\ run[r].now \in 0..RunLimit /\ run[r].now <= run[r].since
  BY DEF IInv, Typing, Executions, Place
<1>4. /\ run' \in [Runs -> Executions]
      /\ \A q \in Runs : run'[q].now <= run'[q].since
      /\ OneAtATime'
      /\ run'[r].pc = "marked" /\ run'[r].wrote = {}
      /\ \A q \in Runs : q # r => run'[q].pc = "idle" /\ run'[q].wrote = {}
  BY <1>1, <1>2, <1>3, GoesOn
<1>5. /\ age' \in [Series -> Int]
      /\ \A s \in Series : age'[s] \in {Never} \cup 0..Old(s)
      /\ SeriesInStep'
  BY <1>1, <1>2, CommitAges
<1>6. missed' \in [{"t1", "t2"} -> 0..Many]
  BY <1>2, ManyIsNat DEF IInv, Typing
<1>7. Typing'
  BY <1>2, <1>4, <1>5, <1>6 DEF IInv, Typing
<1>8. Drafts'
  BY <1>4 DEF Drafts, Draft
<1>9. QED
  BY <1>4, <1>5, <1>7, <1>8 DEF IInv

\* The samples are committed, the first two together.
LEMMA CommitT2IsGood ==
  ASSUME IInv, NEW r \in Runs, CommitT2(r)
  PROVE  IInv'
<1>1. /\ run[r].pc = "commit" /\ InFlight(r)
      /\ ("table" \in run[r].wrote) <=> ("db" \in run[r].wrote)
  BY DEF CommitT2, IInv, Drafts, Draft, InFlight
<1>2. /\ Commit(r, "idle") /\ run' = [run EXCEPT ![r] = Idle]
      /\ UNCHANGED <<clock, due, probe, table>>
      /\ missed' = [missed EXCEPT !["t2"] = 0]
  BY DEF CommitT2, Commit
<1>3. /\ run' \in [Runs -> Executions]
      /\ \A q \in Runs : run'[q].now <= run'[q].since
      /\ OneAtATime' /\ Drafts'
  BY <1>1, <1>2, Ends
<1>4. /\ age' \in [Series -> Int]
      /\ \A s \in Series : age'[s] \in {Never} \cup 0..Old(s)
      /\ SeriesInStep'
  BY <1>1, <1>2, CommitAges
<1>5. missed' \in [{"t1", "t2"} -> 0..Many]
  BY <1>2, ManyIsNat DEF IInv, Typing
<1>6. Typing'
  BY <1>2, <1>3, <1>4, <1>5 DEF IInv, Typing
<1>7. QED
  BY <1>3, <1>4, <1>6 DEF IInv

-----------------------------------------------------------------------------
(* The theorems. *)

\* IInv is kept by every step.
LEMMA InvariantIsKept ==
  ASSUME LimitIsBelowPeriod, IInv, [Next]_vars
  PROVE  IInv'
<1>1. ASSUME NEW r \in Runs, Cron(r) \/ Statement(r) \/ Fail(r)
      PROVE  IInv'
  <2>1. CASE Statement(r)
    BY <2>1, BeginT1IsGood, CommitT1IsGood, BeginT2IsGood, TableStatsIsGood,
       DbStatsIsGood, BloatStatsIsGood, CommitT2IsGood DEF Statement
  <2>2. QED
    BY <1>1, <2>1, CronIsGood, FailIsGood
<1>2. CASE CronMisses
  <2>1. missed' \in [{"t1", "t2"} -> 0..Many]
    BY <1>2, MissingIsTyped DEF IInv, Typing, CronMisses
  <2>2. Typing' /\ SeriesInStep'
    BY <1>2, <2>1 DEF IInv, Typing, SeriesInStep, CronMisses
  <2>3. OneAtATime' /\ Drafts'
    BY <1>2 DEF IInv, OneAtATime, InFlight, Drafts, Draft, Ripe, CronMisses
  <2>4. QED
    BY <2>2, <2>3 DEF IInv
<1>3. CASE Migrate \/ Deploy("ops") \/ Deploy("api")
  <2>1. table' \in [db : Names, ops : Names, api : Names]
    BY <1>3 DEF IInv, Typing, Migrate, Deploy, Names
  <2>2. UNCHANGED <<age, run, clock, due, missed, probe>>
    BY <1>3 DEF Migrate, Deploy
  <2>3. QED
    BY <2>1, <2>2, NothingMoves DEF IInv, Typing
<1>4. CASE CheckDatabase \/ DatabaseIsDown \/ Freshness \/ FreshnessFails
  <2>1. /\ probe' \in {"none", "checked", "green", "red"}
        /\ UNCHANGED <<age, run, clock, due, missed, table>>
    BY <1>4 DEF CheckDatabase, DatabaseIsDown, Freshness, FreshnessFails, Verdict
  <2>2. QED
    BY <2>1, NothingMoves DEF IInv, Typing
<1>5. CASE UNCHANGED vars
  BY <1>5, NothingMoves DEF vars, IInv, Typing
<1>6. QED
  BY <1>1, <1>2, <1>3, <1>4, <1>5, TickIsGood DEF Next

\* Every state has its type, every execution keeps to its limit, and there is
\* one at a time.
THEOREM InvariantHolds ==
  ASSUME LimitIsBelowPeriod
  PROVE  Spec => []IInv
<1>1. Init => IInv
  BY InitIsGood
<1>2. IInv /\ [Next]_vars => IInv'
  BY InvariantIsKept
<1>3. QED
  BY <1>1, <1>2, PTL DEF Spec

\* The types of Observation, for every schedule and run limit below it.
THEOREM TypeCorrect ==
  ASSUME LimitIsBelowPeriod
  PROVE  Spec => []TypeOK
<1>1. IInv => TypeOK
  <2>1. SUFFICES ASSUME IInv PROVE TypeOK
    OBVIOUS
  <2>2. ASSUME NEW r \in Runs
        PROVE  /\ run[r].pc \in Place
               /\ run[r].since \in 0..RunLimit /\ run[r].now \in 0..run[r].since
               /\ run[r].wrote \subseteq Series
    <3>1. run[r] \in Executions /\ run[r].now <= run[r].since
      BY <2>1 DEF IInv, Typing
    <3>2. /\ run[r].since \in 0..RunLimit /\ run[r].now \in 0..RunLimit
          /\ run[r].pc \in Place /\ run[r].wrote \subseteq Series
      BY <3>1 DEF Executions
    <3>3. QED
      BY <3>1, <3>2, TimesArePositive
  <2>3. QED
    BY <2>1, <2>2 DEF IInv, Typing, TypeOK, Place
<1>2. QED
  BY <1>1, InvariantHolds, PTL

\* table_stats and db_stats never get out of step, for every interval and
\* wherever runs fail.
THEOREM SeriesStayInStep ==
  ASSUME LimitIsBelowPeriod
  PROVE  Spec => []SeriesInStep
<1>1. IInv => SeriesInStep
  BY DEF IInv
<1>2. QED
  BY <1>1, InvariantHolds, PTL

\* No series is sampled twice within its interval, as long as an execution is
\* ended before the next one: the limit of an execution, and not the
\* condition of collect.sql, is what keeps the samples apart.
THEOREM SamplesStayApart ==
  ASSUME LimitIsBelowPeriod
  PROVE  Spec => SamplesAreApart
<1> DEFINE Apart == \A r \in Runs : CommitT2(r) =>
                      \A s \in run[r].wrote \cap {"table", "db", "bloat"} :
                        age[s] = Never \/ age[s] >= run[r].now + Interval[s]
<1>1. IInv /\ [Next]_vars => [Apart]_vars
  BY DEF IInv, Drafts, Draft, Ripe
<1>2. QED
  BY <1>1, InvariantHolds, PTL DEF Spec, SamplesAreApart

-----------------------------------------------------------------------------
(***************************************************************************)
(* What a stale series means.  The age of a series has an upper bound that *)
(* follows the schedule: its interval, what has passed of this period, and *)
(* a period for every execution missed and for the one still awaited.      *)
(***************************************************************************)

\* An execution that has yet to commit transaction t will, or may, come.
Awaited(t) == IF t = "t1" THEN {"starting", "marking"} ELSE Place \ {"idle"}
Pending(t) == due \/ \E r \in Runs : run[r].pc \in Awaited(t)

Base(s) == Interval[s] + clock + missed[Transaction(s)] * Period
Room(s) == Base(s) + (IF Pending(Transaction(s)) THEN Period ELSE 0)

Punctual == \A s \in Judged : age[s] <= Room(s)

\* A sample that was not taken was not due, and is not due at the commit.
Judgement(r) ==
  /\ run[r].pc \in {"bloat", "commit"} =>
       (("db" \in run[r].wrote) <=> Ripe(r, "db"))
  /\ run[r].pc = "commit" => (("bloat" \in run[r].wrote) <=> Ripe(r, "bloat"))

Judgements == \A r \in Runs : Judgement(r)

\* The saturated counters are beyond every threshold.
LEMMA ManyIsEnough ==
  ASSUME NEW s \in Series
  PROVE  Many * Period > MaxAge[s]
<1>. DEFINE n == CHOOSE n \in {MaxAge[q] : q \in Series} :
                   \A q \in Series : n >= MaxAge[q]
<1>1. \E m \in {MaxAge[q] : q \in Series} : \A q \in Series : m >= MaxAge[q]
  BY SeriesHaveTimes, SMTT(30) DEF Series, Judged
<1>2. n \in Nat /\ n >= MaxAge[s] /\ MaxAge[s] \in Nat
  BY <1>1, SeriesHaveTimes
<1>3. Many = 1 + (n \div Period)
  BY DEF Many
<1>. HIDE DEF n
<1>4. /\ n = Period * (n \div Period) + (n % Period)
      /\ (n % Period) \in 0..(Period - 1) /\ (n \div Period) \in Nat
  BY <1>2, TimesArePositive
<1>. DEFINE q == n \div Period
<1>5. (1 + q) * Period = Period * q + Period
  BY <1>4, TimesArePositive
<1>. QED  BY <1>2, <1>3, <1>4, <1>5, TimesArePositive

\* Marks of the schedule, counted.
LEMMA Times ==
  ASSUME NEW m \in Nat
  PROVE  m * Period \in Nat /\ (m + 1) * Period = m * Period + Period
BY TimesArePositive

\* The types of what Room is made of.
LEMMA RoomTypes ==
  ASSUME IInv, NEW s \in Judged
  PROVE  /\ s \in Series /\ Transaction(s) \in {"t1", "t2"}
         /\ age[s] \in Int /\ age[s] <= MaxAge[s] + 1
         /\ MaxAge[s] \in Nat /\ Interval[s] \in Nat
         /\ clock \in Nat /\ clock < Period /\ Period \in Nat
         /\ missed[Transaction(s)] \in 0..Many /\ Many \in Nat
         /\ Base(s) \in Nat
<1>1. s \in Series /\ Transaction(s) \in {"t1", "t2"}
  BY DEF Series, Transaction
<1>2. missed[Transaction(s)] \in 0..Many /\ Many \in Nat
  BY <1>1, ManyIsNat DEF IInv, Typing
<1>3. age[s] \in {Never} \cup 0..Old(s) /\ clock \in 0..(Period - 1)
  BY <1>1 DEF IInv, Typing
<1>4. MaxAge[s] \in Nat /\ Interval[s] \in Nat /\ Period \in Nat
  BY <1>1, SeriesHaveTimes, TimesArePositive
<1>5. missed[Transaction(s)] * Period \in Nat
  BY <1>2, Times
<1>6. Base(s) \in Nat
  BY <1>3, <1>4, <1>5 DEF Base
<1>. QED  BY <1>1, <1>2, <1>3, <1>4, <1>6 DEF Old

\* The bound stays where neither the series nor its schedule moves.
LEMMA RoomKept ==
  ASSUME IInv, NEW s \in Judged, age[s] <= Room(s),
         age'[s] = age[s], clock' = clock,
         missed'[Transaction(s)] = missed[Transaction(s)],
         Pending(Transaction(s)) => Pending(Transaction(s))'
  PROVE  age'[s] <= Room(s)'
<1>1. Base(s)' = Base(s)
  BY DEF Base
<1>. QED  BY <1>1, RoomTypes DEF Room

\* An execution that is missed gives way to the next one.
LEMMA RoomMissed ==
  ASSUME IInv, NEW s \in Judged, age[s] <= Room(s),
         age'[s] = age[s], clock' = clock,
         missed'[Transaction(s)] = Least(missed[Transaction(s)] + 1, Many)
  PROVE  age'[s] <= Room(s)'
<1>. DEFINE m == missed[Transaction(s)]
<1>1. /\ m \in Nat /\ age[s] <= Base(s) + Period
      /\ Base(s) = Interval[s] + clock + m * Period
      /\ m * Period \in Nat /\ (m + 1) * Period = m * Period + Period
  <2>1. m \in Nat
    BY RoomTypes
  <2>2. age[s] <= Base(s) + Period
    BY RoomTypes DEF Room
  <2>3. m * Period \in Nat /\ (m + 1) * Period = m * Period + Period
    BY <2>1, Times
  <2>. QED  BY <2>1, <2>2, <2>3 DEF Base
<1>2. /\ Base(s)' = Interval[s] + clock + Least(m + 1, Many) * Period
  BY DEF Base
<1>3. CASE Least(m + 1, Many) = m + 1
  <2>1. Base(s)' = Base(s) + Period
    BY <1>1, <1>2, <1>3, RoomTypes
  <2>. QED  BY <1>1, <2>1, RoomTypes DEF Room
<1>4. CASE Least(m + 1, Many) = Many
  <2>1. Many * Period > MaxAge[s] /\ Many * Period \in Nat
    BY RoomTypes, ManyIsEnough, Times
  <2>2. age[s] <= Base(s)' /\ Base(s)' \in Nat
    BY <1>2, <1>4, <2>1, RoomTypes
  <2>. QED  BY <2>2, RoomTypes DEF Room
<1>. QED  BY <1>3, <1>4 DEF Least

\* A commit brings a series up to its interval.
LEMMA RoomRenewed ==
  ASSUME IInv, NEW s \in Judged, clock' = clock,
         missed'[Transaction(s)] = 0, age'[s] \in Int,
         age'[s] <= clock + Interval[s]
  PROVE  age'[s] <= Room(s)'
<1>1. Base(s)' = Interval[s] + clock + 0
  <2>1. 0 * Period = 0
    BY TimesArePositive
  <2>. QED  BY <2>1, RoomTypes DEF Base
<1>. QED  BY <1>1, RoomTypes DEF Room

\* While an execution is in flight, its place tells what is pending.
LEMMA PendingInFlight ==
  ASSUME IInv, NEW r \in Runs, InFlight(r), NEW t
  PROVE  Pending(t) <=> run[r].pc \in Awaited(t)
<1>1. due = FALSE /\ run[r].pc # "idle"
  BY DEF IInv, OneAtATime, InFlight, Typing
<1>2. \A q \in Runs : q # r => run[q].pc \notin Awaited(t)
  BY OthersRest DEF Awaited
<1>. QED  BY <1>1, <1>2 DEF Pending

\* An execution in flight is as old as the last mark.
LEMMA PendingTyped ==
  ASSUME IInv, NEW r \in Runs
  PROVE  run[r] \in Executions /\ run[r].pc \in Place
         /\ (InFlight(r) => run[r].since = clock /\ run[r].now \in 0..clock)
<1>1. run[r] \in Executions /\ run[r].now <= run[r].since
  BY DEF IInv, Typing
<1>2. run[r].now \in 0..RunLimit /\ run[r].since \in 0..RunLimit /\ run[r].pc \in Place
  BY <1>1 DEF Executions
<1>3. InFlight(r) => run[r].since = clock
  BY DEF IInv, OneAtATime
<1>. QED  BY <1>1, <1>2, <1>3, TimesArePositive

\* The mark of the schedule.
LEMMA ClockStrikes ==
  ASSUME NEW c \in 0..(Period - 1)
  PROVE  /\ c + 1 < Period => (c + 1) % Period = c + 1
         /\ c + 1 = Period => (c + 1) % Period = 0
         /\ c + 1 < Period \/ c + 1 = Period
BY TimesArePositive

\* Time passes no faster than the schedule counts.
LEMMA TickIsPunctual ==
  ASSUME LimitIsBelowPeriod, IInv, Punctual, Tick
  PROVE  Punctual'
<1>. SUFFICES ASSUME NEW s \in Judged  PROVE age'[s] <= Room(s)'
  BY DEF Punctual
<1>. DEFINE t == Transaction(s)
<1>1. age[s] <= Room(s) /\ age'[s] = Older(age[s], s) /\ missed' = missed
      /\ clock' = (clock + 1) % Period /\ due' = (clock' = 0) /\ due = FALSE
  BY RoomTypes DEF Punctual, Tick, Passes, IInv, Typing
<1>2. age'[s] \in Int /\ (age'[s] <= age[s] + 1 \/ age'[s] = Never)
  BY <1>1, RoomTypes DEF Older, Least, Old
<1>c. clock \in 0..(Period - 1)
  BY DEF IInv, Typing
<1>3. \A r \in Runs : run'[r].pc = run[r].pc
  <2>. SUFFICES ASSUME NEW r \in Runs  PROVE run'[r].pc = run[r].pc
    OBVIOUS
  <2>1. CASE InFlight(r)
    BY <2>1 DEF Tick, Passes, Execution
  <2>2. CASE ~InFlight(r)
    BY <2>2 DEF Tick, Passes, Execution, Idle, InFlight
  <2>. QED  BY <2>1, <2>2
<1>4. (\E r \in Runs : run[r].pc \in Awaited(t)) => Pending(t)'
  BY <1>3 DEF Pending, Awaited
<1>5. Base(s) = Interval[s] + clock + missed[t] * Period
      /\ Base(s)' = Interval[s] + clock' + missed[t] * Period
      /\ missed[t] * Period \in Nat
  BY <1>1, RoomTypes, Times DEF Base
<1>. HIDE DEF t
<1>8. clock' \in Nat
  BY <1>1, <1>c, ClockStrikes, RoomTypes
<1>9. Base(s)' \in Nat
  BY <1>5, <1>8, RoomTypes
<1>6. CASE clock + 1 < Period
  <2>1. clock' = clock + 1
    BY <1>1, <1>6, <1>c, ClockStrikes
  <2>2. Base(s)' = Base(s) + 1
    BY <1>5, <2>1, RoomTypes
  <2>3. Pending(t) => Pending(t)'
    BY <1>1, <1>4 DEF Pending
  <2>. QED  BY <1>1, <1>2, <1>9, <2>2, <2>3, RoomTypes DEF Room, t
<1>7. CASE clock + 1 = Period
  <2>1. clock' = 0 /\ due' = TRUE
    <3>1. clock' = 0
      BY <1>1, <1>7, <1>c, ClockStrikes
    <3>2. due' = (clock' = 0)
      BY <1>1
    <3>. QED  BY <3>1, <3>2, Zenon
  <2>2. \A r \in Runs : ~InFlight(r)
    <3>1. \A r \in Runs : InFlight(r) => run[r].since = clock /\ run[r].since < RunLimit
      BY DEF IInv, OneAtATime, Tick
    <3>2. ~(clock < RunLimit)
      BY <1>7, RoomTypes, TimesArePositive DEF LimitIsBelowPeriod
    <3>. QED  BY <3>1, <3>2
  <2>3. ~Pending(t) /\ Pending(t)'
    BY <1>1, <2>1, <2>2 DEF Pending, Awaited, InFlight
  <2>4. Base(s)' + Period = Base(s) + 1
    BY <1>5, <1>7, <2>1, RoomTypes
  <2>5. Room(s)' = Base(s)' + Period /\ Room(s) = Base(s)
    BY <2>3, RoomTypes DEF Room, t
  <2>. QED  BY <1>1, <1>2, <1>9, <2>4, <2>5, RoomTypes
<1>. QED  BY <1>6, <1>7, <1>c, ClockStrikes

\* A miss makes room for one more period.
LEMMA MissesArePunctual ==
  ASSUME IInv, Punctual, CronMisses \/ \E r \in Runs : Fail(r)
  PROVE  Punctual'
<1>. SUFFICES ASSUME NEW s \in Judged  PROVE age'[s] <= Room(s)'
  BY DEF Punctual
<1>. DEFINE t == Transaction(s)
<1>1. age[s] <= Room(s) /\ age' = age /\ clock' = clock /\ t \in {"t1", "t2"}
  BY RoomTypes DEF Punctual, CronMisses, Fail
<1>. HIDE DEF t
<1>2. CASE CronMisses
  <2>1. missed'[t] = Least(missed[t] + 1, Many)
    BY <1>1, <1>2 DEF CronMisses, Missing
  <2>. QED  BY <1>1, <2>1, RoomMissed DEF t
<1>3. ASSUME NEW r \in Runs, Fail(r)  PROVE age'[s] <= Room(s)'
  <2>1. CASE run[r].pc \in {"starting", "marking"} \/ t = "t2"
    <3>1. missed'[t] = Least(missed[t] + 1, Many)
      BY <1>1, <1>3, <2>1 DEF Fail, Missing
    <3>. QED  BY <1>1, <3>1, RoomMissed DEF t
  <2>2. CASE run[r].pc \notin {"starting", "marking"} /\ t = "t1"
    <3>1. missed'[t] = missed[t]
      BY <1>1, <1>3, <2>2 DEF Fail, Missing
    <3>2. ~Pending(t)
      BY <1>3, <2>2, PendingInFlight DEF Fail, Awaited
    <3>. QED  BY <1>1, <3>1, <3>2, RoomKept DEF t
  <2>. QED  BY <1>1, <2>1, <2>2
<1>. QED  BY <1>2, <1>3

\* The statements that commit nothing, and the creation of an execution.
LEMMA GoingOnIsPunctual ==
  ASSUME IInv, Punctual, NEW r \in Runs,
         \/ Cron(r) \/ BeginT1(r) \/ BeginT2(r)
         \/ TableStats(r) \/ DbStats(r) \/ BloatStats(r)
  PROVE  Punctual'
<1>. SUFFICES ASSUME NEW s \in Judged  PROVE age'[s] <= Room(s)'
  BY DEF Punctual
<1>1. /\ age[s] <= Room(s) /\ age' = age /\ clock' = clock /\ missed' = missed
  BY DEF Punctual, Cron, BeginT1, BeginT2, Begin, TableStats, DbStats,
         BloatStats, Sample
<1>2. run \in [Runs -> Executions]
  BY DEF IInv, Typing
<1>3. ASSUME NEW t \in {"t1", "t2"}, Pending(t)  PROVE Pending(t)'
  <2>1. CASE Cron(r)
    <3>1. run'[r].pc = "starting"
      BY <1>2, <2>1 DEF Cron, Execution
    <3>. QED  BY <3>1 DEF Pending, Awaited, Place
  <2>2. CASE ~Cron(r)
    <3>1. InFlight(r)
      BY <2>2 DEF BeginT1, BeginT2, Begin, TableStats, DbStats, BloatStats,
                  Sample, InFlight
    <3>2. run[r].pc \in Awaited(t)
      BY <1>3, <3>1, PendingInFlight
    <3>3. /\ run'[r].pc \in {"marking", "table", "db", "bloat", "commit"}
          /\ run[r].pc \in {"starting", "marking"} => run'[r].pc = "marking"
      BY <1>2, <2>2 DEF BeginT1, BeginT2, Begin, TableStats, DbStats, BloatStats,
                        Sample, Goes, Execution
    <3>. QED  BY <3>2, <3>3 DEF Pending, Awaited, Place
  <2>. QED  BY <2>1, <2>2
<1>. QED  BY <1>1, <1>3, RoomKept, RoomTypes

\* A commit of T1 brings its series up to date.
LEMMA CommitT1IsPunctual ==
  ASSUME IInv, Punctual, NEW r \in Runs, CommitT1(r)
  PROVE  Punctual'
<1>. SUFFICES ASSUME NEW s \in Judged  PROVE age'[s] <= Room(s)'
  BY DEF Punctual
<1>1. /\ run[r].pc = "marking" /\ run[r].wrote = {"heartbeat"} /\ InFlight(r)
      /\ run[r].now \in 0..clock
  BY PendingTyped DEF CommitT1, IInv, Drafts, Draft, InFlight
<1>2. /\ age' = [q \in Series |-> IF q \in run[r].wrote
                                 THEN Newest(age[q], run[r].now) ELSE age[q]]
      /\ run'[r].pc = "marked" /\ clock' = clock
      /\ missed' = [missed EXCEPT !["t1"] = 0]
  BY DEF CommitT1, Commit, Goes, Execution, IInv, Typing
<1>3. missed'["t1"] = 0 /\ missed'["t2"] = missed["t2"]
  BY <1>2 DEF IInv, Typing
<1>4. CASE s = "heartbeat"
  <2>1. age'[s] = Newest(age[s], run[r].now)
    BY <1>1, <1>2, <1>4 DEF Series, Judged
  <2>2. age'[s] \in Int /\ age'[s] <= clock + Interval[s]
    BY <1>1, <2>1, RoomTypes DEF Newest, Least
  <2>. QED  BY <1>2, <1>3, <1>4, <2>2, RoomRenewed DEF Transaction
<1>5. CASE s # "heartbeat"
  <2>1. age'[s] = age[s]
    BY <1>1, <1>2, <1>5, RoomTypes
  <2>2. Pending("t2")'
    BY <1>2 DEF Pending, Awaited, Place
  <2>. QED
    BY <1>2, <1>3, <1>5, <2>1, <2>2, RoomKept DEF Punctual, Transaction
<1>. QED  BY <1>4, <1>5

\* A commit of T2 leaves no series older than its interval allows.
LEMMA CommitT2IsPunctual ==
  ASSUME IInv, Punctual, Judgements, NEW r \in Runs, CommitT2(r)
  PROVE  Punctual'
<1>. SUFFICES ASSUME NEW s \in Judged  PROVE age'[s] <= Room(s)'
  BY DEF Punctual
<1>1. /\ run[r].pc = "commit" /\ InFlight(r) /\ run[r].now \in 0..clock
      /\ run[r].wrote \subseteq {"table", "db", "bloat"}
  BY PendingTyped DEF CommitT2, IInv, Drafts, Draft, InFlight
<1>2. /\ age' = [q \in Series |-> IF q \in run[r].wrote
                                 THEN Newest(age[q], run[r].now) ELSE age[q]]
      /\ clock' = clock
      /\ missed' = [missed EXCEPT !["t2"] = 0]
  BY DEF CommitT2, Commit, IInv, Typing
<1>3. missed'["t2"] = 0 /\ missed'["t1"] = missed["t1"]
  BY <1>2 DEF IInv, Typing
<1>4. CASE s = "heartbeat"
  <2>1. age'[s] = age[s]
    BY <1>1, <1>2, <1>4, RoomTypes
  <2>2. ~Pending("t1")
    BY <1>1, PendingInFlight DEF Awaited
  <2>. QED
    BY <1>2, <1>3, <1>4, <2>1, <2>2, RoomKept DEF Punctual, Transaction
<1>5. CASE s # "heartbeat"
  <2>1. s \in {"db", "bloat"}
    BY <1>5 DEF Judged
  <2>2. (s \in run[r].wrote) <=> Ripe(r, s)
    BY <1>1, <2>1 DEF Judgements, Judgement
  <2>3. age'[s] \in Int /\ age'[s] <= clock + Interval[s]
    <3>1. CASE s \in run[r].wrote
      BY <1>1, <1>2, <3>1, RoomTypes DEF Newest, Least
    <3>2. CASE s \notin run[r].wrote
      <4>1. age'[s] = age[s] /\ age[s] < run[r].now + Interval[s]
        BY <1>1, <1>2, <2>2, <3>2, RoomTypes DEF Ripe
      <4>. QED  BY <1>1, <4>1, RoomTypes
    <3>. QED  BY <3>1, <3>2
  <2>. QED  BY <1>2, <1>3, <1>5, <2>3, RoomRenewed DEF Transaction
<1>. QED  BY <1>4, <1>5

\* Time changes no judgement.
LEMMA TickKeepsJudgements ==
  ASSUME LimitIsBelowPeriod, IInv, Judgements, Tick
  PROVE  Judgements'
<1>. SUFFICES ASSUME NEW r \in Runs  PROVE Judgement(r)'
  BY DEF Judgements
<1>1. CASE InFlight(r)
  <2>1. run'[r].pc = run[r].pc /\ run'[r].wrote = run[r].wrote
    BY <1>1 DEF Tick, Passes, Execution
  <2>2. \A s \in Series : Ripe(r, s)' <=> Ripe(r, s)
    BY <1>1, TimeKeepsRipeness
  <2>3. "db" \in Series /\ "bloat" \in Series
    BY DEF Series, Judged
  <2>. QED  BY <2>1, <2>2, <2>3 DEF Judgements, Judgement
<1>2. CASE ~InFlight(r)
  <2>1. run'[r].pc = "idle"
    BY <1>2 DEF Tick, Passes, Execution, Idle
  <2>. QED  BY <2>1 DEF Judgement
<1>. QED  BY <1>1, <1>2

\* A statement judges, and the next one keeps the judgement.
LEMMA StatementsKeepJudgements ==
  ASSUME IInv, Judgements, NEW r \in Runs, Cron(r) \/ Statement(r) \/ Fail(r)
  PROVE  Judgements'
<1>1. run \in [Runs -> Executions]
  BY DEF IInv, Typing
<1>2. \A q \in Runs : q # r => run'[q].pc = "idle"
  <2>1. \A q \in Runs : q # r => run[q].pc = "idle"
    BY OthersRest DEF IInv, OneAtATime, InFlight, Cron, Fail, Statement, BeginT1,
       CommitT1, BeginT2, TableStats, DbStats, BloatStats, CommitT2, Begin, Sample
  <2>2. \A q \in Runs : q # r => run'[q] = run[q]
    BY <1>1 DEF Cron, Fail, Statement, BeginT1, CommitT1, BeginT2, TableStats,
       DbStats, BloatStats, CommitT2, Begin, Sample, Commit, Goes
  <2>. QED  BY <2>1, <2>2
<1>3. Judgement(r)'
  <2>1. CASE DbStats(r)
    <3>1. /\ run[r].pc = "db" /\ run'[r].pc = "bloat" /\ age' = age
          /\ run'[r].now = run[r].now
          /\ run'[r].wrote = IF Due(r, "db") THEN run[r].wrote \cup {"db"}
                             ELSE run[r].wrote
      BY <1>1, <2>1 DEF DbStats, Sample, Goes, Execution
    <3>2. run[r].wrote \subseteq {"table"}
      BY <3>1 DEF IInv, Drafts, Draft
    <3>3. ("db" \in run'[r].wrote) <=> Ripe(r, "db")
      BY <3>1, <3>2 DEF Due, Ripe
    <3>4. Ripe(r, "db")' <=> Ripe(r, "db")
      BY <3>1 DEF Ripe
    <3>. QED  BY <3>1, <3>3, <3>4 DEF Judgement
  <2>2. CASE BloatStats(r)
    <3>1. /\ run[r].pc = "bloat" /\ run'[r].pc = "commit" /\ age' = age
          /\ run'[r].now = run[r].now
          /\ run'[r].wrote = IF Due(r, "bloat") THEN run[r].wrote \cup {"bloat"}
                             ELSE run[r].wrote
      BY <1>1, <2>2 DEF BloatStats, Sample, Goes, Execution
    <3>2. run[r].wrote \subseteq {"table", "db"}
          /\ (("db" \in run[r].wrote) <=> Ripe(r, "db"))
      BY <3>1 DEF IInv, Drafts, Draft, Judgements, Judgement
    <3>3. ("bloat" \in run'[r].wrote) <=> Ripe(r, "bloat")
      BY <3>1, <3>2 DEF Due, Ripe
    <3>4. ("db" \in run'[r].wrote) <=> Ripe(r, "db")
      BY <3>1, <3>2
    <3>5. \A s \in Series : Ripe(r, s)' <=> Ripe(r, s)
      BY <3>1 DEF Ripe
    <3>6. "db" \in Series /\ "bloat" \in Series
      BY DEF Series, Judged
    <3>. QED  BY <3>1, <3>3, <3>4, <3>5, <3>6 DEF Judgement
  <2>3. CASE ~DbStats(r) /\ ~BloatStats(r)
    <3>1. run'[r].pc \notin {"bloat", "commit"}
      BY <1>1, <2>3
      DEF Cron, Fail, Statement, BeginT1, CommitT1, BeginT2, TableStats, CommitT2,
          Begin, Sample, Commit, Goes, Idle, Execution
    <3>. QED  BY <3>1 DEF Judgement
  <2>. QED  BY <2>1, <2>2, <2>3
<1>4. \A q \in Runs : q # r => Judgement(q)'
  BY <1>2 DEF Judgement
<1>. QED  BY <1>3, <1>4 DEF Judgements

\* No step makes a series older than its misses explain.
LEMMA PunctualityIsKept ==
  ASSUME LimitIsBelowPeriod, IInv, Punctual, Judgements, [Next]_vars
  PROVE  Punctual' /\ Judgements'
<1>1. CASE Tick
  BY <1>1, TickIsPunctual, TickKeepsJudgements
<1>2. ASSUME NEW r \in Runs, Cron(r) \/ Statement(r) \/ Fail(r)
      PROVE  Punctual' /\ Judgements'
  <2>1. Judgements'
    BY <1>2, StatementsKeepJudgements
  <2>2. CASE Fail(r)
    BY <2>1, <2>2, MissesArePunctual
  <2>3. CASE Cron(r) \/ Statement(r)
    BY <2>1, <2>3, GoingOnIsPunctual, CommitT1IsPunctual, CommitT2IsPunctual
    DEF Statement
  <2>. QED  BY <1>2, <2>2, <2>3
<1>3. CASE CronMisses
  <2>1. Judgements'
    BY <1>3 DEF CronMisses, Judgements, Judgement, Ripe
  <2>. QED  BY <1>3, <2>1, MissesArePunctual
<1>4. CASE \/ Migrate \/ Deploy("ops") \/ Deploy("api")
           \/ CheckDatabase \/ DatabaseIsDown \/ Freshness \/ FreshnessFails
           \/ UNCHANGED vars
  <2>1. UNCHANGED <<age, run, clock, due, missed>>
    BY <1>4 DEF Migrate, Deploy, CheckDatabase, DatabaseIsDown, Freshness,
                FreshnessFails, Verdict, vars
  <2>2. Judgements'
    BY <2>1 DEF Judgements, Judgement, Ripe
  <2>3. Punctual'
    BY <2>1 DEF Punctual, Room, Base, Pending
  <2>. QED  BY <2>2, <2>3
<1>. QED  BY <1>1, <1>2, <1>3, <1>4 DEF Next

\* A series without a row has no age yet.
LEMMA InitIsPunctual == Init => Punctual /\ Judgements
<1>. SUFFICES ASSUME Init  PROVE Punctual /\ Judgements
  OBVIOUS
<1>1. IInv
  BY InitIsGood
<1>2. ASSUME NEW s \in Judged  PROVE age[s] <= Room(s)
  <2>1. age[s] = Never
    BY <1>1, RoomTypes DEF Init
  <2>. QED  BY <1>1, <2>1, RoomTypes DEF Room
<1>3. Judgements
  BY DEF Init, Judgements, Judgement, Idle, Execution
<1>. QED  BY <1>2, <1>3 DEF Punctual

\* For every schedule, interval and threshold: a series the probe takes for
\* stale has missed as many executions in a row as its threshold leaves room
\* for.  The execution that is under way costs one period, its limit another
\* part of one, and a failing T2 nothing to the heartbeat.
THEOREM StaleSeriesWereMissed ==
  ASSUME LimitIsBelowPeriod
  PROVE  Spec => []StaleMeansMissed
<1>1. IInv /\ Punctual => StaleMeansMissed
  <2>. SUFFICES ASSUME IInv, Punctual, NEW s \in Judged, age[s] > MaxAge[s]
                PROVE  Interval[s] + (missed[Transaction(s)] + 1) * Period
                         + RunLimit > MaxAge[s]
    BY DEF StaleMeansMissed, Stale
  <2>. DEFINE m == missed[Transaction(s)]
              t == Transaction(s)
  <2>1. /\ m \in Nat /\ m * Period \in Nat
        /\ (m + 1) * Period = m * Period + Period
    <3>1. m \in Nat
      BY RoomTypes
    <3>. HIDE DEF m
    <3>. QED  BY <3>1, Times
  <2>2. age[s] <= Room(s) /\ Base(s) = Interval[s] + clock + m * Period
    BY DEF Punctual, Base
  <2>3. Pending(t) => clock <= RunLimit
    <3>1. due => clock = 0
      BY DEF IInv, OneAtATime
    <3>2. \A r \in Runs : InFlight(r) => clock <= RunLimit
      BY PendingTyped DEF Executions
    <3>3. Pending(t) => due \/ \E r \in Runs : InFlight(r)
      BY DEF Pending, Awaited, InFlight
    <3>. QED  BY <3>1, <3>2, <3>3, TimesArePositive
  <2>4. CASE Pending(t)
    <3>1. Room(s) = Base(s) + Period
      BY <2>4 DEF Room
    <3>. HIDE DEF m
    <3>. QED
      BY <2>1, <2>2, <2>3, <2>4, <3>1, RoomTypes, TimesArePositive DEF m
  <2>5. CASE ~Pending(t)
    <3>1. Room(s) = Base(s)
      BY <2>5, RoomTypes DEF Room
    <3>. QED
      BY <2>1, <2>2, <3>1, RoomTypes, TimesArePositive
  <2>. QED  BY <2>4, <2>5
<1>2. Init => IInv /\ Punctual /\ Judgements
  BY InitIsGood, InitIsPunctual
<1>3. (IInv /\ Punctual /\ Judgements) /\ [Next]_vars
        => (IInv /\ Punctual /\ Judgements)'
  BY InvariantIsKept, PunctualityIsKept
<1>. QED  BY <1>1, <1>2, <1>3, PTL DEF Spec
=============================================================================
