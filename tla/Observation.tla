----------------------------- MODULE Observation -----------------------------
(***************************************************************************)
(* The observation job, which psql runs from cron (collect.sql), and how   *)
(* its standstill is noticed: /readyz reports the age of the newest row of *)
(* three series and the external probe judges them.                        *)
(*                                                                         *)
(* A run is two transactions: T1 marks that the database can be written,   *)
(* T2 samples its statistics when the newest sample is old enough.  now()  *)
(* is the time of BEGIN, while each statement sees what is committed when  *)
(* it begins.  Time is kept as ages, which stop growing where no           *)
(* comparison of the code can tell them apart any more.                    *)
(***************************************************************************)
EXTENDS Integers

CONSTANTS Runs,      \* executions that can be in flight at once
          Period,    \* of the cron schedule
          RunLimit,  \* replica_timeout of an execution
          Interval,  \* between two samples of a series
          MaxAge     \* of a series, to the probe

Judged == {"heartbeat", "db", "bloat"}
Series == Judged \cup {"table"}

ASSUME TimesArePositive == Period \in Nat \ {0} /\ RunLimit \in Nat
ASSUME SeriesHaveTimes == Interval \in [Series -> Nat] /\ MaxAge \in [Series -> Nat]
\* A healthy series never alarms (readyz-probe.yml: about thrice the interval).
ASSUME ThresholdsAreApart ==
  \A s \in Series : Interval[s] + Period + RunLimit <= MaxAge[s]
\* table_stats has no anchor of its own and is judged by nobody.
ASSUME TableGoesWithDb ==
  Interval["table"] = Interval["db"] /\ MaxAge["table"] = MaxAge["db"]

VARIABLES age,    \* of the newest committed row of each series
          run,    \* the executions
          clock,  \* since the last mark of the schedule
          due,    \* the execution of that mark has not been created yet
          missed, \* executions since the last commit of T1, and of T2
          probe,  \* the probe's request, or its last verdict
          table   \* what the table of the heartbeat is called, and by whom

vars == <<age, run, clock, due, missed, probe, table>>

Never == -1
Least(a, b) == IF a <= b THEN a ELSE b

\* Ages from here on mean the same to every comparison.
Old(s) == MaxAge[s] + 1
Older(a, s) == IF a = Never THEN Never ELSE Least(a + 1, Old(s))
Newest(a, t) == IF a = Never THEN t ELSE Least(a, t)

\* More executions than that have to be missed before a series is old.
Many == 1 + (CHOOSE n \in {MaxAge[s] : s \in Series} :
               \A s \in Series : n >= MaxAge[s]) \div Period
Missing(ts) == [t \in {"t1", "t2"} |->
                  IF t \in ts THEN Least(missed[t] + 1, Many) ELSE missed[t]]

-----------------------------------------------------------------------------
(* The schedule and the run limit. *)

\* Where an execution is, its age, the age of its transaction, what that has
\* written, and the name its image has for the heartbeat's table.
Execution(pc, since, now, wrote, names) ==
  [pc |-> pc, since |-> since, now |-> now, wrote |-> wrote, names |-> names]

Idle == Execution("idle", 0, 0, {}, "none")
InFlight(r) == run[r].pc # "idle"

\* A statement leaves the execution's age and names alone.
Goes(r, pc, now, wrote) ==
  run' = [run EXCEPT ![r] = Execution(pc, run[r].since, now, wrote, run[r].names)]

Init ==
  /\ age = [s \in Series |-> Never]
  /\ run = [r \in Runs |-> Idle]
  /\ clock = 0 /\ due = TRUE
  /\ missed = [t \in {"t1", "t2"} |-> 0]
  /\ probe = "none"
  /\ table = [db |-> "marker", ops |-> "marker", api |-> "marker"]

Passes ==
  /\ age' = [s \in Series |-> Older(age[s], s)]
  /\ run' = [r \in Runs |-> IF InFlight(r)
                            THEN Execution(run[r].pc, run[r].since + 1,
                                           run[r].now + 1, run[r].wrote,
                                           run[r].names)
                            ELSE Idle]
  /\ clock' = (clock + 1) % Period
  /\ due' = (clock' = 0)
  /\ UNCHANGED <<missed, probe, table>>

\* Mutant: nothing ends an execution before the next one.
TickUnlimited == /\ ~due
                 /\ \A r \in Runs : run[r].since < 2 * Period
                 /\ Passes

Tick == /\ ~due
        /\ \A r \in Runs : InFlight(r) => run[r].since < RunLimit
        /\ Passes

Cron(r) == /\ due
           /\ ~InFlight(r) /\ r = CHOOSE q \in Runs : ~InFlight(q)
           /\ due' = FALSE
           /\ run' = [run EXCEPT ![r] = Execution("starting", 0, 0, {}, table.ops)]
           /\ UNCHANGED <<age, clock, missed, probe, table>>

\* The platform creates no execution, or one whose container never starts.
CronMisses == /\ due
              /\ due' = FALSE
              /\ missed' = Missing({"t1", "t2"})
              /\ UNCHANGED <<age, run, clock, probe, table>>

\* An error (ON_ERROR_STOP), a lost connection, the SIGTERM of the run limit:
\* the open transaction is rolled back.  Nothing is retried.
Fail(r) == /\ InFlight(r)
           /\ run' = [run EXCEPT ![r] = Idle]
           /\ missed' = Missing(IF run[r].pc \in {"starting", "marking"}
                                THEN {"t1", "t2"} ELSE {"t2"})
           /\ UNCHANGED <<age, clock, due, probe, table>>

-----------------------------------------------------------------------------
(* The statements. *)

\* Mutant: without the coalesce.
DueOfNull(r, s) == /\ s \notin run[r].wrote
                   /\ age[s] # Never
                   /\ age[s] >= run[r].now + Interval[s]

\* Mutant: measured at the statement instead of BEGIN.
DueAtStatement(r, s) == /\ s \notin run[r].wrote
                        /\ age[s] = Never \/ age[s] >= Interval[s]

\* coalesce(max(ts), '-infinity') <= now() - interval, where the rows that
\* the transaction itself has written count.
Due(r, s) == /\ s \notin run[r].wrote
             /\ age[s] = Never \/ age[s] >= run[r].now + Interval[s]

Begin(r, pc, next, wrote) ==
  /\ run[r].pc = pc
  /\ Goes(r, next, 0, wrote)
  /\ UNCHANGED <<age, clock, due, missed, probe, table>>

BeginT1(r) == /\ run[r].names = table.db
              /\ Begin(r, "starting", "marking", {"heartbeat"})

\* The rows get the time of BEGIN.
Commit(r, next) ==
  /\ age' = [s \in Series |-> IF s \in run[r].wrote
                              THEN Newest(age[s], run[r].now) ELSE age[s]]
  /\ IF next = "idle" THEN run' = [run EXCEPT ![r] = Idle]
                      ELSE Goes(r, next, run[r].now, {})
  /\ UNCHANGED <<clock, due, probe, table>>

\* Mutant: T2 goes on in the transaction of T1.
CommitT1Later(r) == /\ run[r].pc = "marking"
                    /\ run' = [run EXCEPT ![r].pc = "marked"]
                    /\ missed' = [missed EXCEPT !["t1"] = 0]
                    /\ UNCHANGED <<age, clock, due, probe, table>>

\* UPDATE obs.counter, whose lock lets one run at a time through, and COMMIT.
CommitT1(r) == /\ run[r].pc = "marking"
               /\ Commit(r, "marked")
               /\ missed' = [missed EXCEPT !["t1"] = 0]

BeginT2(r) == Begin(r, "marked", "table", run[r].wrote)

Sample(r, pc, next, s, isDue) ==
  /\ run[r].pc = pc
  /\ Goes(r, next, run[r].now,
          IF isDue THEN run[r].wrote \cup {s} ELSE run[r].wrote)
  /\ UNCHANGED <<age, clock, due, missed, probe, table>>

\* Mutant: table_stats has its own anchor and no transaction around it.
TableStatsAutocommit(r) ==
  /\ run[r].pc = "table"
  /\ run' = [run EXCEPT ![r].pc = "db"]
  /\ age' = IF Due(r, "db") THEN [age EXCEPT !["table"] = run[r].now] ELSE age
  /\ UNCHANGED <<clock, due, missed, probe, table>>

\* The two series of the short interval have one anchor, that of db_stats.
TableStats(r) == Sample(r, "table", "db", "table", Due(r, "db"))
DbStats(r) == Sample(r, "db", "bloat", "db", Due(r, "db"))

\* pgstattuple is called only if the sample is due, with the table's name.
BloatStats(r) == /\ Due(r, "bloat") => run[r].names = table.db
                 /\ Sample(r, "bloat", "commit", "bloat", Due(r, "bloat"))

CommitT2(r) == /\ run[r].pc = "commit"
               /\ Commit(r, "idle")
               /\ missed' = [missed EXCEPT !["t2"] = 0]

Statement(r) == \/ BeginT1(r) \/ CommitT1(r)
                \/ BeginT2(r) \/ TableStats(r) \/ DbStats(r) \/ BloatStats(r)
                \/ CommitT2(r)

-----------------------------------------------------------------------------
(* The release that renames the table: the migration and the two images    *)
(* that name it are brought out one by one, in any order.                  *)

\* ALTER TABLE waits for the transactions that use the table.
Migrate == /\ table.db = "marker"
           /\ \A r \in Runs : run[r].wrote \cap {"heartbeat", "bloat"} = {}
           /\ table' = [table EXCEPT !.db = "heartbeat"]
           /\ UNCHANGED <<age, run, clock, due, missed, probe>>

Deploy(image) == /\ table[image] = "marker"
                 /\ table' = [table EXCEPT ![image] = "heartbeat"]
                 /\ UNCHANGED <<age, run, clock, due, missed, probe>>

-----------------------------------------------------------------------------
(* /readyz and the probe. *)

Verdict(v) == /\ probe' = v
              /\ UNCHANGED <<age, run, clock, due, missed, table>>

\* check_database_ready; no verdict is retried.
CheckDatabase == probe # "checked" /\ Verdict("checked")
DatabaseIsDown == probe # "checked" /\ Verdict("red")

\* The query of _OBS_FRESHNESS_SQL fails, or takes longer than its
\* statement_timeout: obs is null, which the probe takes for a defect.
FreshnessFails == probe = "checked" /\ Verdict("red")

Stale(s) == age[s] # Never /\ age[s] > MaxAge[s]

\* Mutant: the series are judged by the newest of them.
FreshnessBundled == /\ probe = "checked"
                    /\ table.api = table.db
                    /\ Verdict(IF \A s \in Judged : Stale(s)
                               THEN "red" ELSE "green")

\* A series without a row has not started and is passed over.
Freshness == /\ probe = "checked"
             /\ table.api = table.db
             /\ Verdict(IF \E s \in Judged : Stale(s) THEN "red" ELSE "green")

-----------------------------------------------------------------------------
Next == \/ Tick \/ CronMisses
        \/ \E r \in Runs : Cron(r) \/ Statement(r) \/ Fail(r)
        \/ Migrate \/ Deploy("ops") \/ Deploy("api")
        \/ CheckDatabase \/ DatabaseIsDown
        \/ Freshness \/ FreshnessFails

Spec == Init /\ [][Next]_vars

\* Time goes on, an execution gets on or ends, and the probe is scheduled
\* forever.  Nothing makes a run succeed, a query answer or a release finish.
FairSpec == /\ Spec
            /\ WF_vars(Tick)
            /\ WF_vars(CronMisses \/ \E r \in Runs : Cron(r))
            /\ \A r \in Runs : WF_vars(Statement(r) \/ Fail(r))
            /\ WF_vars(CheckDatabase \/ DatabaseIsDown)
            /\ WF_vars(Freshness \/ FreshnessFails)

-----------------------------------------------------------------------------
(* Properties. *)

\* Every variable has its type, and no execution outlives its limit.
TypeOK ==
  /\ \A s \in Series : age[s] \in {Never} \cup 0..Old(s)
  /\ \A r \in Runs :
       /\ run[r].pc \in {"idle", "starting", "marking", "marked", "table",
                         "db", "bloat", "commit"}
       /\ run[r].since \in 0..RunLimit /\ run[r].now \in 0..run[r].since
       /\ run[r].wrote \subseteq Series
  /\ clock \in 0..(Period - 1) /\ due \in BOOLEAN
  /\ missed \in [{"t1", "t2"} -> 0..Many]
  /\ probe \in {"none", "checked", "green", "red"}

Transaction(s) == IF s = "heartbeat" THEN "t1" ELSE "t2"

\* A series is reported stale only after as many executions in a row have
\* been missed as its threshold leaves room for; a failing T2 in particular
\* never touches the heartbeat (collect.sql: T1 and T2 are separate, and a
\* run that comes late catches up).
StaleMeansMissed ==
  \A s \in Judged : Stale(s) =>
    Interval[s] + (missed[Transaction(s)] + 1) * Period + RunLimit > MaxAge[s]

\* table_stats and db_stats keep pace, whatever fails between the two
\* statements (collect.sql: one anchor for both).
SeriesInStep == age["table"] = age["db"]

\* No sample is taken within the interval after another one
\* (collect.sql: a second run at the same time skips).  The condition is
\* evaluated some statements before the commit.
SamplesAreApart ==
  [][\A r \in Runs : CommitT2(r) =>
       \A s \in run[r].wrote \cap {"table", "db", "bloat"} :
         age[s] = Never \/ age[s] >= run[r].now + Interval[s]]_vars

Sampled(s) == \E r \in Runs : /\ s \in run[r].wrote
                              /\ CommitT1(r) \/ CommitT2(r)

\* A series that has begun and then stops for good is reported by every
\* probe from some moment on, while the others go on or not
\* (readyz-probe.yml: one judgement per series).
DeadSeriesIsReported ==
  \A s \in Judged : \/ []<><<Sampled(s)>>_vars
                    \/ <>[](age[s] = Never)
                    \/ <>[](probe # "green")

\* Once executions stop failing every series comes back by itself, from
\* whatever was left by those that failed (main.tf: the run of the next
\* minute is the retry).
SelfHeals ==
  \/ []<><<CronMisses \/ \E r \in Runs : Fail(r)>>_vars
  \/ \A s \in Series : []<><<Sampled(s)>>_vars
=============================================================================
