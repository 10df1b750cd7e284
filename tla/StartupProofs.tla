---------------------------- MODULE StartupProofs ----------------------------
(***************************************************************************)
(* Proofs about Startup, for every environment and any set of processes.   *)
(* The processes share only the variables, so everything rests on what     *)
(* each of them has established about these by the time it gets somewhere. *)
(***************************************************************************)
EXTENDS Startup, TLAPS

-----------------------------------------------------------------------------
(* The inductive invariant. *)

Failures == {"none", "connection", "statement", "invalid", "missing",
             "no client id", "retry", "credentials", "provider"}

Process == [pc : {"config", "assembled", "serving", "entered", "seeded",
                  "embedding", "done", "failed"},
            failure : Failures, identity : BOOLEAN,
            llm : {"none", "stub", "bearer", "key"},
            doors : SUBSET {"dsn", "token"}, changed : BOOLEAN]

\* The one way into the database that these variables give.
Gateway == IF env["DB_AUTH_MODE"] = Identity THEN "token" ELSE "dsn"

\* What a process has found out once it is past its settings.
SettingsRead == /\ ~Invalid
                /\ Missing = {}

\* A process that is k and has become s.
Route(k, s) ==
  /\ s.pc \in {"assembled", "serving", "seeded", "embedding"} =>
       k \in ReadersOfSettings
  /\ s.pc = "serving" => k = "serve"
  /\ s.pc \in {"entered", "done"} => k # "serve"
  /\ s.pc \in {"seeded", "embedding"} => k = "embed"
  /\ s.pc \in {"config", "assembled"} => s.doors = {}
  /\ s.pc \in {"entered", "seeded", "embedding", "done"} => s.doors # {}
  /\ s.pc \in {"config", "assembled", "serving", "entered"} => ~s.changed
  /\ s.pc = "config" => ~s.identity

Knowledge(k, s) ==
  k \in ReadersOfSettings /\ s.pc \notin {"config", "failed"} =>
     /\ SettingsRead
     /\ s.identity = (UsesDbIdentity \/ UsesLlmIdentity)

Verdict(k, s) ==
  /\ (s.pc = "failed") = (s.failure # "none")
  /\ s.failure \notin {"no client id", "credentials"}
  /\ s.failure = "missing" /\ ~Azure /\ ~UsesDbIdentity =>
       env["DATABASE_URL"] \in Absent
  /\ s.failure \in {"invalid", "missing"} => s.doors = {} /\ ~s.changed
  /\ s.failure \in {"retry", "provider"} /\ s.changed => k = "embed"

Achieved(k, s) ==
  /\ s.doors \subseteq {Gateway}
  /\ s.llm # "none" => k \in {"serve", "embed"}
  /\ s.changed => k # "serve" /\ k # "observe" /\ s.doors # {}

Good(k, s) == /\ s \in Process
              /\ Route(k, s) /\ Knowledge(k, s)
              /\ Verdict(k, s) /\ Achieved(k, s)

IInv == /\ proc \in [DOMAIN proc -> Process]
        /\ DOMAIN proc \subseteq Kinds
        /\ \A k \in DOMAIN proc : Good(k, proc[k])

-----------------------------------------------------------------------------
(* Facts about the variables. *)

\* What is known about the variables stays known: nothing writes them.
LEMMA VariablesStay ==
  ASSUME UNCHANGED env
  PROVE  /\ SettingsRead' = SettingsRead
         /\ UsesDbIdentity' = UsesDbIdentity
         /\ UsesLlmIdentity' = UsesLlmIdentity
         /\ Azure' = Azure
         /\ Gateway' = Gateway
<1>1. UsesDbIdentity' = UsesDbIdentity /\ Gateway' = Gateway
  BY DEF UsesDbIdentity, DbMode, ChoiceEnv, Gateway
<1>2. Azure' = Azure /\ LlmMode' = LlmMode
  BY DEF Azure, Provider, LlmMode, ChoiceEnv
<1>3. UsesLlmIdentity' = UsesLlmIdentity
  BY <1>2 DEF UsesLlmIdentity
<1>4. Invalid' = Invalid
  BY <1>2 DEF Invalid, DbMode, ChoiceEnv, FlagIsReadable
<1>5. Missing' = Missing
  BY <1>1, <1>2, <1>3 DEF Missing, Required
<1>. QED  BY <1>1, <1>2, <1>3, <1>4, <1>5 DEF SettingsRead

\* The three readers of DB_AUTH_MODE agree wherever they accept it.
LEMMA ReadersAgree ==
  /\ UsesDbIdentity <=> env["DB_AUTH_MODE"] = Identity
  /\ MigrateMode = Identity <=> env["DB_AUTH_MODE"] = Identity
  /\ MigrateMode = "password" => env["DB_AUTH_MODE"] # Identity
BY DEF UsesDbIdentity, DbMode, ChoiceEnv, MigrateMode, Identity, Absent

\* Settings that are complete name a client id where one is used.
LEMMA ClientIdIsThere ==
  ASSUME SettingsRead, UsesDbIdentity \/ UsesLlmIdentity
  PROVE  ~NoClientId
BY DEF SettingsRead, Missing, Required, NoClientId

\* Settings that are complete give the transport exactly one credential.
LEMMA OneCredential ==
  ASSUME NEW k, SettingsRead, Azure,
         proc[k].identity = (UsesDbIdentity \/ UsesLlmIdentity)
  PROVE  (ApiKey(k) \notin Absent) # Bearer(k)
<1>1. CASE UsesLlmIdentity
  <2>1. Bearer(k)
    BY <1>1 DEF Bearer
  <2>2. ApiKey(k) \in Absent
    BY <2>1 DEF ApiKey, Absent
  <2>. QED  BY <2>1, <2>2
<1>2. CASE ~UsesLlmIdentity
  <2>1. ~Bearer(k)
    BY <1>2 DEF Bearer
  <2>2. LlmMode = "api-key"
    BY <1>2 DEF UsesLlmIdentity, SettingsRead, Invalid
  <2>3. env["AZURE_OPENAI_API_KEY"] \notin Absent
    BY <2>2 DEF SettingsRead, Missing, Required
  <2>. QED  BY <2>1, <2>3 DEF ApiKey
<1>. QED  BY <1>1, <1>2
-----------------------------------------------------------------------------
(* Every step of a process keeps the invariant. *)

\* A process that does not move stays as it is known.
LEMMA GoodStays ==
  ASSUME UNCHANGED env, NEW j, Good(j, proc'[j])
  PROVE  Good(j, proc[j])'
<1>1. Route(j, proc[j])' /\ Achieved(j, proc[j])'
  BY VariablesStay DEF Good, Route, Achieved
<1>2. Knowledge(j, proc[j])'
  BY VariablesStay DEF Good, Knowledge
<1>3. Verdict(j, proc[j])'
  BY VariablesStay DEF Good, Verdict
<1>. QED  BY <1>1, <1>2, <1>3 DEF Good

\* It is enough to look at the process that moves.
LEMMA OneProcessMoves ==
  ASSUME IInv, NEW k \in DOMAIN proc, NEW s, Good(k, s), Becomes(k, s)
  PROVE  IInv'
<1>1. s \in Process
  BY DEF Good
<1>2. /\ DOMAIN proc' = DOMAIN proc
      /\ proc' \in [DOMAIN proc -> Process]
      /\ proc'[k] = s
      /\ \A j \in DOMAIN proc \ {k} : proc'[j] = proc[j]
  BY <1>1 DEF IInv, Becomes
<1>3. \A j \in DOMAIN proc : Good(j, proc'[j])
  BY <1>2 DEF IInv
<1>4. \A j \in DOMAIN proc : Good(j, proc[j])'
  <2>1. UNCHANGED env
    BY DEF Becomes
  <2>. QED  BY <1>2, <1>3, <2>1, GoodStays
<1>. QED  BY <1>2, <1>4 DEF IInv

\* A failure other than those that are excluded.
LEMMA Fails ==
  ASSUME IInv, NEW k \in DOMAIN proc, NEW why \in Failures, Fail(k, why),
         why \notin {"none", "no client id", "credentials"},
         why = "missing" /\ ~Azure /\ ~UsesDbIdentity =>
           env["DATABASE_URL"] \in Absent,
         why \in {"invalid", "missing"} => proc[k].pc = "config",
         why \in {"retry", "provider"} => k \in {"serve", "embed"}
  PROVE  IInv'
<1>. DEFINE s == [proc[k] EXCEPT !.pc = "failed", !.failure = why]
<1>1. Good(k, proc[k])
  BY DEF IInv
<1>2. /\ s \in Process
      /\ s.pc = "failed" /\ s.failure = why
      /\ s.identity = proc[k].identity /\ s.llm = proc[k].llm
      /\ s.doors = proc[k].doors /\ s.changed = proc[k].changed
  BY <1>1 DEF Good, Process
<1>3. Good(k, s)
  <2>1. Route(k, s) /\ Knowledge(k, s)
    BY <1>2 DEF Route, Knowledge
  <2>2. Achieved(k, s)
    BY <1>1, <1>2 DEF Good, Achieved
  <2>3. Verdict(k, s)
    BY <1>1, <1>2 DEF Good, Verdict, Route, Achieved
  <2>. QED  BY <1>2, <2>1, <2>2, <2>3 DEF Good
<1>. HIDE DEF s
<1>4. Becomes(k, s)
  BY DEF Fail, s
<1>. QED  BY <1>3, <1>4, OneProcessMoves

\* A connection, by the way the variables give.
LEMMA Enters ==
  ASSUME IInv, NEW k \in DOMAIN proc, NEW place \in {"entered", "done"},
         k # "serve", proc[k].pc # "failed",
         proc[k].changed => place = "done",
         k \in ReadersOfSettings => proc[k].pc # "config",
         Enter(k, Gateway, place)
  PROVE  IInv'
<1>1. CASE Fail(k, "connection")
  BY <1>1, Fails DEF Failures
<1>2. CASE Becomes(k, [proc[k] EXCEPT !.pc = place, !.doors = @ \cup {Gateway}])
  <2>. DEFINE s == [proc[k] EXCEPT !.pc = place, !.doors = @ \cup {Gateway}]
  <2>1. Good(k, proc[k])
    BY DEF IInv
  <2>2. /\ s \in Process
        /\ s.pc = place /\ s.failure = proc[k].failure
        /\ s.identity = proc[k].identity /\ s.llm = proc[k].llm
        /\ s.doors = proc[k].doors \cup {Gateway}
        /\ s.changed = proc[k].changed
    BY <2>1 DEF Good, Process, Gateway
  <2>3. Route(k, s) /\ Achieved(k, s)
    BY <2>1, <2>2 DEF Good, Route, Achieved
  <2>4. Knowledge(k, s) /\ Verdict(k, s)
    BY <2>1, <2>2 DEF Good, Knowledge, Verdict, Failures
  <2>5. Good(k, s)
    BY <2>2, <2>3, <2>4 DEF Good
  <2>. HIDE DEF s
  <2>6. Becomes(k, s)
    BY <1>2 DEF s
  <2>. QED  BY <2>5, <2>6, OneProcessMoves
<1>. QED  BY <1>1, <1>2 DEF Enter

\* Settings.from_env accepts, or the process ends.
LEMMA ReadSettingsKeeps ==
  ASSUME IInv, NEW k \in DOMAIN proc, ReadSettings(k)
  PROVE  IInv'
<1>1. k \in ReadersOfSettings /\ proc[k].pc = "config" /\ Good(k, proc[k])
  BY DEF ReadSettings, IInv
<1>2. CASE k \in Seeders /\ env["DATABASE_URL"] \in Absent
  BY <1>1, <1>2, Fails DEF ReadSettings, Failures
<1>3. CASE ~(k \in Seeders /\ env["DATABASE_URL"] \in Absent) /\ Invalid
  BY <1>1, <1>3, Fails DEF ReadSettings, Failures
<1>4. CASE /\ ~(k \in Seeders /\ env["DATABASE_URL"] \in Absent)
           /\ ~Invalid /\ Missing # {}
  <2>1. Fail(k, "missing")
    BY <1>4 DEF ReadSettings
  <2>2. ~Azure /\ ~UsesDbIdentity => env["DATABASE_URL"] \in Absent
    BY <1>4 DEF Missing, Required, UsesLlmIdentity
  <2>. QED  BY <1>1, <2>1, <2>2, Fails DEF Failures
<1>5. CASE /\ ~(k \in Seeders /\ env["DATABASE_URL"] \in Absent)
           /\ ~Invalid /\ Missing = {}
  <2>1. ManagedIdentity(k) /\ SettingsRead
    BY <1>5 DEF ReadSettings, SettingsRead
  <2>2. proc[k] \in Process /\ ~proc[k].identity
    BY <1>1 DEF Good, Route
  <2>3. CASE UsesDbIdentity \/ UsesLlmIdentity
    <3>. DEFINE s == [proc[k] EXCEPT !.pc = "assembled", !.identity = TRUE]
    <3>1. Becomes(k, s)
      BY <2>1, <2>3, ClientIdIsThere DEF ManagedIdentity
    <3>2. /\ s \in Process /\ s.pc = "assembled" /\ s.identity = TRUE
          /\ s.failure = proc[k].failure /\ s.llm = proc[k].llm
          /\ s.doors = proc[k].doors /\ s.changed = proc[k].changed
      BY <2>2 DEF Process
    <3>. HIDE DEF s
    <3>3. Route(k, s) /\ Knowledge(k, s) /\ Achieved(k, s)
      BY <1>1, <2>1, <2>3, <3>2 DEF Good, Route, Knowledge, Achieved
    <3>4. Verdict(k, s)
      BY <1>1, <3>2 DEF Good, Verdict
    <3>5. Good(k, s)
      BY <3>2, <3>3, <3>4 DEF Good
    <3>. QED  BY <3>1, <3>5, OneProcessMoves
  <2>4. CASE ~(UsesDbIdentity \/ UsesLlmIdentity)
    <3>. DEFINE s == [proc[k] EXCEPT !.pc = "assembled"]
    <3>1. Becomes(k, s)
      BY <2>1, <2>4 DEF ManagedIdentity, Goto
    <3>2. /\ s \in Process /\ s.pc = "assembled" /\ s.identity = FALSE
          /\ s.failure = proc[k].failure /\ s.llm = proc[k].llm
          /\ s.doors = proc[k].doors /\ s.changed = proc[k].changed
      BY <2>2 DEF Process
    <3>. HIDE DEF s
    <3>3. Route(k, s) /\ Knowledge(k, s) /\ Achieved(k, s)
      BY <1>1, <2>1, <2>4, <3>2 DEF Good, Route, Knowledge, Achieved
    <3>4. Verdict(k, s)
      BY <1>1, <3>2 DEF Good, Verdict
    <3>5. Good(k, s)
      BY <3>2, <3>3, <3>4 DEF Good
    <3>. QED  BY <3>1, <3>5, OneProcessMoves
  <2>. QED  BY <2>3, <2>4
<1>. QED  BY <1>2, <1>3, <1>4, <1>5

\* The client of the model is assembled, or that fails.
LEMMA AssembleClientKeeps ==
  ASSUME IInv, NEW k \in DOMAIN proc, AssembleClient(k)
  PROVE  IInv'
<1>1. /\ k \in {"serve", "embed"} /\ k \in ReadersOfSettings
      /\ k = "serve" => proc[k].pc = "assembled"
      /\ k = "embed" => proc[k].pc = "seeded"
      /\ Good(k, proc[k])
  BY DEF AssembleClient, ClientIsDue, IInv, ReadersOfSettings, Seeders
<1>2. SettingsRead /\ proc[k].identity = (UsesDbIdentity \/ UsesLlmIdentity)
  BY <1>1 DEF Good, Knowledge
<1>3. CASE RetryRejected
  BY <1>1, <1>3, Fails DEF AssembleClient, Failures
<1>4. ~(Azure /\ (ApiKey(k) \notin Absent) = Bearer(k))
  BY <1>2, OneCredential
<1>5. CASE ~RetryRejected /\ Provider \notin {"stub", "azure-openai"}
  BY <1>1, <1>4, <1>5, Fails DEF AssembleClient, Failures
<1>6. CASE ~RetryRejected /\ Provider \in {"stub", "azure-openai"}
  <2>. DEFINE place == IF k = "serve" THEN "serving" ELSE "embedding"
              client == IF ~Azure THEN "stub"
                        ELSE IF Bearer(k) THEN "bearer" ELSE "key"
              s == [proc[k] EXCEPT !.pc = place, !.llm = client]
  <2>1. Becomes(k, s)
    BY <1>4, <1>6 DEF AssembleClient
  <2>2. /\ client \in {"stub", "bearer", "key"}
        /\ k = "serve" => place = "serving"
        /\ k = "embed" => place = "embedding"
    BY <1>1
  <2>. HIDE DEF place, client
  <2>3. /\ s \in Process /\ s.pc = place /\ s.llm = client
        /\ s.failure = proc[k].failure /\ s.identity = proc[k].identity
        /\ s.doors = proc[k].doors /\ s.changed = proc[k].changed
    BY <1>1, <2>2 DEF Good, Process
  <2>. HIDE DEF s
  <2>4. Good(k, s)
    BY <1>1, <1>2, <2>2, <2>3
       DEF Good, Route, Knowledge, Verdict, Achieved
  <2>. QED  BY <2>1, <2>4, OneProcessMoves
<1>. QED  BY <1>3, <1>5, <1>6

\* Past its settings a process uses the way the variables give.
LEMMA DoorIsGateway ==
  ASSUME IInv, NEW k \in DOMAIN proc, k \in ReadersOfSettings,
         proc[k].pc \notin {"config", "failed"}
  PROVE  Door(k) = Gateway
<1>1. proc[k].identity = (UsesDbIdentity \/ UsesLlmIdentity)
  BY DEF IInv, Good, Knowledge
<1>. QED  BY <1>1, ReadersAgree DEF Door, Gateway

\* A request of the server enters the database.
LEMMA ServeRequestKeeps ==
  ASSUME IInv, NEW k \in DOMAIN proc, ServeRequest(k)
  PROVE  IInv'
<1>1. /\ k = "serve" /\ proc[k].pc = "serving" /\ Good(k, proc[k])
      /\ k \in ReadersOfSettings
  BY DEF ServeRequest, IInv, ReadersOfSettings
<1>. DEFINE s == [proc[k] EXCEPT !.doors = @ \cup {Gateway}]
<1>2. Becomes(k, s)
  BY <1>1, DoorIsGateway DEF ServeRequest
<1>3. /\ s \in Process /\ s.pc = proc[k].pc /\ s.llm = proc[k].llm
      /\ s.failure = proc[k].failure /\ s.identity = proc[k].identity
      /\ s.doors = proc[k].doors \cup {Gateway}
      /\ s.changed = proc[k].changed
  BY <1>1 DEF Good, Process, Gateway
<1>. HIDE DEF s
<1>4. Good(k, s)
  BY <1>1, <1>3 DEF Good, Route, Knowledge, Verdict, Achieved
<1>. QED  BY <1>2, <1>4, OneProcessMoves

\* The seed job enters the database, once or twice.
LEMMA ConnectionKeeps ==
  ASSUME IInv, NEW k \in DOMAIN proc, SeedJobConnects(k) \/ Backfill(k)
  PROVE  IInv'
<1>1. /\ k \in Seeders /\ k \in ReadersOfSettings /\ k # "serve"
      /\ proc[k].pc \in {"assembled", "embedding"}
      /\ Good(k, proc[k])
  BY DEF SeedJobConnects, Backfill, IInv, ReadersOfSettings, Seeders
<1>2. Door(k) = Gateway
  BY <1>1, DoorIsGateway
<1>3. \E place \in {"entered", "done"} :
         /\ Enter(k, Gateway, place)
         /\ proc[k].changed => place = "done"
  BY <1>1, <1>2 DEF SeedJobConnects, Backfill, Good, Route
<1>. QED  BY <1>1, <1>3, Enters

\* The ends of the two transactions.
LEMMA CommitKeeps ==
  ASSUME IInv, NEW k \in DOMAIN proc, SeedJobCommits(k) \/ MigrationCommits(k)
  PROVE  IInv'
<1>1. /\ k \in Seeders \cup {"migrate"} /\ k \notin {"serve", "observe"}
      /\ proc[k].pc = "entered" /\ Good(k, proc[k])
  BY DEF SeedJobCommits, MigrationCommits, IInv, Seeders
<1>2. CASE Fail(k, "statement")
  BY <1>2, Fails DEF Failures
<1>3. CASE ~Fail(k, "statement")
  <2>. DEFINE place == IF k = "embed" THEN "seeded" ELSE "done"
              s == [proc[k] EXCEPT !.pc = place, !.changed = TRUE]
  <2>1. Becomes(k, s)
    BY <1>3 DEF SeedJobCommits, MigrationCommits
  <2>2. /\ place \in {"seeded", "done"}
        /\ place = "seeded" => k = "embed" /\ k \in ReadersOfSettings
    BY DEF ReadersOfSettings, Seeders
  <2>. HIDE DEF place
  <2>3. /\ s \in Process /\ s.pc = place /\ s.llm = proc[k].llm
        /\ s.failure = proc[k].failure /\ s.identity = proc[k].identity
        /\ s.doors = proc[k].doors /\ s.changed
    BY <1>1, <2>2 DEF Good, Process
  <2>. HIDE DEF s
  <2>4. Good(k, s)
    BY <1>1, <2>2, <2>3 DEF Good, Route, Knowledge, Verdict, Achieved
  <2>. QED  BY <2>1, <2>4, OneProcessMoves
<1>. QED  BY <1>2, <1>3

\* The two processes that read the variables without Settings.
LEMMA OtherReadersKeep ==
  ASSUME IInv, NEW k \in DOMAIN proc, MigrationConnects(k) \/ Observe(k)
  PROVE  IInv'
<1>1. /\ k \in {"migrate", "observe"} /\ k \notin ReadersOfSettings
      /\ k # "serve" /\ proc[k].pc = "config" /\ ~proc[k].changed
  BY DEF MigrationConnects, Observe, ReadersOfSettings, Seeders, IInv, Good, Route
<1>2. CASE \E why \in {"connection", "invalid"} : Fail(k, why)
  BY <1>1, <1>2, Fails DEF Failures
<1>3. CASE Fail(k, "missing") /\ MigrationConnects(k)
  <2>1. ~UsesDbIdentity => env["DATABASE_URL"] \in Absent
    <3>1. SUFFICES ASSUME env["DATABASE_URL"] \notin Absent  PROVE UsesDbIdentity
      OBVIOUS
    <3>2. CASE MigrateMode = Identity
      BY <3>2, ReadersAgree
    <3>3. CASE MigrateMode # Identity
      <4>1. Enter(k, "dsn", "entered") \/ Fail(k, "invalid")
        BY <1>3, <3>1, <3>3 DEF MigrationConnects
      <4>2. /\ proc'[k].failure = "missing"
            /\ proc'[k].failure # "missing"
        <5>1. k \in DOMAIN proc /\ proc[k] \in Process /\ proc[k].failure = "none"
          BY <1>1 DEF IInv, Good, Verdict
        <5>2. proc'[k].failure = "missing"
          BY <1>3, <5>1 DEF Fail, Becomes, Process, IInv
        <5>3. proc'[k].failure # "missing"
          BY <4>1, <5>1 DEF Enter, Fail, Becomes, Process, IInv
        <5>. QED  BY <5>2, <5>3
      <4>. QED  BY <4>2
    <3>. QED  BY <3>2, <3>3
  <2>. QED  BY <1>1, <1>3, <2>1, Fails DEF Failures
<1>4. CASE Enter(k, Gateway, "entered") \/ Enter(k, Gateway, "done")
  BY <1>1, <1>4, Enters
<1>5. \/ Fail(k, "connection") \/ Fail(k, "invalid")
      \/ Fail(k, "missing") /\ MigrationConnects(k)
      \/ Enter(k, Gateway, "entered") \/ Enter(k, Gateway, "done")
  BY ReadersAgree DEF MigrationConnects, Observe, Gateway
<1>. QED  BY <1>2, <1>3, <1>4, <1>5
-----------------------------------------------------------------------------
\* No process has read anything.
LEMMA InitIsGood == Init => IInv
<1>. SUFFICES ASSUME Init  PROVE IInv
  OBVIOUS
<1>1. PICK g \in Groups : proc = [k \in g |-> Started]
  BY DEF Init
<1>2. g \subseteq Kinds
  BY GroupsAssumption
<1>3. \A k : Good(k, Started)
  BY DEF Started, Good, Process, Failures, Route, Knowledge, Verdict, Achieved
<1>4. Started \in Process
  BY DEF Started, Process, Failures
<1>. QED  BY <1>1, <1>2, <1>3, <1>4 DEF IInv

\* Every step of a process keeps the invariant.
LEMMA StepIsGood == IInv /\ [Next]_vars => IInv'
<1>. SUFFICES ASSUME IInv, [Next]_vars  PROVE IInv'
  OBVIOUS
<1>1. CASE Next
  <2>1. PICK k \in DOMAIN proc :
          \/ ReadSettings(k) \/ AssembleClient(k) \/ ServeRequest(k)
          \/ SeedJobConnects(k) \/ SeedJobCommits(k) \/ Backfill(k)
          \/ MigrationConnects(k) \/ MigrationCommits(k)
          \/ Observe(k)
    BY <1>1 DEF Next
  <2>. QED
    BY <2>1, ReadSettingsKeeps, AssembleClientKeeps, ServeRequestKeeps,
       ConnectionKeeps, CommitKeeps, OtherReadersKeep
<1>2. CASE UNCHANGED vars
  <2>1. UNCHANGED env /\ UNCHANGED proc
    BY <1>2 DEF vars
  <2>2. \A k \in DOMAIN proc : Good(k, proc'[k])
    BY <2>1 DEF IInv
  <2>3. \A k \in DOMAIN proc : Good(k, proc[k])'
    BY <2>1, <2>2, GoodStays
  <2>. QED  BY <2>1, <2>3 DEF IInv
<1>. QED  BY <1>1, <1>2

\* The invariant, whatever the variables.
LEMMA InvariantHolds == Spec => []IInv
BY InitIsGood, StepIsGood, PTL DEF Spec

\* Whatever the variables say, every process is where its program can be, and
\* has what it has got there.
THEOREM TypeCorrect == Spec => []TypeOK
<1>1. IInv => TypeOK
  BY DEF IInv, TypeOK, Good, Process, Verdict, Achieved
<1>. QED  BY <1>1, InvariantHolds, PTL

\* Settings asks for exactly what the code behind it relies on: the provider
\* of tokens is never without a client id and the transport never without,
\* or with two, credentials.  The reason is Knowledge: whoever is past its
\* settings has found every variable of Required in place.
THEOREM SettingsGuaranteed == Spec => []SettingsGuarantee
<1>1. IInv => SettingsGuarantee
  BY DEF IInv, SettingsGuarantee, Good, Verdict
<1>. QED  BY <1>1, InvariantHolds, PTL

\* However many processes are compared, they enter the database the same way.
\* The reason is that each of the three readers of DB_AUTH_MODE comes to the
\* same Gateway or fails.
THEOREM SameDoorForAll == Spec => []SameDoor
<1>1. IInv => SameDoor
  BY DEF IInv, SameDoor, Good, Achieved
<1>. QED  BY <1>1, InvariantHolds, PTL

\* What Settings or the migration's reader refuses is refused before the
\* database is touched.
THEOREM RejectedEarly == Spec => []EarlyRejection
<1>1. IInv => EarlyRejection
  BY DEF IInv, EarlyRejection, Good, Verdict
<1>. QED  BY <1>1, InvariantHolds, PTL
=============================================================================
