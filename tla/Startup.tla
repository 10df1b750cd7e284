------------------------------- MODULE Startup -------------------------------
(***************************************************************************)
(* What the processes of one release make of their environment variables.  *)
(* Five kinds of them are started with the same variables: the server, the *)
(* seed job without and with --embed, the migration, and the observation   *)
(* job, whose psql gets its password from a command.  Three pieces of code *)
(* read the variables, each for itself; they have to agree on how the      *)
(* database is entered, and what one of them checks another relies on.     *)
(* The processes share nothing but the variables, so a few at a time are   *)
(* enough to compare them.                                                 *)
(***************************************************************************)
CONSTANTS Envs,    \* the environments a release can be given
          Groups   \* the sets of processes that are looked at together

Kinds == {"serve", "ingest", "embed", "migrate", "observe"}
Seeders == {"ingest", "embed"}
ReadersOfSettings == {"serve"} \cup Seeders

ASSUME GroupsAssumption == Groups \subseteq SUBSET Kinds

Absent == {"unset", ""}
Identity == "managed-identity"
Numbers == {"LLM_MAX_ATTEMPTS", "LLM_TIMEOUT_SECONDS", "OTHER_NUMBERS"}

VARIABLES env,   \* the variables, the same for all processes
          proc   \* each process: where it is and what it has built

vars == <<env, proc>>

-----------------------------------------------------------------------------
(* Settings.from_env.  It stops at the first value that is not acceptable, *)
(* and after all of them if a required one is empty.                       *)

ChoiceEnv(v, default) == IF env[v] \in Absent THEN default ELSE env[v]
DbMode == ChoiceEnv("DB_AUTH_MODE", "password")
LlmMode == ChoiceEnv("AZURE_OPENAI_AUTH_MODE", "api-key")

\* Read without _choice_env: the empty string is a provider of its own.
Provider == IF env["LLM_PROVIDER"] = "unset" THEN "stub" ELSE env["LLM_PROVIDER"]
Azure == Provider = "azure-openai"

\* _bool_env: true or false, in any case and with blanks around it.
FlagIsReadable == env["CHAT_DISABLED"] \in Absent \cup {"true", "false"}

Invalid ==
  \/ DbMode \notin {"password", Identity}
  \/ LlmMode \notin {"api-key", Identity}
  \/ \E v \in Numbers : env[v] = "no number"
  \/ env["CHAT_API_KEY"] = "short"
  \/ ~FlagIsReadable

UsesDbIdentity == DbMode = Identity
UsesLlmIdentity == Azure /\ LlmMode = Identity

\* Mutant: the client id is asked for only where the database needs it.
RequiredForDatabase ==
  {"DATABASE_URL"}
    \cup (IF Azure THEN {"AZURE_OPENAI_ENDPOINT"} ELSE {})
    \cup (IF Azure /\ LlmMode = "api-key" THEN {"AZURE_OPENAI_API_KEY"} ELSE {})
    \cup (IF UsesDbIdentity THEN {"AZURE_CLIENT_ID"} ELSE {})

Required ==
  {"DATABASE_URL"}
    \cup (IF Azure THEN {"AZURE_OPENAI_ENDPOINT"} ELSE {})
    \cup (IF Azure /\ LlmMode = "api-key" THEN {"AZURE_OPENAI_API_KEY"} ELSE {})
    \cup (IF UsesDbIdentity \/ UsesLlmIdentity THEN {"AZURE_CLIENT_ID"} ELSE {})

Missing == {v \in Required : env[v] \in Absent}

-----------------------------------------------------------------------------
(* Steps of a process. *)

Started == [pc |-> "config", failure |-> "none", identity |-> FALSE,
            llm |-> "none", doors |-> {}, changed |-> FALSE]

Init == /\ env \in Envs
        /\ \E g \in Groups : proc = [k \in g |-> Started]

Becomes(k, fields) == /\ proc' = [proc EXCEPT ![k] = fields]
                      /\ UNCHANGED env

Goto(k, place) == Becomes(k, [proc[k] EXCEPT !.pc = place])
Fail(k, why) == Becomes(k, [proc[k] EXCEPT !.pc = "failed", !.failure = why])

\* Entering the database, by the password of DATABASE_URL or by a token; the
\* token may not be had and the connection may be refused.
Enter(k, door, place) ==
  \/ Becomes(k, [proc[k] EXCEPT !.pc = place, !.doors = @ \cup {door}])
  \/ Fail(k, "connection")

\* What the provider of tokens refuses.
NoClientId == env["AZURE_CLIENT_ID"] \in Absent

\* managed_identity(): no provider of tokens unless a mode asks for one.
ManagedIdentity(k) ==
  IF ~(UsesDbIdentity \/ UsesLlmIdentity) THEN Goto(k, "assembled")
  ELSE IF NoClientId THEN Fail(k, "no client id")
  ELSE Becomes(k, [proc[k] EXCEPT !.pc = "assembled", !.identity = TRUE])

\* Mutant: nobody installs the provider for the asynchronous connections.
DoorNotInstalled(k) ==
  IF proc[k].identity /\ UsesDbIdentity /\ proc[k].pc = "assembled"
  THEN "token" ELSE "dsn"

\* install_db_password_provider and sync_db_connect_kwargs.
Door(k) == IF proc[k].identity /\ UsesDbIdentity THEN "token" ELSE "dsn"

\* Mutant: the job connects first and reads the settings afterwards.
ReadSettingsLate(k) ==
  /\ k \in ReadersOfSettings /\ proc[k].pc = "config"
  /\ IF k \in Seeders /\ env["DATABASE_URL"] \notin Absent /\ proc[k].doors = {}
     THEN Enter(k, "dsn", "config")
     ELSE IF Invalid THEN Fail(k, "invalid")
     ELSE IF Missing # {} THEN Fail(k, "missing")
     ELSE ManagedIdentity(k)

\* The import of main.py and the head of the seed job's main(), which looks
\* at DATABASE_URL before anything else.
ReadSettings(k) ==
  /\ k \in ReadersOfSettings /\ proc[k].pc = "config"
  /\ IF k \in Seeders /\ env["DATABASE_URL"] \in Absent THEN Fail(k, "missing")
     ELSE IF Invalid THEN Fail(k, "invalid")
     ELSE IF Missing # {} THEN Fail(k, "missing")
     ELSE ManagedIdentity(k)

\* RetryConfig.__post_init__; a timeout of nan is neither below nor at 0.
RetryRejected == \/ env["LLM_MAX_ATTEMPTS"] = "zero"
                 \/ env["LLM_TIMEOUT_SECONDS"] = "zero"

\* azure_openai_config(): a bearer provider, and then no key, or the key.
Bearer(k) == proc[k].identity /\ UsesLlmIdentity
ApiKey(k) == IF Bearer(k) THEN "" ELSE env["AZURE_OPENAI_API_KEY"]

\* The client is assembled when the server starts (lifespan), and by the seed
\* job only after its commit.
ClientIsDue(k) == \/ k = "serve" /\ proc[k].pc = "assembled"
                  \/ k = "embed" /\ proc[k].pc = "seeded"

\* RetryConfig, the transport's configuration with exactly one credential, the
\* provider's name.
AssembleClient(k) ==
  /\ ClientIsDue(k)
  /\ IF RetryRejected THEN Fail(k, "retry")
     ELSE IF Azure /\ (ApiKey(k) \notin Absent) = Bearer(k)
     THEN Fail(k, "credentials")
     ELSE IF Provider \notin {"stub", "azure-openai"} THEN Fail(k, "provider")
     ELSE Becomes(k, [proc[k] EXCEPT
            !.pc = IF k = "serve" THEN "serving" ELSE "embedding",
            !.llm = IF ~Azure THEN "stub" ELSE IF Bearer(k) THEN "bearer" ELSE "key"])

\* A request reads the database; a failed one leaves the server as it is.
ServeRequest(k) ==
  /\ k = "serve" /\ proc[k].pc = "serving"
  /\ Becomes(k, [proc[k] EXCEPT !.doors = @ \cup {Door(k)}])

\* The job's own connection, a synchronous one.
SeedJobConnects(k) == /\ k \in Seeders /\ proc[k].pc = "assembled"
                      /\ Enter(k, Door(k), "entered")

\* run_ingest and its commit, or an error that rolls it back.
SeedJobCommits(k) ==
  /\ k \in Seeders /\ proc[k].pc = "entered"
  /\ \/ Fail(k, "statement")
     \/ Becomes(k, [proc[k] EXCEPT
          !.pc = IF k = "embed" THEN "seeded" ELSE "done", !.changed = TRUE])

\* backfill_embeddings, over connections of its own.
Backfill(k) == /\ k = "embed" /\ proc[k].pc = "embedding"
               /\ Enter(k, Door(k), "done")

\* migrations/env.py has a reader of its own: here empty is not the default.
MigrateMode == IF env["DB_AUTH_MODE"] = "unset" THEN "password"
               ELSE env["DB_AUTH_MODE"]

MigrationConnects(k) ==
  /\ k = "migrate" /\ proc[k].pc = "config"
  /\ IF env["DATABASE_URL"] \in Absent THEN Fail(k, "missing")
     ELSE IF MigrateMode = "password" THEN Enter(k, "dsn", "entered")
     ELSE IF MigrateMode # Identity THEN Fail(k, "invalid")
     ELSE IF NoClientId THEN Fail(k, "missing")
     ELSE Enter(k, "token", "entered")

\* Mutant: the migration is taken for changed before it has connected.
MigrationCommitsUnentered(k) ==
  /\ k = "migrate" /\ proc[k].pc \in {"config", "entered"}
  /\ \/ Fail(k, "statement")
     \/ Becomes(k, [proc[k] EXCEPT !.pc = "done", !.changed = TRUE])

\* All revisions in one transaction.
MigrationCommits(k) ==
  /\ k = "migrate" /\ proc[k].pc = "entered"
  /\ \/ Fail(k, "statement")
     \/ Becomes(k, [proc[k] EXCEPT !.pc = "done", !.changed = TRUE])

\* The observation job's command line, which Terraform chooses by the mode.
\* In the identity mode the shell takes the password from the output of
\* `python -m app.entra_auth db` and starts psql even if that failed; the
\* database lets nobody in without a password.
Observe(k) ==
  /\ k = "observe" /\ proc[k].pc = "config"
  /\ IF env["DATABASE_URL"] \in Absent THEN Fail(k, "connection")
     ELSE IF env["DB_AUTH_MODE"] # Identity THEN Enter(k, "dsn", "done")
     ELSE IF NoClientId THEN Fail(k, "connection")
     ELSE Enter(k, "token", "done")

Next == \E k \in DOMAIN proc :
          \/ ReadSettings(k) \/ AssembleClient(k) \/ ServeRequest(k)
          \/ SeedJobConnects(k) \/ SeedJobCommits(k) \/ Backfill(k)
          \/ MigrationConnects(k) \/ MigrationCommits(k)
          \/ Observe(k)

Spec == Init /\ [][Next]_vars

-----------------------------------------------------------------------------
(* Properties *)

\* Every process is where its program can be, and has what it has got there.
TypeOK ==
  \A k \in DOMAIN proc :
    /\ proc[k].pc \in {"config", "assembled", "serving", "entered", "seeded",
                       "embedding", "done", "failed"}
    /\ (proc[k].pc = "failed") = (proc[k].failure # "none")
    /\ proc[k].llm # "none" => k \in {"serve", "embed"}
    /\ proc[k].changed => k # "serve" /\ k # "observe" /\ proc[k].doors # {}

\* Settings asks for exactly what is used.  Not for too little: what the code
\* behind it relies on (credentials.py and lifespan say so) is there, so the
\* provider of tokens never meets an empty client id, and the transport never
\* both or neither of its two credentials.  And not for too much: with the
\* stub and a password nothing fails for a variable of Azure (_require_if).
SettingsGuarantee ==
  \A k \in DOMAIN proc :
    /\ proc[k].failure \notin {"no client id", "credentials"}
    /\ proc[k].failure = "missing" /\ ~Azure /\ ~UsesDbIdentity =>
         env["DATABASE_URL"] \in Absent

\* Server, seed job, backfill, migration and observation enter the database
\* the same way, over every connection each of them makes, although they read
\* the mode by different code: none of them uses the password where another
\* uses a token.
SameDoor ==
  \A j, k \in DOMAIN proc : \A a \in proc[j].doors, b \in proc[k].doors : a = b

\* A process whose variables are refused has not touched the database.  Only
\* what is checked when the client is put together may come late: by then
\* the seed job with --embed has committed.
EarlyRejection ==
  \A k \in DOMAIN proc :
    /\ proc[k].failure \in {"invalid", "missing", "no client id"} =>
         proc[k].doors = {} /\ ~proc[k].changed
    /\ proc[k].failure \in {"retry", "credentials", "provider"} /\ proc[k].changed =>
         k = "embed"

=============================================================================
