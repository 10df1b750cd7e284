# Verification of the Felis AI chatbot

This directory holds the TLA+ models of the chatbot's chat path, of the jobs
that fill and observe its database, and of what its processes make of their
environment; the TLC configurations that check them; and TLAPS proofs of their
safety properties for every value of the constants.

    tlc -workers 2 -config MCChatStream_safety.cfg MCChatStream
    tlapm ChatStreamProofs.tla

and likewise `WireContractProofs`, `ChatRequestProofs`, `ChatClientProofs`,
`ChatSessionProofs`, `IngestProofs`, `ObservationProofs` and `StartupProofs`. All
are checked in a few minutes each.

`PROJECT.json` lists the runs, the mutants, the source lines behind every
definition, the hazards and the theorems.

## 1. The system

A user's question travels from the browser through a Next.js route handler (the
BFF) to a FastAPI backend, which embeds it, searches documents in PostgreSQL,
and streams the answer of an Azure OpenAI deployment back as server-sent events.
Beside that path stand a seed ingest with an embedding backfill, and an
observation job that writes and samples the database every minute.

| Component | State it keeps | Operations | Why it is hard | Model |
|---|---|---|---|---|
| Raw stream conversion (`llm/streaming.py`) | byte buffer, `stop_seen` | `feed`, `_convert` | order of the checks; errors after the stop; end without `[DONE]` | `RawStream` |
| Chat stream (`llm/client.py`) | attempt, last error, open response | connect, first delta under a timer, retry, relay, close | timer against arrival, retry against partial output, three nested generators to close | `ChatStream` |
| Wire contract (ADR-0028, `sse.py`, the event generators of `main.py`) | events sent | message, notice, done, error | a terminal event exactly once, last | `WireContract` |
| Embedding call (`LLMClient.embed`) | attempt, last error | call, retry, time out | the same timer and budget, before any response exists | `ChatRequest` |
| `/chat` handler (`main.py`) | stage of the request | gate, validation, embed, search, guard, records, body | order of spending and refusing; status or stream | `ChatRequest` |
| Browser turn (`chat.tsx`, `consumer.ts`, `parser.ts`) | partial text, parser state, screen, banner | submit, read, finalize, stop | anything may arrive; deferred parser errors; the stop button | `ChatClient` |
| BFF (`route.ts`, `principal.ts`) | one request | check, forward, pass on, abort | an abort must cross two hops at any stage | `ChatSession` |
| Document search, numeric records (`rag.py`) | two connections | two reads | two snapshots, no statement timeout | outcomes only, in `ChatRequest` |
| Seed ingest (`ingest/runner.py`) | four tables | upserts and deletions in one transaction | two ingests at once, of one seed or of two; foreign keys, locks, changed values | `Ingest`, `Corpus` |
| Embedding backfill (`ingest/embeddings.py`) | `documents.embedding` | read, embed, update, one commit | an ingest between reading a text and writing its vector; one failing row | `Ingest`, `Corpus` |
| Observation (`observability/collect.sql`, `/readyz`) | `obs.*` | two transactions a minute, freshness | overlap, kill between the two, anchors, a table renamed under the job | `Observation` |
| External probe (`readyz-probe.yml`) | last verdict | probe, judge the three ages | one series dies while the others live | verdict in `Observation` |
| Settings and credentials (`config.py`, `credentials.py`, `entra_auth.py`, `migrations/env.py`) | variables, token providers, client | read, refuse, assemble, connect | three readers of the same variables; checks that others rely on; what is refused too late | `Startup` |
| Migrations | the schema | one transaction per release | entered by code of its own; renames a table in use | `Startup`, `Observation`; constraints in `Ingest` |
| Stub transport, middleware, logging, Terraform, other workflows, scripts | - | - | no protocol state | not modelled |

How they interact. Within the backend everything is calls: `_chat_stream_events`
pulls `LLMClient.chat_stream`, which pulls `raw_stream_to_deltas`, which pulls
`AzureOpenAITransport.chat_stream`. One event loop runs them, so a step is what
happens between two awaits. The provider, the timers of `asyncio.wait_for` and
`asyncio.sleep`, and the client's disconnect act between steps. Backend, BFF and
browser exchange one HTTP request and its body. The chat path shares no mutable
memory between requests, so one request is modelled, not several. Ingest,
backfill and search share the database only. The observation job writes and reads
tables of its own, whose ages `/readyz` hands to the probe. Every process reads
its variables once, when it starts.

What makes each part correct, in short: the reply obeys the grammar of ADR-0028
decision 2; `done` is earned (decision 5); a condemned reply is retracted
(decision 6); nothing is sent twice by a retry (decision 10); the provider's
stream is closed whatever happens (decision 2); no model call without grounds
(ADR-0010) or without authority (ADR-0027 decision 10); a turn in the browser
ends, and never looks complete when it is not. After an ingest the tables are the
seed, whoever reads them never sees half of it, and a vector belongs to the text
of its row. A series of observations is sampled at its interval, comes back after
failures, and is reported when it does not. A misconfigured process stops before
it touches anything, and all processes enter the database the same way.

## 2. The modules

    WireContract                      abstract: what the body promises
       ^ implemented by
    RawStream --> ChatStream          the body of an answered question
                    ^ INSTANCE
                  ChatRequest         the whole handler
                    ^ INSTANCE
    ChatClient --> ChatSession        browser + BFF + backend

    Corpus                            abstract: what readers of the tables see
       ^ implemented by
    Ingest                            the jobs, statement by statement

    Observation                       cron, collect.sql, /readyz, the probe
    Startup                           the processes and their variables

Every module of this picture but `RawStream` and `Corpus` has its theorems in a
module of the same name with `Proofs` at its end.

**WireContract** has two variables, the events sent and whether the reply is
open. Its specification says which event may follow which, and that a reply
does not stay open; a client that leaves (`Drop`) releases the reply from its
promise. `Grammar` states decision 2 of ADR-0028 over the finished sequence.

**RawStream** has no state. It reduces a payload of the provider's stream to the
fields `_convert` looks at, and gives `Convert`, the conversion table with its
order of checks. `CarriesText` and `Condemns` are what the properties say about
a payload.

**ChatStream** is the body of one reply. `pc` is where the chain of generators is
suspended: awaiting the token, the response, the first delta, further deltas, or
the backoff. `log` is what the provider has sent for the current attempt and
`pos` how much of it the chain consumed, so arrivals that are never read exist.
`open` is the set of attempts whose provider response has not been closed. One
action per step of the code:

| Action | Code |
|---|---|
| `TokenReady`, `TokenFails` | the await of `_auth_headers` |
| `ResponseAccepted`, `ResponseRefused` | `send`, and the status checks |
| `FirstDeltaTimeout` | `except TimeoutError` of `chat_stream`, with `_aclose_quietly` |
| `NextAttempt` | the end of `asyncio.sleep` |
| `ReadSkipped`, `ReadStop`, `ReadText`, `ReadDone`, `ReadError` | one payload through `_convert` and up the chain |
| `ReadUndecodable` | `UnicodeDecodeError` out of `feed`, which loses the payloads before it in the fragment |
| `ProviderSends`, `Disconnect` | the environment |
| `ChainClosed` | cancellation or closing of the generators after a disconnect |

The closing of the response is part of the action that ends the attempt, because
the `finally` blocks run before the exception is handled. Texts are named by
where they came from, `<<attempt, i>>`, so a property can say which payload a
message stands for.

**ChatRequest** adds the handler before the body: gate, validation, the
embedding with its own attempts, search, guard, records, and then either the
guard's two events or a `ChatStream` body. The handler is not cancelled before
its response starts, so a client that left earlier is noticed only then.

**ChatClient** is one turn in the browser against a server that may deliver
anything: legal events, empty texts, illegal events, lines that cannot be
parsed, an end or a break at any point. `screen` and `banner` are what the user
sees. The events of one network chunk are handled one by one, with the user
allowed to act in between, which covers every way of cutting the body. A
verdict reached before the body has ended is not on the screen at once: the
consumer first awaits `reader.cancel` (phase `"closing"`), and the user may
press stop there; `display` is the text the verdict will leave, and stopping
must not change it.

**ChatSession** composes `ChatRequest` and `ChatClient` with the BFF and two
connections. `arrived` says how many of the backend's events reached the
browser. The abort of an abandoned request reaches the backend in a later step
of its own.

**Corpus** has no rows and no transactions: a set of documents, those a search
can find, and the names in the other tables. It becomes a seed in one step, in
which a document that stays keeps its embedding, and a document becomes
searchable in another.

**Ingest** is the jobs themselves. `store` is what is committed, by row id; `tx`
is what each job has written and not committed; `View` is what a new statement
of a job sees. `Statements` is the order of `run_ingest`: sources, objects,
properties, documents, then the deletions. The actions are the outcomes of one
statement:

| Action | Code |
|---|---|
| `InsertRow`, `KeepRow`, `SelectId` | `_upsert_*`: the insert, its conflict or the existence check, and the separate `SELECT` of an id |
| `ParentIsGone`, `IdIsGone` | a foreign key violated, `fetchone()` giving `None` |
| `BeginDelete`, `DeleteRow`, `EndDelete` | one `_delete_*` statement: its rows, each of them, its end |
| `Cascade`, `RestrictFails` | the `ondelete` rules of the migration |
| `CommitIngest`, `CommitBackfill` | the end of the `with` block of a connection |
| `FetchRows`, `EmbedRow`, `EmbedFails`, `UpdateRow` | `backfill_embeddings` |
| `Crash`, `DeadlockAborts` | a kill or a lost connection; SQLSTATE 40P01 |

PostgreSQL is not in the repository. What is assumed of it: read committed (the
code sets no isolation level), a writer waits for another writer of the same row
or unique key, a new reference keeps its parent from being deleted, a wait in a
cycle is ended by aborting one of its members, and a deletion takes its rows in
an order that is the same for all jobs. `Blockers` is all of the locking.

`Deployments` says which jobs run together and which tables they may find: the
same model holds one image (jobs of one seed) and a deployment (an embed job of
the old image beside a seed job of the new one).

**Observation** keeps time as ages: `age` is that of the newest committed row of
each series, and stops growing where no comparison can tell it from an older one.
An execution (`run`) carries its own age and that of its transaction, because
`now()` in `collect.sql` is the time of BEGIN while each statement sees what is
committed when it begins; what it has written and not committed is `wrote`.

| Action | Code |
|---|---|
| `Cron`, `CronMisses`, `Tick` | the schedule `* * * * *`, an execution that is not created or does not start, time up to the run limit |
| `Fail` | ON_ERROR_STOP, a lost connection, the kill at the run limit: the open transaction is gone |
| `BeginT1`, `CommitT1` | heartbeat and counter |
| `BeginT2`, `TableStats`, `DbStats`, `BloatStats`, `CommitT2` | the three samples, each with its condition (`Due`) |
| `Migrate`, `Deploy` | the renaming of `obs.marker`, and the ops and backend images that name it, in any order |
| `CheckDatabase`, `DatabaseIsDown`, `Freshness`, `FreshnessFails` | `/readyz` and what the probe makes of the answer |

`missed` counts executions without a commit of T1 or T2; only properties read it.

**Startup** gives the same environment to processes of five kinds: the server,
the seed job without and with `--embed`, the migration, the observation job. Its
operators are the readers (`Settings.from_env`, `migrations/env.py`, the command
line of the observation job) and the rules of `credentials.py`; its actions are
the steps at which a process can fail or enter the database. `doors` collects how
it entered: with the DSN as it is, or with a token.

The definitions marked as mutants are wrong on purpose. Each stands in for the
definition below it to show that a property notices the difference; no
specification uses them.

## 3. What the runs check

| Run | Bounds | Distinct states | Properties |
|---|---|---|---|
| `stream_safety` | 2 attempts, 4 arrivals + end, 13 kinds of arrival | 0.75 M | see below |
| `stream_entra` | managed identity | violation | `ReplyTerminates` fails: finding 1 |
| `request` | 3 attempts each, 3 arrivals, managed identity | 65 k | `LlmNeedsGrounds`, `StatusIsEarned`, `RespectsContract`, `WaitsAreBounded`, `EveryBodyEnds` |
| `client` | 4 items of 8 kinds | 165 k | `CompleteIsEarned`, `FailureIsVisible`, `ScreenIsFaithful`, `VerdictIsFinal`, `TurnEnds` |
| `session` | 2 attempts, 3 arrivals | 0.37 M | `CompleteAnswer`, `CondemnedIsRetracted`, `BrowserSeesServer` |
| `session_live` | as above, no condemned payload | 0.21 M | `OverReleasesProvider`, `TurnEnds` |
| `ingest` | 2 jobs of one seed, one with `--embed`, over 5 kinds of tables; 2 jobs of two seeds over 2 kinds | 59 k | `NoLockCycle`, `ImplementsCorpus`, `EmbeddingIsOfText`, `ZeroMeansFilled`, `JobsEnd` |
| `ingest_twice` | 2 jobs of one seed, its texts revised | violation | `NoTwins` fails: finding 2 |
| `ingest_revised` | 1 job, its seed with a corrected value | violation | `SeedValuesWin` fails: finding 3 |
| `observe` | period 2, limit 1, two executions; intervals 0, 3, 5 and thresholds 5, 6, 8 | 98 k | `StaleMeansMissed`, `SeriesInStep`, `SamplesAreApart`, `DeadSeriesIsReported`, `SelfHeals` |
| `observe_overlap` | as above, limit 3 | violation | `SamplesAreApart` fails: finding 4 |
| `startup` | 3 base environments, at most 2 variables changed; 2 processes at a time | 214 k | `SettingsGuarantee`, `SameDoor`, `EarlyRejection` |

`stream_safety`, `session`, `ingest`, `observe` and `startup` also check the type
invariant of their module; that of `ChatSession` includes those of `ChatRequest`
and `ChatClient`.

The properties of `stream_safety`:

- `RelayIsExact`: the messages are the texts consumed in the current attempt,
  each once, in order, and none of an abandoned attempt.
- `DoneIsEarned`: `done` only after a stop and then `[DONE]`, with no condemned
  payload on the way.
- `FilterFailsClosed`: a condemned payload ends the reply as
  `error(content_filter)`, whatever attempt it was in.
- `UpstreamReleased`: at most the current attempt has an open response, none
  during a backoff or after the end.
- `RetryBudgetIsUsed`, `RetryBoundary`: a failure without output used every
  attempt, and an attempt starts only when nothing was sent.
- `RespectsContract`: every step is a step of `WireContract`.

`request` looks at the handler around the body: no model call without documents
above the threshold (`LlmNeedsGrounds`); an HTTP error is the whole answer, costs
nothing if the gate or the validation gives it, and for a retryable failure comes
only after every attempt (`StatusIsEarned`). The guard's reply is a body as well,
so the contract is checked for it here. Its liveness comes in two strengths. With
nothing assumed of token endpoint and provider, the timer ends every wait for the
embedding and for the first delta (`WaitsAreBounded`). With a provider that goes
on, every body ends (`EveryBodyEnds`), by a terminal event, by the failure of
finding 1, or by the client's departure. What a departure frees is followed to the
provider in `session_live`.

`ChatSession` shows two things that no single component can. `CompleteAnswer`
ties the screen to the provider: a turn that looks complete shows exactly the
texts of one finished, uncondemned stream, or the guard's notice. And
`OverReleasesProvider` follows an abort from the stop button to the provider,
wherever the backend is when it arrives. `BrowserSeesServer` shows that backend
and network together are a server `ChatClient` allows, so the properties of the
`client` run carry over.

What `Ingest` shows depends on the seeds. Jobs of one seed, however they
overlap, implement `Corpus`: readers see the old content or the new one, and a
text that stays keeps its embedding, in a second run as in the first. They cannot deadlock,
because all take their keys and rows in one order. Jobs of two seeds, as during
a deployment, can deadlock, and rows vanish under the backfill; what is left
then is that no row carries the vector of another text, that status 0 of
`--embed` means what it says, and that every job ends.

`observe` asks what the freshness gate is worth. A red verdict for age means that
as many executions in a row were missed as the threshold allows
(`StaleMeansMissed`); a series that stops for good turns every probe red from
some moment on, whichever of the others still live (`DeadSeriesIsReported`); once
executions stop failing every series comes back, from whatever the failed ones
left (`SelfHeals`). `SeriesInStep` and `SamplesAreApart` are about the samples:
the two that share an anchor never part, and none is taken within the interval of
another, although the condition is evaluated some statements before the commit.

`startup` compares the readers of the environment. What `Settings` has accepted
never fails later in `credentials.py` or in the transport, and the stub asks for no
variable of Azure (`SettingsGuarantee`);
no two processes enter the database differently (`SameDoor`); whatever reading
the settings refuses is refused before the database is touched, and only what the
assembly of the client checks can come late, after the commit of the seed job
with `--embed` (`EarlyRejection`).

**Why the bounds are enough.** Two attempts are one that fails and one that
succeeds or is the last; three add one that is neither, which `request` has.
Four arrivals hold a text, a stop, a late condemned payload and `[DONE]`, the
longest pattern that the properties tell apart; at the bound the provider can
only end the body. Payloads are chosen so that every outcome of `Convert` occurs
and that the order of its checks matters (`Choice(TRUE, "stop", ..)`). In
`ChatClient` four items hold two texts, an unreadable line and a terminal event.
The proofs remove the bounds from the safety properties of every component
(section 5); what they leave to these bounds is liveness. `session_live` leaves out the
condemned payload, which to liveness is one more way of ending; `session` has
it. Two jobs are all there are: the seed job and the embed job of the
deployment, each of which runs the ingest. A seed has two pages and three texts,
so that one page has a text that stays and one that goes, and another page
contests the order of locks; the tables before it are empty, of another theme,
of the same pages without texts, of the same pages with other texts, or the seed
with a vector missing. In `observe` a minute is two ticks, so that an execution
can be late; the intervals (1, 5 and 60 minutes in the code) are shortened to just
above one, two and to differ from each other, and each threshold leaves room for
at least one missed execution. `ThresholdsAreApart` is the condition under which
a healthy series cannot alarm; the probe's thresholds (10 minutes, 15 minutes, 3
hours) meet it. In `startup`
the base environments are the three ways the program is run (stub and password,
API key, managed identity); every value that the readers tell apart is there, and
the properties relate at most two processes.

**Deadlock** checking is off everywhere: a request ends, and so does a job or the
start of a process. In `observe` time stands still only if no execution can get
on, which `SelfHeals` would show.

**Fairness.** `EventLoop` of `ChatStream` is weak fairness of the steps that the
asyncio loop runs when they are ready: reading what has arrived, the timer of
`wait_for`, the end of `sleep`, and the cancellation of a response whose client
left. uvicorn announces an ASGI version below the one in which Starlette would
rely on `send` to raise, so Starlette watches for the disconnect and cancels the
body; the generators are closed then or by the loop's finalizer. No fairness is
given to the token endpoint, to the provider's answer, to a client leaving or to
a user's click. That the provider goes on sending until it ends the body is a
premise of the properties that need it (`ProviderGoesOn`, and within
`EveryBodyEnds`) and of `LiveSpec` in `stream_entra`, because the code sets no
timer after the first delta (`client.py:404-410` says so): without it a reply
may stay open by design. The database answers or fails in
`ChatRequest`: the connections have a connect timeout, the queries have none.
In `ChatSession` a connection that is up delivers and an abort arrives. A job of
`Ingest` that has started goes on: the database executes its statements, the
deadlock detector acts, and an embedding is answered or fails because its
retries are bounded. Nothing makes a job start, or a failure happen. In
`Observation` time passes, a mark of the schedule is answered by an execution or
by none, an execution gets on or fails, and the probe and `/readyz` run again and
again. Nothing makes an execution succeed, the freshness query answer, or a
release be completed.

## 4. Findings

1. `stream_entra`. With the managed identity, `_auth_headers` is awaited outside
   the `try` of the transport (`client.py:303`). A token failure is no
   `LLMError`, passes `except LLMError` in `_chat_stream_events`, and the body
   ends without `done` or `error`. ADR-0028 line 41 says that every stream has a
   terminal event, once and last. A line that is not UTF-8 (`streaming.py:77`)
   leaves by the same way. The browser copes: `session` and `session_live` include
   the failure, and the turn still ends, shown as failed. The same failure during
   the embedding (`client.py:345`) is answered by the server's 500.
2. `ingest_twice`. Documents have no unique constraint; `_upsert_documents`
   checks for the text first (`runner.py:183`). Two ingests at once both find a
   revised text missing and both insert it, and no later run removes the second
   row, which is in the seed. `runner.py:56` says that running again adds no
   rows. `ImplementsCorpus` holds in spite of it: readers see a set of texts.
3. `ingest_revised`. A property whose value, unit or note was corrected in the
   seed keeps the old one: `ON CONFLICT DO NOTHING` (`runner.py:156`) keeps the
   row and the deletion compares only its key. `runner.py:23-25` and `:56` say
   that revisions reach existing databases and that seed and database agree.
4. `observe_overlap`. `collect.sql:12-13` and `terraform/ephemeral/main.tf:586-587`
   say that the elapsed-time condition keeps a second run at the same time from
   sampling again. It does if the first has committed; two transactions that
   overlap both find the old sample and both write. What keeps them apart is the
   run limit of 55 s below the period of 60 s, not the condition: `observe`, with
   such a limit, has the property, and `SamplesStayApart` proves it.

## 5. What is proved

`ChatStreamProofs` proves, for every number of attempts, every bound on the
arrivals, every set of arrivals and both kinds of credentials:

    TypeCorrect        Spec => []TypeOK
    RelayExact         Spec => []RelayIsExact
    DoneEarned         Spec => []DoneIsEarned
    FilterClosed       Spec => []FilterFailsClosed
    UpstreamClosed     Spec => []UpstreamReleased
    BudgetUsed         Spec => []RetryBudgetIsUsed
    RetriesBounded     Spec => RetryBoundary
    ContractRespected  Spec => RespectsContract
    WireIsGrammatical  Spec => []Contract!Grammar

The assumptions are those of `ChatStream`: at least one attempt (`RetryConfig`
rejects less), a bound above zero, arrivals of the kinds `RawStream` lists.

None of these properties is inductive. `IInv` adds what connects them:

- `Typing`: `TypeOK`, and that a backoff leaves an attempt to make;
- `Quiet`: nothing has been sent while the chain is before its first delta, so
  that a retry cannot follow an output;
- `Relaying`: something has been sent once it relays, so that `done` is never
  the whole reply;
- `MessagesFirst`: all events but the last of an ended reply are messages;
- `StopRemembered`: `stop_seen` stands for a stop among the consumed payloads;
- `NotCondemned`: as long as the reply has not ended, no consumed payload is
  condemned;
- `BackoffIsRetryable`: a backoff follows a retryable error.

`ConvertReadsTable` states once what `Convert` returns. The step lemmas follow
the ways an action can touch the wire: not at all (`SilentStep`), with a message
(`ReadTextSafe`), or with the terminal event (`EndStep`, `AttemptFailsSafe`,
`RelayEndsSafe`). `IInvStep` has one step per action. The refinement is proved
as initial states to initial states and each action to `SendMessage`,
`SendDone`, `SendError`, `Drop` or a stutter. `WireContractProofs` proves that the
contract keeps its grammar (`GrammarKept: SafeSpec => []Grammar`), from the
invariant that an open reply holds no terminal event; `WireIsGrammatical` carries
that over to the chain by the same refinement.

`ObservationProofs` proves, for any set of executions, any period, intervals and
thresholds that `Observation` allows, and under `LimitIsBelowPeriod`
(RunLimit < Period, as the 55 s of `main.tf:592` and its comment want it):

    TypeCorrect        Spec => []TypeOK
    SeriesStayInStep   Spec => []SeriesInStep
    SamplesStayApart   Spec => SamplesAreApart

The heart of it is `OneAtATime`, which follows from the limit: an execution in
flight is exactly as old as the schedule's last mark, so the next one is not
created before it is over, and what a transaction read of the newest sample still
holds at its commit. `Drafts` records that: for every sample in `wrote` the
condition of `Due` is still true, the two samples of the short interval are
written in their order, and nothing is written outside a transaction. Together
with `Typing` and `SeriesInStep` this is the inductive invariant `IInv`.
`observe_overlap` shows that the assumption is needed.

    StaleSeriesWereMissed   Spec => []StaleMeansMissed

needs a second invariant, because an age is not bounded by anything: `Punctual`
bounds the age of each series by its interval, the time since the last mark of
the schedule and one period for each execution missed, with one period more
while an execution is under way that may still be missed; `Judgements` says that
what is due at a mark and is not skipped gets written. A red verdict then needs
the missed executions that `StaleMeansMissed` counts.

### The request

`ChatRequestProofs` proves, for every number of attempts, every set of arrivals
and both kinds of credentials:

    TypeCorrect           Spec => []TypeOK
    LlmHasGrounds         Spec => []LlmNeedsGrounds
    StatusesAreEarned     Spec => []StatusIsEarned
    ContractRespected     Spec => RespectsContract
    RepliesAreGrammatical Spec => []Contract!Grammar

The only assumption is `BodyAssumption`, those of `ChatStream` for the request's
own parameters. `IInv` says what the stage of the request implies: `Progress`
what has been found and spent, `Answered` which status was sent and after how
many attempts, `Sent` what is on the wire (nothing and an untouched body before
it is answered, a part of the guard's reply in the notice, an invariant of
`ChatStream` in the stream). While the stage is `"stream"`, every step is one of
`ChatStream`, and the invariant and the refinement of `ChatStreamProofs` are used
as they stand (`Body`); the lemmas `SameInit` to `SameStep` say that the two
instances of that module are the same. The contract is shown by what each stage
makes of the reply (`ReplyFollowsStage`, `Replies`).

    NoticesHaveReasons    Spec => []NoticeHasReason

says that the guard's reply is given only where the search found no document, or
none above the threshold. The session needs it.

### The browser

`ChatClientProofs` proves, for bodies of any length and any content:

    TypeCorrect            Spec => []TypeOK
    CompleteTurnsAreEarned Spec => []CompleteIsEarned
    FailuresAreVisible     Spec => []FailureIsVisible
    NothingElseIsRetracted Spec => []ScreenIsFaithful
    VerdictsAreFinal       Spec => VerdictIsFinal

`IInv` relates the verdict to what was read: `Before` (while the turn proceeds,
only harmless items have been read and nothing is decided), `Decision` (each
outcome and the last item it can follow), `After` (what a decided turn shows, and
will show once it is rendered), and `PartialIsContent`, which says that the
accumulated text is `ContentOf` the items read. `ContentOf` is recursive, and the
library's theorems about induction and recursion take operators, which these
provers cannot instantiate. They are proved again here for sets and functions:
a set of numbers that is not empty has a least element (`LeastNumber`), from
which come the existence of the recursive function (`RecursionOnNat`), its
equations (`ContentGrows`), and by least counterexample that later arrivals do
not change the text of what was read.

    FailuresHaveCauses     Spec => []Cause

says where a failure comes from: an item that cannot be read or is not of the
contract was the last one handled, or the body has ended and all of it was read.

### The session

`ChatSessionProofs` proves of the whole path, for every number of attempts, every
set of arrivals and both kinds of credentials:

    SessionIsServer         Spec => BrowserSeesServer
    TypeCorrect             Spec => []TypeOK
    CompleteAnswersAreWhole Spec => []CompleteAnswer
    CondemnedTextsGo        Spec => []CondemnedIsRetracted

The assumption is `SessionAssumption`, that of the backend for the same constants.
Nothing about backend or browser is proved a second time. A session is a behaviour
of `ChatRequest` (`NextIsHandlers`), so its invariants hold (`BackendHolds`); it
is a behaviour of `ChatClient` with the arrived part of the body as its inbox
(`SessionIsServer`), so those of the browser hold too (`BrowserHolds`). The `Same`
lemmas say that the instances the session uses are those that were proved about.

What ties the two together is `Channel`: the browser has received the beginning of
the body, and once it sees the end, all of a body that has its terminal event.
That needs the body to grow at its end only (`BodyGrows`, from the contract), and
the bound of the inbox needs the body to be short (`BodyIsShort`): its messages
name consumed arrivals in rising order (`RelayIsExact`), so there are no more of
them than arrivals.

`CondemnedTextsGo` goes through the outcomes: `done` cannot be read because the
body ends in `error`; `failed` would need an item outside the contract, or the
end of a body of which that error was not read, and neither exists (`Cause`,
`Channel`). `CompleteAnswersAreWhole` compares two recursive definitions, the
texts the provider sent (`ProviderTexts`) and the texts of the events the browser
read (`ContentOf`): by the least counterexample over the consumed arrivals, each
of them is what the messages before some place say (`SameTexts`).

### The ingest and the backfill

`IngestProofs` proves, for any number of jobs, any seeds and any tables that
satisfy the constraints of `0001_initial_schema.py`:

    TypeCorrect               Spec => []TypeOK
    EmbeddingsAreOfTheirTexts Spec => []EmbeddingIsOfText
    ZeroMeansNoneLeft         Spec => []ZeroMeansFilled
    CorpusIsImplemented       Spec => ImplementsCorpus
    NoneWaitInACircle         Spec => []NoLockCycle

The assumptions are finitely many jobs, tables numbered from 1, names that are
not those of a source and of an object at once, seeds that contain what they name
(`SeedsAreComplete`; the literals of `jma_seed.py` do), and tables that are sound
before (`TablesAreSound`: the constraints, `RefersAsDeclared` for the foreign keys among
them, and no vector of another text).

`TypeOK` here is not about types only: no unique key twice, no reference into
nothing, no row written by two jobs. That the committed rows keep this follows
from what holds of uncommitted ones:

- `Writes`: what the job sees, its own writes included, has unique keys, and
  between its statements no orphan;
- `Apart`: no two jobs write the same row, insert the same key, or delete what the
  other refers to. This is what the locks (`Blockers`) give;
- `Place`, `Naming`: which statement the job is at, and that the ids it has read are
  those of the names, as long as the rows are there;
- `OfSeed`, `Own`: what it has inserted is of its seed, so that its own deletions
  never take it, nor what it refers to;
- `Backfill`: the texts it has fetched are those of the ids, if these are still
  there, and those it no longer has to do are filled.

There is one lemma per action. The hardest is the commit: what becomes visible
must be sound to every other job too, and there `Apart` is needed as a
statement about pairs. The vectors then follow from two facts, that an id is
never given out twice and that a row never changes its text: the backfill may
write minutes after it has read, and an update that finds no row changes nothing.

`CorpusIsImplemented` is about jobs of one seed, which is what `SameSeed` says;
for others `ImplementsCorpus` promises nothing, and mixtures are possible. That
the commit of a job leaves exactly the seed is clear if the job is alone. With
others it needs a second inductive invariant, `CInv` (`KeptInductive`):

- `Sparing`: no job has deleted, or is about to delete, a row of the seed, or one
  that another job has inserted;
- `Achieved`: what the statements of a job have provided is in what it sees, and
  what they have removed is not, whatever the others have committed since;
- `RefersAsDeclared`: references lead to the table they are declared for, so that
  a row can be read back as the names it stands for;
- `Fresh` and `Plain`: a job that has not begun has no ids, and an ingest inserts
  its texts without vectors.

Keys hold ids, so a row of one job's seed is one of another's only if both have
read the same ids for the same names (`InSeed`). They have: a key is unique, its
row cannot be deleted (`Sparing`), and a second job that wants to insert it waits.
Hence a commit of one job gives the others what they want and takes nothing from
them (`CommitStaysKept`), and at the end of the statements every row is
of the seed (`SweptIsSeed`, from the last sweep over each table) and everything of
the seed is there (`CommitIsSeed`). A backfill changes no text and no fact, and
an update takes no vector away (`BackfillFills`).

`NoneWaitInACircle` is about jobs of one seed as well. A third inductive
invariant, `OInv` (`OrderInductive`), says in which order a job takes its locks:

- `Traced`: a row that a job has inserted is that of a statement it is past;
- `InTurn`: it deletes in the order of its statements, and in each by id; among
  jobs of one seed nothing is left to fall with an object (`NothingCascades`), which
  would take rows out of turn;
- `Rising`: the backfill updates by id;
- `Settled`: after the first commit, the content is that of the seed.

From this a job that waits is behind every waiting job it waits for
(`WaitsBehind`). An insertion waits only for a key that the other inserted with a
later statement: had this job been past that statement, it would have the row
(`MadeForBoth`), and two have not (`NoSecondRow`). What it inserts or refers to
nobody deletes (`KnownIsSpared`). A deletion waits only for a deletion by a later
statement, or by the same one at a higher id; what an earlier statement
removes would be gone here too (`RemovalsAgree`). A backfill and an ingest do not
wait for one another: an ingest deletes nothing of the seed, and once a backfill
runs there is nothing else (`ContentInSeed`). Of two backfills one waits for the
other only at a lower id. A cycle would have a furthest job, which waits for none.

### The settings

`StartupProofs` proves, for every environment and any set of processes:

    TypeCorrect        Spec => []TypeOK
    SettingsGuaranteed Spec => []SettingsGuarantee
    SameDoorForAll     Spec => []SameDoor
    RejectedEarly      Spec => []EarlyRejection

The processes share only the variables, which nobody writes, so `IInv` is a
statement about each: `Route` (which steps its program has), `Knowledge` (whoever
is past its settings has found every required variable, and knows whether an
identity is used), `Verdict` (what it can have failed with, and what it had
touched by then) and `Achieved` (its doors are the one `Gateway` these variables
give). `SameDoor` follows because each of the three readers of `DB_AUTH_MODE`
comes to that same gateway or fails.

### Only model-checked

- Every liveness property (`ReplyTerminates`, `WaitsAreBounded`, `EveryBodyEnds`,
  `TurnEnds`, `OverReleasesProvider`, `JobsEnd`, `DeadSeriesIsReported`,
  `SelfHeals`): fairness and `ENABLED` are out of the prover's reach.

Every safety property that a passing run checks is also a theorem.

## 6. What is left out

- The text of prompts and answers, the serialisation of events, logs, ids.
- The bytes: `SSEStreamParser` and `parser.ts` appear as the events they
  complete, their failures, and the order in which these surface.
- The length of a backoff (`backoff_delay`): a sleep ends.
- An httpx client injected with a timeout of its own is covered (`http_timeout`);
  the default one has none.
- Several requests at a time: they share nothing but the database and the
  provider's limits.
- The counts of `IngestSummary` and the arguments of the CLI. `Ingest` assumes that
  the migrations have run.
- What the samples of the observation job contain, the lengths of its queries, and
  the switches that turn the probe or its gate off.
- Lengths of time in the settings: a `nan` that `float()` accepts, a connect
  timeout of 0, a token awaited outside the connect timeout (listed as hazards).
- The thread of a token that goes on after its attempt was cancelled, and two
  backfills at once, which would pay twice for the same vectors, and the
  content after two overlapping ingests of different seeds, which is a mixture
  until one of them runs again.
- The second and later turns of a chat: each has state of its own, and the send
  button is disabled until the turn is over.

## 7. Plan

In this order; each step is a module, its runs and then its theorems.

1. *Done*: `WireContract`, `RawStream`, `ChatStream` with its proofs,
   `ChatRequest`, `ChatClient`, `ChatSession`.
2. *Done*: `Corpus` and `Ingest`, the backfill included.
3. *Done*: `Observation` with its proofs, `Startup`.
4. **Grounding**: search and numeric records as two snapshots against an ingest,
   composed with the guard of `ChatRequest`.
5. **Parsing**: both incremental parsers over short byte sequences, checked
   against a reference that sees the whole body at once.
6. Proofs. *Done*: `ChatStream`, `WireContract`, `ChatRequest`, `ChatClient`,
   `ChatSession`, `Observation`, `Startup` and `Ingest`: every safety property and
   every refinement.

A further module gets its runs by merging questions that share a specification
(`session_live` into `session`, `ingest_revised` into a larger seed) rather than
by more runs over the same states.
