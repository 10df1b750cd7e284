------------------------------- MODULE Ingest -------------------------------
(***************************************************************************)
(* Jobs that bring the database in line with the seed of their image       *)
(* (python -m app.ingest) and, if started with --embed, fill the missing   *)
(* embeddings afterwards.  A job runs its SQL statements one after the     *)
(* other in one transaction; a second transaction serves the backfill.     *)
(* Nothing keeps two jobs from running at the same time.                   *)
(*                                                                         *)
(* PostgreSQL at read committed is modelled as the code relies on it: a    *)
(* statement sees what is committed when it begins and the transaction's   *)
(* own writes; a row that another transaction has written, and a unique    *)
(* key it has taken, are waited for; a new reference holds its parent.     *)
(***************************************************************************)
EXTENDS Naturals, Sequences, FiniteSets

CONSTANTS Jobs,       \* the executions of the two Container App Jobs
          Embedding,  \* those started with --embed
          Seed,       \* the seed of each job's image (jma_seed.py)
          Deployments \* which jobs may run together, and on which tables

ASSUME JobsAreFinite == IsFiniteSet(Jobs) /\ Embedding \subseteq Jobs

\* Ids are given out from 1 on.
ASSUME DeploymentsAreNumbered ==
  \A d \in Deployments :
    /\ d.jobs \subseteq Jobs
    /\ \A rows \in d.before : /\ IsFiniteSet(DOMAIN rows)
                              /\ DOMAIN rows = 1..Cardinality(DOMAIN rows)

\* A name is that of a source or of an object, not of both.
ASSUME NamesAreDistinct ==
  \A p \in Jobs :
    \A s \in DOMAIN Seed[p].sources, o \in DOMAIN Seed[p].objects :
      Seed[p].sources[s].name # Seed[p].objects[o].name

\* A seed is four lists, and it has the sources and objects that it names;
\* a text is there (documents.content is NOT NULL).
ASSUME SeedsAreComplete ==
  \A p \in Jobs :
    LET Names(list) == {list[k].name : k \in DOMAIN list}
        Lists == {Seed[p].sources, Seed[p].objects,
                  Seed[p].properties, Seed[p].documents}
    IN /\ \A list \in Lists : list \in Seq({list[k] : k \in DOMAIN list})
       /\ \A k \in DOMAIN Seed[p].properties :
            /\ Seed[p].properties[k].object \in Names(Seed[p].objects)
            /\ Seed[p].properties[k].source \in Names(Seed[p].sources)
       /\ \A k \in DOMAIN Seed[p].documents :
            /\ Seed[p].documents[k].source \in Names(Seed[p].sources)
            /\ Seed[p].documents[k].content # "NULL"

VARIABLES store,   \* the committed rows, by id
          nextId,  \* the identity sequences
          tx,      \* uncommitted writes of each job
          job      \* where each job is, and what it remembers

vars == <<store, nextId, tx, job>>

Null == "NULL"
Empty == [i \in {} |-> Null]
With(f, i, v) == [j \in DOMAIN f \cup {i} |-> IF j = i THEN v ELSE f[j]]
Others(p) == Jobs \ {p}
Least(ids) == CHOOSE i \in ids : \A j \in ids : i <= j

-----------------------------------------------------------------------------
(* Rows.  The key is the one the table's constraint or the code compares;  *)
(* refs are its foreign keys; rest is what is not compared, for a document *)
(* its embedding, which is named by the text it was made from.             *)

Row(table, key, refs, rest) ==
  [table |-> table, key |-> key, refs |-> refs, rest |-> rest]

Tables == {"sources", "objects", "object_properties", "documents"}
Named == {"sources", "objects"}

\* Ids of the rows of a table that have the key of a row.
Matches(rows, row) == {i \in DOMAIN rows : /\ rows[i].table = row.table
                                           /\ rows[i].key = row.key}

\* Rows of a table in a set of rows.
In(table, rows) == {i \in DOMAIN rows : rows[i].table = table}

\* Rows that refer to a row that is not there.
Orphans(rows) == {i \in DOMAIN rows : ~ rows[i].refs \subseteq DOMAIN rows}

\* No two rows have the same key, where the table has one.
UniqueKeys(rows) == \A i \in DOMAIN rows :
  rows[i].table # "documents" => Matches(rows, rows[i]) = {i}

\* A row of its table, whose references are the columns of its key; an
\* embedding is that of the row's own text.
IsRow(row) == /\ row = Row(row.table, row.key, row.refs, row.rest)
              /\ row.table \in Tables
              /\ row.table \in Named => row.refs = {}
              /\ row.table = "object_properties" => row.refs = {row.key[1], row.key[3]}
              /\ row.table = "documents" => /\ row.refs = {row.key[2]}
                                           /\ row.key[1] # Null
                                           /\ row.rest \in {Null, row.key[1]}

\* What a column refers to is a row of the table it is declared for.
RefersAsDeclared(rows) ==
  /\ \A i \in In("object_properties", rows) :
       /\ rows[rows[i].key[1]].table = "objects"
       /\ rows[rows[i].key[3]].table = "sources"
  /\ \A i \in In("documents", rows) : rows[rows[i].key[2]].table = "sources"

\* The tables that the jobs meet satisfy the constraints of the schema, and
\* what vectors they have are those of their rows.
ASSUME TablesAreSound ==
  \A d \in Deployments : \A rows \in d.before :
    /\ rows = [i \in DOMAIN rows |-> rows[i]]
    /\ \A i \in DOMAIN rows : IsRow(rows[i])
    /\ Orphans(rows) = {}
    /\ RefersAsDeclared(rows)
    /\ UniqueKeys(rows)

\* What a new statement of p sees.
View(p) == [i \in (DOMAIN store \cup DOMAIN tx[p].ins) \ tx[p].del |->
              IF i \in DOMAIN tx[p].ins THEN tx[p].ins[i] ELSE store[i]]

-----------------------------------------------------------------------------
(* The statements of run_ingest, in its order. *)

Sources(p) == {Seed[p].sources[k].name : k \in DOMAIN Seed[p].sources}
Objects(p) == {Seed[p].objects[k].name : k \in DOMAIN Seed[p].objects}
Documents(p) == {Seed[p].documents[k] : k \in DOMAIN Seed[p].documents}
Properties(p) == {Seed[p].properties[k] : k \in DOMAIN Seed[p].properties}

\* The sources that have documents, each where it first occurs.
DocumentSources(p) ==
  LET docs == Seed[p].documents
      firsts == {k \in DOMAIN docs :
                   \A j \in 1..(k - 1) : docs[j].source # docs[k].source}
      Nth(n) == CHOOSE k \in firsts :
                  Cardinality({j \in firsts : j <= k}) = n
  IN [n \in 1..Cardinality(firsts) |-> docs[Nth(n)].source]

Each(op, items) == [k \in DOMAIN items |-> [op |-> op, item |-> items[k]]]
Once(op) == <<[op |-> op, item |-> Null]>>

\* Mutant: the objects and their sources are swept before the documents.
StatementsParentsFirst == [p \in Jobs |->
  Each("sources", Seed[p].sources) \o Each("objects", Seed[p].objects)
    \o Each("object_properties", Seed[p].properties)
    \o Each("documents", Seed[p].documents)
    \o Once("sweep_properties")
    \o Once("sweep_objects") \o Once("sweep_sources")
    \o Each("sweep_source", DocumentSources(p))
    \o Once("sweep_elsewhere")]

\* Mutant: one job inserts its sources in another order.
StatementsUnordered == [p \in Jobs |->
  LET s == Seed[p].sources
      n == Len(s)
      first == CHOOSE q \in Jobs : TRUE
  IN Each("sources", IF p = first THEN s ELSE [k \in 1..n |-> s[n + 1 - k]])
       \o Each("objects", Seed[p].objects)
       \o Each("object_properties", Seed[p].properties)
       \o Each("documents", Seed[p].documents)
       \o Once("sweep_properties")
       \o Each("sweep_source", DocumentSources(p))
       \o Once("sweep_elsewhere")
       \o Once("sweep_objects") \o Once("sweep_sources")]

Statements == [p \in Jobs |->
  Each("sources", Seed[p].sources) \o Each("objects", Seed[p].objects)
    \o Each("object_properties", Seed[p].properties)
    \o Each("documents", Seed[p].documents)
    \o Once("sweep_properties")
    \o Each("sweep_source", DocumentSources(p))
    \o Once("sweep_elsewhere")
    \o Once("sweep_objects") \o Once("sweep_sources")]

AtStatement(p) == /\ job[p].pc = "statement"
                  /\ job[p].at <= Len(Statements[p])
Statement(p) == Statements[p][job[p].at]
Upserting(p) == AtStatement(p) /\ Statement(p).op \in Tables

\* The row that the INSERT at hand would make.
NewRow(p) ==
  LET op == Statement(p).op
      item == Statement(p).item
      id == job[p].ids
  IN IF op \in Named
     THEN Row(op, item.name, {}, item.rest)
     ELSE IF op = "object_properties"
     THEN Row(op, <<id[item.object], item.property, id[item.source]>>,
              {id[item.object], id[item.source]}, item.rest)
     ELSE Row(op, <<item.content, id[item.source]>>, {id[item.source]}, Null)

-----------------------------------------------------------------------------
(* Locks. *)

\* Rows that q has written, and those its new rows refer to.
Written(q) == tx[q].del \cup DOMAIN tx[q].upd
Referred(q) == UNION {tx[q].ins[i].refs : i \in DOMAIN tx[q].ins}

\* q may still take the unique key of the row away, or leave it free.
Contests(q, row) == /\ row.table # "documents"
                    /\ \/ Matches(tx[q].ins, row) # {}
                       \/ Matches(store, row) \cap tx[q].del # {}

\* The jobs that p has to wait for before its next step.
Blockers(p) ==
  {q \in Others(p) :
     \/ /\ Upserting(p)
        /\ \/ Contests(q, NewRow(p))
           \/ /\ Matches(View(p), NewRow(p)) = {}
              /\ NewRow(p).refs \cap tx[q].del # {}
     \/ /\ job[p].pc = "rows"
        /\ job[p].todo # {}
        /\ Least(job[p].todo) \in Written(q) \cup Referred(q)
     \/ /\ job[p].pc = "update"
        /\ Least(job[p].todo) \in Written(q)}

Active(p) == job[p].pc \notin {"absent", "idle", "done", "failed"}
Running == {p \in Jobs : Active(p)}

\* Jobs that wait for one another.
LockCycle(jobs) == /\ jobs # {}
                   /\ \A p \in jobs : Blockers(p) \cap jobs # {}

-----------------------------------------------------------------------------
(* Transactions. *)

NoWrites == [ins |-> Empty, del |-> {}, upd |-> Empty]

\* The store after the commit of p.
Merged(p) == [i \in DOMAIN View(p) |->
                IF i \in DOMAIN tx[p].upd
                THEN [View(p)[i] EXCEPT !.rest = tx[p].upd[i]]
                ELSE View(p)[i]]

Commit(p) == store' = Merged(p) /\ tx' = [tx EXCEPT ![p] = NoWrites]

\* Mutant: the connection of a failed backfill is not closed.
FailLeaking(p) == /\ tx' = [tx EXCEPT ![p].ins = Empty, ![p].del = {}]
                  /\ job' = [job EXCEPT ![p].pc = "failed"]
                  /\ UNCHANGED <<store, nextId>>

\* An exception rolls back and leaves the CLI with a status other than 0.
Fail(p) == /\ tx' = [tx EXCEPT ![p] = NoWrites]
           /\ job' = [job EXCEPT ![p].pc = "failed"]
           /\ UNCHANGED <<store, nextId>>

-----------------------------------------------------------------------------
(* run_ingest. *)

Init ==
  \E d \in Deployments :
    /\ store \in d.before
    /\ nextId = Cardinality(DOMAIN store) + 1
    /\ tx = [p \in Jobs |-> NoWrites]
    /\ job = [p \in Jobs |-> [pc |-> IF p \in d.jobs THEN "idle" ELSE "absent",
                              at |-> 1, ids |-> Empty,
                              todo |-> {}, fetched |-> Empty]]

Start(p) == /\ job[p].pc = "idle"
            /\ job' = [job EXCEPT ![p].pc = "statement"]
            /\ UNCHANGED <<store, nextId, tx>>

\* The statement is done; a source or an object has the id i.
NextStatement(p, i) ==
  LET st == Statement(p)
  IN job' = [job EXCEPT
       ![p].pc = "statement",
       ![p].at = @ + 1,
       ![p].ids = IF st.op \in Named THEN With(@, st.item.name, i) ELSE @]

\* Mutant: the unique key of the objects is missing.
InsertRowRacing(p) ==
  /\ Upserting(p)
  /\ Blockers(p) = {} \/ Statement(p).op = "objects"
  /\ Matches(View(p), NewRow(p)) = {}
  /\ NewRow(p).refs \subseteq DOMAIN View(p)
  /\ tx' = [tx EXCEPT ![p].ins = With(@, nextId, NewRow(p))]
  /\ nextId' = nextId + 1
  /\ NextStatement(p, nextId)
  /\ UNCHANGED store

\* The row is not there yet, and what it refers to is.
InsertRow(p) ==
  /\ Upserting(p)
  /\ Blockers(p) = {}
  /\ Matches(View(p), NewRow(p)) = {}
  /\ NewRow(p).refs \subseteq DOMAIN View(p)
  /\ tx' = [tx EXCEPT ![p].ins = With(@, nextId, NewRow(p))]
  /\ nextId' = nextId + 1
  /\ NextStatement(p, nextId)
  /\ UNCHANGED store

\* The parent was deleted by a commit since its id was read.
ParentIsGone(p) == /\ Upserting(p)
                   /\ Blockers(p) = {}
                   /\ Matches(View(p), NewRow(p)) = {}
                   /\ ~ NewRow(p).refs \subseteq DOMAIN View(p)
                   /\ Fail(p)

\* ON CONFLICT DO NOTHING, and the existence check for documents: the row
\* that is there stays as it is.  The id needs a statement of its own.
KeepRow(p) ==
  /\ Upserting(p)
  /\ Blockers(p) = {}
  /\ Matches(View(p), NewRow(p)) # {}
  /\ IF Statement(p).op \in Named
     THEN job' = [job EXCEPT ![p].pc = "lookup"]
     ELSE NextStatement(p, 0)
  /\ UNCHANGED <<store, nextId, tx>>

SelectId(p) ==
  /\ job[p].pc = "lookup"
  /\ \E i \in Matches(View(p), NewRow(p)) : NextStatement(p, i)
  /\ UNCHANGED <<store, nextId, tx>>

\* A conflict, but no row when the id is read.
IdIsGone(p) == /\ job[p].pc = "lookup"
               /\ Matches(View(p), NewRow(p)) = {}
               /\ Fail(p)

-----------------------------------------------------------------------------
(* The deletions.  A statement fixes its rows when it begins and takes     *)
(* them one by one, in an order common to all jobs.                        *)

StaleProperties(p) ==
  LET id == job[p].ids
      expected == {<<id[e.object], e.property, id[e.source]>> :
                     e \in Properties(p)}
  IN {i \in In("object_properties", View(p)) :
        View(p)[i].key \notin expected}

StaleDocuments(p, source) ==
  {i \in In("documents", View(p)) :
     /\ View(p)[i].key[2] = job[p].ids[source]
     /\ \A d \in Documents(p) : d.source = source
                               => d.content # View(p)[i].key[1]}

DocumentsElsewhere(p) ==
  {i \in In("documents", View(p)) :
     \A d \in Documents(p) : View(p)[i].key[2] # job[p].ids[d.source]}

StaleObjects(p) ==
  {i \in In("objects", View(p)) : View(p)[i].key \notin Objects(p)}

StaleSources(p) ==
  {i \in In("sources", View(p)) :
     /\ View(p)[i].key \notin Sources(p)
     /\ \A j \in DOMAIN View(p) : i \notin View(p)[j].refs}

Sweep(p, op, stale) == /\ Statement(p).op = op
                       /\ job' = [job EXCEPT ![p].pc = "rows",
                                             ![p].todo = stale]

BeginDelete(p) ==
  /\ AtStatement(p)
  /\ \/ Sweep(p, "sweep_properties", StaleProperties(p))
     \/ Sweep(p, "sweep_source", StaleDocuments(p, Statement(p).item))
     \/ Sweep(p, "sweep_elsewhere", DocumentsElsewhere(p))
     \/ Sweep(p, "sweep_objects", StaleObjects(p))
     \/ Sweep(p, "sweep_sources", StaleSources(p))
  /\ UNCHANGED <<store, nextId, tx>>

\* A row that another commit has deleted in the meantime is passed over.
DeleteRow(p) ==
  LET i == Least(job[p].todo)
  IN /\ job[p].pc = "rows"
     /\ job[p].todo # {}
     /\ Blockers(p) = {}
     /\ tx' = [tx EXCEPT ![p].del = IF i \in DOMAIN View(p)
                                    THEN @ \cup {i} ELSE @]
     /\ job' = [job EXCEPT ![p].todo = @ \ {i}]
     /\ UNCHANGED <<store, nextId>>

\* ON DELETE CASCADE: the properties of a deleted object go with it.
Cascade(p) ==
  /\ job[p].pc = "rows"
  /\ job[p].todo = {}
  /\ Statement(p).op = "sweep_objects"
  /\ Orphans(View(p)) # {}
  /\ job' = [job EXCEPT ![p].todo = Orphans(View(p))]
  /\ UNCHANGED <<store, nextId, tx>>

\* ON DELETE RESTRICT: a commit has put a reference to a deleted source.
RestrictFails(p) ==
  /\ job[p].pc = "rows"
  /\ job[p].todo = {}
  /\ Statement(p).op # "sweep_objects"
  /\ Orphans(View(p)) # {}
  /\ Fail(p)

EndDelete(p) == /\ job[p].pc = "rows"
                /\ job[p].todo = {}
                /\ Orphans(View(p)) = {}
                /\ NextStatement(p, 0)
                /\ UNCHANGED <<store, nextId, tx>>

\* With --embed a second connection follows, otherwise the process ends.
CommitIngest(p) ==
  /\ job[p].pc = "statement"
  /\ job[p].at > Len(Statements[p])
  /\ Commit(p)
  /\ job' = [job EXCEPT ![p].pc = IF p \in Embedding THEN "fetch" ELSE "done"]
  /\ UNCHANGED nextId

-----------------------------------------------------------------------------
(* backfill_embeddings. *)

\* The rows without an embedding, with their texts, in the order of ids.
FetchRows(p) ==
  LET rows == {i \in In("documents", store) : store[i].rest = Null}
  IN /\ job[p].pc = "fetch"
     /\ job' = [job EXCEPT ![p].pc = "embed",
                           ![p].todo = rows,
                           ![p].fetched = [i \in rows |-> store[i].key[1]]]
     /\ UNCHANGED <<store, nextId, tx>>

EmbedRow(p) == /\ job[p].pc = "embed"
               /\ job[p].todo # {}
               /\ job' = [job EXCEPT ![p].pc = "update"]
               /\ UNCHANGED <<store, nextId, tx>>

\* Mutant: a row that cannot be embedded is passed over.
EmbedSkips(p) == /\ job[p].pc = "embed"
                 /\ job[p].todo # {}
                 /\ job' = [job EXCEPT ![p].todo = @ \ {Least(@)}]
                 /\ UNCHANGED <<store, nextId, tx>>

\* The retries of LLMClient.embed are used up; nothing catches the error.
EmbedFails(p) == /\ job[p].pc = "embed"
                 /\ job[p].todo # {}
                 /\ Fail(p)

\* Mutant: the vector goes to the first row without an embedding.
UpdateFirstNull(p) ==
  LET i == Least(job[p].todo)
      open == {j \in In("documents", store) :
                 store[j].rest = Null /\ j \notin DOMAIN tx[p].upd}
  IN /\ job[p].pc = "update"
     /\ Blockers(p) = {}
     /\ tx' = [tx EXCEPT ![p].upd =
                 IF open # {} THEN With(@, Least(open), job[p].fetched[i])
                              ELSE @]
     /\ job' = [job EXCEPT ![p].pc = "embed", ![p].todo = @ \ {i}]
     /\ UNCHANGED <<store, nextId>>

\* The row may be gone: the UPDATE then matches nothing.
UpdateRow(p) ==
  LET i == Least(job[p].todo)
  IN /\ job[p].pc = "update"
     /\ Blockers(p) = {}
     /\ tx' = [tx EXCEPT ![p].upd = IF i \in DOMAIN store
                                    THEN With(@, i, job[p].fetched[i])
                                    ELSE @]
     /\ job' = [job EXCEPT ![p].pc = "embed", ![p].todo = @ \ {i}]
     /\ UNCHANGED <<store, nextId>>

CommitBackfill(p) == /\ job[p].pc = "embed"
                     /\ job[p].todo = {}
                     /\ Commit(p)
                     /\ job' = [job EXCEPT ![p].pc = "done"]
                     /\ UNCHANGED nextId

-----------------------------------------------------------------------------
\* The replica timeout, a lost connection, a connection that is refused.
Crash(p) == Active(p) /\ Fail(p)

\* PostgreSQL ends a wait that nobody else can end.
DeadlockAborts(p) == /\ \E jobs \in SUBSET Running : p \in jobs /\ LockCycle(jobs)
                     /\ Fail(p)

\* The steps of the process and of the services it waits for.
Work(p) ==
  \/ InsertRow(p) \/ ParentIsGone(p) \/ KeepRow(p)
  \/ SelectId(p) \/ IdIsGone(p)
  \/ BeginDelete(p) \/ DeleteRow(p) \/ Cascade(p) \/ RestrictFails(p)
  \/ EndDelete(p) \/ CommitIngest(p)
  \/ FetchRows(p) \/ EmbedRow(p) \/ EmbedFails(p)
  \/ UpdateRow(p) \/ CommitBackfill(p)
  \/ DeadlockAborts(p)

Next == \E p \in Jobs : Start(p) \/ Work(p) \/ Crash(p)

Spec == Init /\ [][Next]_vars

\* A job that runs goes on; nothing makes one start or fail.
LiveSpec == Spec /\ \A p \in Jobs : WF_vars(Work(p))

-----------------------------------------------------------------------------
(* Properties. *)

\* A document and a property by names instead of ids.
DocumentIn(rows, i) == [content |-> rows[i].key[1],
                        source |-> rows[rows[i].key[2]].key]
FactIn(rows, i) == IF rows[i].table \in Named THEN <<rows[i].key>>
                   ELSE <<rows[rows[i].key[1]].key, rows[i].key[2],
                          rows[rows[i].key[3]].key>>

Content(rows) ==
  [documents |-> {DocumentIn(rows, i) : i \in In("documents", rows)},
   facts |-> {FactIn(rows, i) : i \in DOMAIN rows \ In("documents", rows)}]

SeedContent(p) ==
  [documents |-> {[content |-> d.content, source |-> d.source] : d \in Documents(p)},
   facts |-> {<<n>> : n \in Sources(p) \cup Objects(p)}
               \cup {<<e.object, e.property, e.source>> : e \in Properties(p)}]

\* Every variable has its type.  The committed rows satisfy the constraints
\* of 0001_initial_schema.py, unique keys and references, and no row has
\* been written by two jobs at once.
TypeOK ==
  /\ \A i \in DOMAIN store : i < nextId /\ store[i].table \in Tables
  /\ Orphans(store) = {}
  /\ UniqueKeys(store)
  /\ \A p \in Jobs :
       /\ job[p].pc \in {"absent", "idle", "statement", "lookup", "rows", "fetch",
                         "embed", "update", "done", "failed"}
       /\ job[p].at \in 1..(Len(Statements[p]) + 1)
       /\ job[p].todo \cup DOMAIN job[p].fetched \subseteq 1..(nextId - 1)
       /\ Written(p) \subseteq DOMAIN store
       /\ DOMAIN tx[p].ins \cap DOMAIN store = {}
       /\ \A q \in Others(p) : Written(p) \cap Written(q) = {}

\* The two documents that make up a text twice in the answers of a search.
Twins == {ids \in SUBSET In("documents", store) :
            /\ Cardinality(ids) = 2
            /\ \A i, j \in ids : store[i].key = store[j].key}

\* runner.py promises that running it again adds no rows: no document is
\* there twice.  The existence check has no constraint behind it.
NoTwins == Twins = {}

\* runner.py promises that the database agrees with the seed: whenever an
\* ingest has committed, the value of a property is the one the seed gives
\* it.
SeedValuesWin ==
  [][\A p \in Jobs : CommitIngest(p) =>
       \A i \in In("object_properties", store'), e \in Properties(p) :
         store'[i].key = <<job[p].ids[e.object], e.property,
                           job[p].ids[e.source]>>
           => store'[i].rest = e.rest]_vars

\* A search never ranks a text by the vector of another one, although the
\* backfill writes a vector minutes after it has read the text, and ingests
\* replace rows in between.
EmbeddingIsOfText ==
  \A i \in In("documents", store) : store[i].rest \in {Null, store[i].key[1]}

\* A job with --embed that ends with status 0 has filled every row it found
\* empty, unless the row is gone.  One failing row, a kill or a deadlock
\* makes it end with another status.
ZeroMeansFilled ==
  \A p \in Jobs : job[p].pc = "done" =>
    \A i \in DOMAIN job[p].fetched \cap DOMAIN store : store[i].rest # Null

\* All jobs that run are of one image, or of images with the same seed.
SameSeed == \A p, q \in {r \in Jobs : job[r].pc # "absent"} : Seed[p] = Seed[q]

\* Where the jobs carry the same seed they never wait for one another in a
\* cycle, so that no correct run is lost to the deadlock detector: all of
\* them take keys and rows in the same order.
NoLockCycle == SameSeed => \A jobs \in SUBSET Running : ~ LockCycle(jobs)

\* Every job that has started ends, in spite of the locks: a wait ends with
\* the job that is waited for, or with the deadlock detector.
JobsEnd == \A p \in Jobs : Active(p) ~> job[p].pc \in {"done", "failed"}

\* Where the jobs carry the same seed, those who read the tables see one
\* corpus or the other and never a mixture, and a document that stays does
\* not lose its embedding: the jobs implement Corpus.
C == INSTANCE Corpus WITH
       Seeds <- {SeedContent(p) : p \in Jobs},
       documents <- IF SameSeed THEN Content(store).documents ELSE {},
       facts <- IF SameSeed THEN Content(store).facts ELSE {},
       embedded <- IF SameSeed
                   THEN {DocumentIn(store, i) :
                          i \in {j \in In("documents", store) :
                                  store[j].rest # Null}}
                   ELSE {}
ImplementsCorpus == C!Spec
=============================================================================
