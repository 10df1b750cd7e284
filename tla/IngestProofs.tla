------------------------------ MODULE IngestProofs ------------------------------
(***************************************************************************)
(* Proofs about Ingest, for any jobs, any seeds and any sound tables.      *)
(***************************************************************************)
EXTENDS Ingest, FiniteSetTheorems, SequenceTheorems, WellFoundedInduction, TLAPS

(***************************************************************************)
(* Why the tables stay sound.  A job sees its own writes in its view; what *)
(* it will commit is sound when no other job can take away what its view   *)
(* rests on.  The locks see to that (Apart), the order of the statements   *)
(* sees to it that a job never sweeps a row of its own (Own), and ids that *)
(* are never given out twice let it write minutes after it has read.       *)
(***************************************************************************)

Inserted(p) == DOMAIN tx[p].ins
Changed(p) == DOMAIN tx[p].upd
Ids(p) == {job[p].ids[n] : n \in DOMAIN job[p].ids}
Given == 1..(nextId - 1)

Ingesting == {"statement", "lookup", "rows"}
Filling == {"embed", "update"}
Phases == {"absent", "idle", "fetch", "done", "failed"} \cup Ingesting
            \cup Filling

\* The job is at a statement that inserts, into one of the tables.
Inserts(p, tables) == /\ job[p].pc \in {"statement", "lookup"}
                      /\ job[p].at <= Len(Statements[p])
                      /\ Statement(p).op \in tables

\* The tables: ids come from the sequence, rows keep the constraints.
Storage ==
  /\ nextId \in Nat \ {0}
  /\ DOMAIN store \subseteq Given
  /\ \A i \in DOMAIN store : IsRow(store[i])
  /\ Orphans(store) = {}
  /\ UniqueKeys(store)

\* What the job has written, and what will be there when it commits.
Writes(p) ==
  /\ tx[p] = [ins |-> tx[p].ins, del |-> tx[p].del, upd |-> tx[p].upd]
  /\ Inserted(p) \subseteq Given \ DOMAIN store
  /\ \A i \in Inserted(p) : IsRow(tx[p].ins[i])
  /\ Written(p) \subseteq DOMAIN store
  /\ \A i \in Changed(p) : /\ store[i].table = "documents"
                           /\ tx[p].upd[i] = store[i].key[1]
  /\ \A i \in Inserted(p) : tx[p].ins[i].refs \subseteq DOMAIN View(p)
  /\ UniqueKeys(View(p))
  /\ job[p].pc # "rows" => Orphans(View(p)) = {}

\* Two jobs never write the same row or the same key, and neither deletes
\* what the other refers to.
Apart(p, q) ==
  /\ Inserted(p) \cap (Inserted(q) \cup Ids(q) \cup DOMAIN job[q].fetched) = {}
  /\ Written(p) \cap Written(q) = {}
  /\ Referred(p) \cap tx[q].del = {}
  /\ \A i \in Inserted(p), j \in Inserted(q) :
       /\ tx[p].ins[i].table # "documents"
       /\ tx[p].ins[i].table = tx[q].ins[j].table
       => tx[p].ins[i].key # tx[q].ins[j].key

\* Where the job is, and what it can have written there.
Place(p) ==
  /\ job[p] = [pc |-> job[p].pc, at |-> job[p].at, ids |-> job[p].ids,
               todo |-> job[p].todo, fetched |-> job[p].fetched]
  /\ job[p].pc \in Phases
  /\ job[p].at \in 1..(Len(Statements[p]) + 1)
  /\ job[p].pc \in {"lookup", "rows"} => job[p].at <= Len(Statements[p])
  /\ job[p].pc = "lookup" => Statement(p).op \in Named
  /\ job[p].pc = "rows" => Statement(p).op \notin Tables
  /\ job[p].pc \notin Ingesting => Inserted(p) = {} /\ tx[p].del = {}
  /\ job[p].pc \notin Filling => Changed(p) = {}
  /\ Inserts(p, Tables) => tx[p].del = {}
  /\ Ids(p) \cup job[p].todo \cup DOMAIN job[p].fetched \subseteq Given

\* The row i of the rows is the one of that name.
Names(p, n, row) == /\ row.key = n
                    /\ row.table = IF n \in Sources(p) THEN "sources"
                                                       ELSE "objects"

\* The ids the job has read are those of the names, as long as the rows are
\* there, and they are complete when the first row refers to one.
Naming(p) ==
  /\ DOMAIN job[p].ids \subseteq Sources(p) \cup Objects(p)
  /\ \A n \in DOMAIN job[p].ids :
       /\ job[p].ids[n] \in DOMAIN store => Names(p, n, store[job[p].ids[n]])
       /\ job[p].ids[n] \in Inserted(p) => Names(p, n, tx[p].ins[job[p].ids[n]])
  /\ \A m, n \in DOMAIN job[p].ids : job[p].ids[m] = job[p].ids[n] => m = n
  /\ \A k \in 1..(job[p].at - 1) :
       Statements[p][k].op \in Named
         => Statements[p][k].item.name \in DOMAIN job[p].ids

\* A row that the job has inserted is one of its seed.
OfSeed(p, row) ==
  LET id == job[p].ids
  IN \/ row.table = "sources" /\ row.key \in Sources(p)
     \/ row.table = "objects" /\ row.key \in Objects(p)
     \/ /\ row.table = "object_properties"
        /\ \E e \in Properties(p) :
             row.key = <<id[e.object], e.property, id[e.source]>>
        /\ row.refs \subseteq Ids(p)
     \/ /\ row.table = "documents"
        /\ \E d \in Documents(p) : row.key = <<d.content, id[d.source]>>
        /\ row.refs \subseteq Ids(p)

\* A job does not sweep what it has inserted, nor what it refers to.
Own(p) ==
  /\ \A i \in Inserted(p) : OfSeed(p, tx[p].ins[i])
  /\ Inserts(p, Named) => \A i \in Inserted(p) : tx[p].ins[i].table \in Named
  /\ tx[p].del \cap Ids(p) = {}
  /\ job[p].pc = "rows" => job[p].todo \cap (Inserted(p) \cup Ids(p)) = {}

\* The backfill knows the texts of the rows it has fetched, and has filled
\* those that it no longer has to do.
Filled(p, i) == i \in Changed(p) \/ store[i].rest # Null
Backfill(p) ==
  /\ job[p].pc \notin Filling \cup {"done", "failed"} => DOMAIN job[p].fetched = {}
  /\ job[p].pc \in Filling => job[p].todo \subseteq DOMAIN job[p].fetched
  /\ job[p].pc = "update" => job[p].todo # {}
  /\ \A i \in DOMAIN job[p].fetched \cap DOMAIN store :
       /\ store[i].table = "documents"
       /\ job[p].fetched[i] = store[i].key[1]
       /\ job[p].pc \in Filling /\ i \notin job[p].todo => Filled(p, i)
       /\ job[p].pc = "done" => store[i].rest # Null

Good(p) == Writes(p) /\ Place(p) /\ Naming(p) /\ Own(p) /\ Backfill(p)

IInv ==
  /\ store = [i \in DOMAIN store |-> store[i]]
  /\ tx = [p \in Jobs |-> tx[p]]
  /\ job = [p \in Jobs |-> job[p]]
  /\ Storage
  /\ \A p \in Jobs : Good(p)
  /\ \A p \in Jobs : \A q \in Others(p) : Apart(p, q)

-----------------------------------------------------------------------------
(* Numbers, rows and views. *)

\* A set of ids that is not empty has a least one.
LEMMA LeastNumber ==
  ASSUME NEW T, T \subseteq Nat, T # {}
  PROVE  Least(T) \in T /\ \A k \in T : Least(T) <= k
<1>. DEFINE R == {ss \in Nat \X Nat : ss[1] < ss[2]}
<1>1. IsWellFoundedOn(R, Nat)
  BY NatLessThanWellFounded DEF OpToRel
<1>2. PICK m \in T : \A k \in T : ~ (<<k, m>> \in R)
  <2>. HIDE DEF R
  <2>. QED  BY <1>1, WFMin
<1>3. \A k \in T : ~(k < m)
  BY <1>2
<1>4. \A k \in T : m <= k
  BY <1>3
<1>. QED  BY <1>4 DEF Least

\* What a function holds after an entry has been written.
LEMMA WithEntry ==
  ASSUME NEW f, NEW i, NEW v
  PROVE  /\ DOMAIN With(f, i, v) = DOMAIN f \cup {i}
         /\ With(f, i, v)[i] = v
         /\ \A j \in DOMAIN f \ {i} : With(f, i, v)[j] = f[j]
BY DEF With

\* The view of a job that has inserted and deleted nothing is the store.
LEMMA EmptyView ==
  ASSUME NEW p \in Jobs,
         store = [i \in DOMAIN store |-> store[i]],
         Inserted(p) = {}, tx[p].del = {}
  PROVE  View(p) = store
BY DEF View, Inserted

-----------------------------------------------------------------------------
(* The statements of an ingest. *)

\* Statements with an operation of some and an item of some.
AnyOf(Ops, S) == [op : Ops, item : S]

\* Every item gives one statement.
LEMMA EachStatement ==
  ASSUME NEW Ops, NEW op \in Ops, NEW S, NEW items \in Seq(S)
  PROVE  /\ Each(op, items) \in Seq(AnyOf(Ops, S))
         /\ Len(Each(op, items)) = Len(items)
         /\ \A k \in 1..Len(items) : /\ Each(op, items)[k].op = op
                                     /\ Each(op, items)[k].item = items[k]
<1>1. Len(items) \in Nat /\ DOMAIN items = 1..Len(items)
  OBVIOUS
<1>2. Each(op, items) \in [1..Len(items) -> [op : Ops, item : S]]
  BY <1>1 DEF Each
<1>3. Len(Each(op, items)) = Len(items)
  BY <1>1, <1>2
<1>4. Each(op, items) \in Seq(AnyOf(Ops, S))
  <2>. DEFINE R == [op : Ops, item : S]
  <2>1. [1..Len(items) -> R] \in {[1..n -> R] : n \in Nat}
    BY <1>1
  <2>2. Seq(R) = UNION {[1..n -> R] : n \in Nat}
    BY SeqDef
  <2>. HIDE DEF R
  <2>3. Each(op, items) \in [1..Len(items) -> R]
    BY <1>2 DEF R
  <2>4. Each(op, items) \in Seq(R)
    BY <2>1, <2>2, <2>3
  <2>. QED  BY <2>4 DEF R, AnyOf
<1>. QED  BY <1>1, <1>3, <1>4 DEF Each

\* A statement without an item.
LEMMA OneStatement ==
  ASSUME NEW Ops, NEW op \in Ops, NEW S, Null \in S
  PROVE  /\ Once(op) \in Seq(AnyOf(Ops, S))
         /\ Len(Once(op)) = 1
         /\ Once(op)[1].op = op
BY DEF Once, AnyOf

\* The first part of a concatenation comes first.
LEMMA Joined ==
  ASSUME NEW S, NEW s \in Seq(S), NEW t \in Seq(S)
  PROVE  /\ s \o t \in Seq(S)
         /\ Len(s \o t) = Len(s) + Len(t)
         /\ \A k \in 1..Len(s) : (s \o t)[k] = s[k]
         /\ \A k \in (Len(s) + 1)..(Len(s) + Len(t)) : (s \o t)[k] = t[k - Len(s)]
<1>1. /\ s \o t \in Seq(S)
      /\ Len(s \o t) = Len(s) + Len(t)
  BY ConcatProperties
<1>2. ASSUME NEW k \in 1..(Len(s) + Len(t))
      PROVE  (s \o t)[k] = IF k <= Len(s) THEN s[k] ELSE t[k - Len(s)]
  BY ConcatProperties
<1>3. Len(s) \in Nat /\ Len(t) \in Nat
  OBVIOUS
<1>. QED  BY <1>1, <1>2, <1>3

\* A finite set of positive numbers has an n-th element.
LEMMA NthElement ==
  ASSUME NEW N \in Nat, NEW T, T \subseteq 1..N, NEW n \in 1..Cardinality(T)
  PROVE  \E k \in T : Cardinality({j \in T : j <= k}) = n
<1>. DEFINE upTo(k) == {j \in T : j <= k}
<1>0. \A j \in T : j \in Int /\ N - j \in Nat
  OBVIOUS
<1>1. \A S : S \subseteq T => IsFiniteSet(S) /\ Cardinality(S) \in Nat
  <2>1. IsFiniteSet(1..N)
    BY FS_Interval
  <2>2. \A S : S \subseteq T => IsFiniteSet(S)
    BY <2>1, FS_Subset
  <2>. QED  BY <2>2, FS_CardinalityType
<1>2. \A S : S \subseteq T /\ S # {} => \E m \in S : \A k \in S : k <= m
  <2>. SUFFICES ASSUME NEW S, S \subseteq T, S # {}
                PROVE  \E m \in S : \A k \in S : k <= m
    OBVIOUS
  <2>. DEFINE R == {N - k : k \in S}
  <2>1. R \subseteq Nat /\ R # {}
    BY <1>0
  <2>2. Least(R) \in R /\ \A k \in R : Least(R) <= k
    <3>. HIDE DEF R
    <3>. QED  BY <2>1, LeastNumber
  <2>3. PICK m \in S : Least(R) = N - m
    BY <2>2
  <2>4. \A k \in S : N - m <= N - k /\ k \in Int /\ m \in Int
    <3>1. \A k \in S : N - k \in R /\ k \in Int /\ m \in Int
      BY <1>0
    <3>. HIDE DEF R
    <3>. QED  BY <2>2, <2>3, <3>1
  <2>. QED  BY <2>4
<1>. DEFINE U == {k \in T : n <= Cardinality(upTo(k))}
<1>3. U # {}
  <2>1. T # {}
    BY FS_EmptySet
  <2>2. PICK m \in T : \A k \in T : k <= m
    BY <1>2, <2>1
  <2>3. upTo(m) = T
    BY <2>2
  <2>. QED  BY <2>3
<1>4. Least(U) \in U /\ \A k \in U : Least(U) <= k
  <2>1. U \subseteq T /\ T \subseteq Nat
    OBVIOUS
  <2>. HIDE DEF U
  <2>. QED  BY <2>1, <1>3, LeastNumber
<1>. DEFINE k == Least(U)
            below == upTo(k) \ {k}
<1>5. k \in T /\ k \in upTo(k) /\ n <= Cardinality(upTo(k))
  BY <1>4
<1>6. SUFFICES ASSUME Cardinality(upTo(k)) # n  PROVE FALSE
  BY <1>5
<1>7. n <= Cardinality(below) /\ below # {}
  <2>1. Cardinality(below) = Cardinality(upTo(k)) - 1
    BY <1>1, <1>5, FS_RemoveElement
  <2>2. Cardinality(upTo(k)) \in Nat /\ Cardinality(T) \in Nat
    BY <1>1
  <2>3. n <= Cardinality(below) /\ Cardinality(below) # 0
    BY <1>5, <1>6, <2>1, <2>2
  <2>. QED  BY <2>3, FS_EmptySet
<1>8. PICK m \in below : \A j \in below : j <= m
  BY <1>2, <1>7
<1>9. m \in T /\ m < k /\ \A j \in T : j < k => j <= m
  <2>1. m \in upTo(k) /\ m # k
    BY <1>8
  <2>2. \A j \in T : j < k => j \in below
    <3>. HIDE DEF k
    <3>. QED  BY <1>0, <1>5
  <2>3. \A j \in T : j < k => j <= m
    <3>. HIDE DEF below, k
    <3>. QED  BY <1>8, <2>2
  <2>. HIDE DEF k
  <2>. QED  BY <1>0, <1>5, <2>1, <2>3
<1>10. upTo(m) = below
  <2>1. \A j \in T : j \in Int /\ m \in Int /\ k \in Int
    BY <1>0, <1>5, <1>9
  <2>2. \A j \in T : j <= m <=> (j <= k /\ j # k)
    BY <1>9, <2>1
  <2>. HIDE DEF k
  <2>. QED  BY <2>2
<1>11. m \in U
  <2>. HIDE DEF k, below
  <2>. QED  BY <1>7, <1>9, <1>10
<1>12. k <= m
  <2>. HIDE DEF U
  <2>. QED  BY <1>4, <1>11
<1>13. k \in Int /\ m \in Int
  BY <1>0, <1>5, <1>9
<1>. HIDE DEF k
<1>. QED  BY <1>9, <1>12, <1>13

\* The pages that have documents are a list.
LEMMA DocumentSourcesAreListed ==
  ASSUME NEW p \in Jobs
  PROVE  DocumentSources(p) \in Seq({d.source : d \in Documents(p)})
<1>. DEFINE docs == Seed[p].documents
            firsts == {k \in DOMAIN docs :
                         \A j \in 1..(k - 1) : docs[j].source # docs[k].source}
<1>1. docs \in Seq({docs[k] : k \in DOMAIN docs})
  BY SeedsAreComplete
<1>2. IsFiniteSet(firsts) /\ Cardinality(firsts) \in Nat
  <2>1. Len(docs) \in Nat /\ DOMAIN docs = 1..Len(docs)
    BY <1>1
  <2>2. IsFiniteSet(DOMAIN docs)
    BY <2>1, FS_Interval
  <2>3. IsFiniteSet(firsts)
    BY <2>2, FS_Subset
  <2>. QED  BY <2>3, FS_CardinalityType
<1>3. Len(docs) \in Nat /\ firsts \subseteq 1..Len(docs)
  BY <1>1
<1>. DEFINE Nth(n) == CHOOSE k \in firsts :
                        Cardinality({j \in firsts : j <= k}) = n
<1>4. \A n \in 1..Cardinality(firsts) : Nth(n) \in firsts
  <2>. HIDE DEF firsts
  <2>. QED  BY <1>3, NthElement
<1>5. DocumentSources(p)
        = [n \in 1..Cardinality(firsts) |-> docs[Nth(n)].source]
  BY DEF DocumentSources
<1>6. \A k \in firsts : docs[k].source \in {d.source : d \in Documents(p)}
  BY DEF Documents
<1>. HIDE DEF firsts, Nth, docs
<1>. QED  BY <1>2, <1>4, <1>5, <1>6

\* Each page that has documents is in the list.
LEMMA DocumentSourcesAreAll ==
  ASSUME NEW p \in Jobs, NEW d \in Documents(p)
  PROVE  \E n \in 1..Len(DocumentSources(p)) : DocumentSources(p)[n] = d.source
<1>. DEFINE docs == Seed[p].documents
            firsts == {k \in DOMAIN docs :
                         \A j \in 1..(k - 1) : docs[j].source # docs[k].source}
            upTo(k) == {j \in firsts : j <= k}
            Nth(n) == CHOOSE k \in firsts : Cardinality(upTo(k)) = n
<1>1. docs \in Seq({docs[k] : k \in DOMAIN docs})
  BY SeedsAreComplete
<1>2. Len(docs) \in Nat /\ DOMAIN docs = 1..Len(docs)
  BY <1>1
<1>3. PICK l \in DOMAIN docs : docs[l] = d
  BY DEF Documents
<1>4. PICK k \in firsts : docs[k].source = d.source
  <2>. DEFINE T == {k \in DOMAIN docs : docs[k].source = d.source}
  <2>1. T \subseteq Nat /\ l \in T
    BY <1>2, <1>3
  <2>2. PICK k \in T : \A j \in T : k <= j
    <3>. HIDE DEF T
    <3>. QED  BY <2>1, LeastNumber
  <2>3. \A j \in 1..(k - 1) : j \notin T /\ j \in DOMAIN docs
    BY <1>2, <2>1, <2>2
  <2>4. k \in firsts
    BY <2>2, <2>3
  <2>. QED  BY <2>2, <2>4
<1>5. firsts \subseteq Nat /\ IsFiniteSet(firsts)
  <2>1. IsFiniteSet(DOMAIN docs)
    BY <1>2, FS_Interval
  <2>2. firsts \subseteq DOMAIN docs
    OBVIOUS
  <2>. HIDE DEF firsts
  <2>. QED  BY <1>2, <2>1, <2>2, FS_Subset
<1>. HIDE DEF firsts
<1>6. \A i \in firsts : /\ upTo(i) \subseteq firsts /\ i \in upTo(i)
                        /\ IsFiniteSet(upTo(i)) /\ Cardinality(upTo(i)) \in Nat
                        /\ Cardinality(upTo(i)) <= Cardinality(firsts)
  <2>1. \A i \in firsts : upTo(i) \subseteq firsts /\ i \in upTo(i)
    BY <1>5
  <2>. HIDE DEF upTo
  <2>. QED  BY <1>5, <2>1, FS_Subset, FS_CardinalityType
<1>. DEFINE n == Cardinality(upTo(k))
<1>7. n \in 1..Cardinality(firsts)
  <2>. HIDE DEF upTo
  <2>1. /\ IsFiniteSet(upTo(k)) /\ upTo(k) # {}
        /\ n \in Nat /\ n <= Cardinality(firsts)
    BY <1>4, <1>6
  <2>2. n # 0
    BY <2>1, FS_EmptySet
  <2>3. Cardinality(firsts) \in Nat
    BY <1>5, FS_CardinalityType
  <2>. HIDE DEF n
  <2>. QED  BY <2>1, <2>2, <2>3
<1>8. \A i, j \in firsts : i < j => Cardinality(upTo(i)) < Cardinality(upTo(j))
  <2>. SUFFICES ASSUME NEW i \in firsts, NEW j \in firsts, i < j
                PROVE  Cardinality(upTo(i)) < Cardinality(upTo(j))
    OBVIOUS
  <2>1. i \in Nat /\ j \in Nat /\ \A h \in firsts : h \in Nat
    BY <1>5
  <2>2. upTo(i) \subseteq upTo(j) /\ j \in upTo(j) /\ j \notin upTo(i)
    <3>1. j <= j /\ ~(j <= i) /\ \A h \in firsts : h <= i => h <= j
      BY <2>1
    <3>. QED  BY <3>1
  <2>. HIDE DEF upTo
  <2>3. IsFiniteSet(upTo(j)) /\ Cardinality(upTo(i)) \in Nat /\ Cardinality(upTo(j)) \in Nat
    BY <1>6
  <2>4. /\ Cardinality(upTo(i)) <= Cardinality(upTo(j))
        /\ Cardinality(upTo(j)) # Cardinality(upTo(i))
    BY <2>2, <2>3, FS_Subset
  <2>. QED  BY <2>3, <2>4
<1>9. Nth(n) = k
  <2>1. Nth(n) \in firsts /\ Cardinality(upTo(Nth(n))) = n
    <3>. HIDE DEF upTo
    <3>. QED  OBVIOUS
  <2>2. ~(Nth(n) < k) /\ ~(k < Nth(n))
    <3>. HIDE DEF upTo, Nth
    <3>. QED  BY <1>6, <1>8, <2>1
  <2>3. Nth(n) \in Nat /\ k \in Nat
    BY <1>5, <2>1
  <2>. HIDE DEF Nth
  <2>. QED  BY <2>2, <2>3
<1>10. DocumentSources(p) = [m \in 1..Cardinality(firsts) |-> docs[Nth(m)].source]
  BY DEF DocumentSources, firsts
<1>11. Len(DocumentSources(p)) = Cardinality(firsts)
  <2>1. Cardinality(firsts) \in Nat
    BY <1>5, FS_CardinalityType
  <2>. HIDE DEF Nth, docs
  <2>. QED  BY <1>10, <2>1
<1>. HIDE DEF Nth, n, docs
<1>. QED  BY <1>4, <1>7, <1>9, <1>10, <1>11

\* Where the sweeps are, behind the statements that insert.
Chain(s, t1, e, t2, t3, t4) == ((((s \o t1) \o e) \o t2) \o t3) \o t4
Chained(S, s, t1, e, t2, t3, t4, t) ==
  LET d == Len(s)
      l == Len(e)
      x == d + 1 + l
  IN /\ t \in Seq(S) /\ x \in Nat /\ Len(t) = x + 3
     /\ \A k \in 1..d : t[k] = s[k]
     /\ t[d + 1] = t1[1]
     /\ \A k \in 1..l : t[(d + 1) + k] = e[k]
     /\ t[x + 1] = t2[1] /\ t[x + 2] = t3[1] /\ t[x + 3] = t4[1]

LEMMA SweepsInOrder ==
  ASSUME NEW S, NEW s \in Seq(S), NEW e \in Seq(S), NEW t1 \in Seq(S),
         NEW t2 \in Seq(S), NEW t3 \in Seq(S), NEW t4 \in Seq(S),
         Len(t1) = 1, Len(t2) = 1, Len(t3) = 1, Len(t4) = 1
  PROVE  Chained(S, s, t1, e, t2, t3, t4, Chain(s, t1, e, t2, t3, t4))
<1>a. PICK d : d = Len(s)
  OBVIOUS
<1>b. PICK l : l = Len(e)
  OBVIOUS
<1>c. PICK x : x = d + 1 + l
  OBVIOUS
<1>d. PICK t : t = Chain(s, t1, e, t2, t3, t4)
  OBVIOUS
<1>. DEFINE Cat(u, v) == u \o v
            u1 == Cat(s, t1)
            u2 == Cat(u1, e)
            u3 == Cat(u2, t2)
            u4 == Cat(u3, t3)
            u5 == Cat(u4, t4)
<1>0. /\ d \in Nat /\ l \in Nat /\ x \in Nat /\ d + 1 <= x /\ d + 1 + l = x
      /\ \A k \in 1..l : /\ (d + 1) + k \in (d + 1 + 1)..(d + 1 + l)
                        /\ ((d + 1) + k) - (d + 1) = k
                        /\ (d + 1) + k \in 1..x
  <2>1. d \in Nat /\ l \in Nat
    BY <1>a, <1>b
  <2>. QED  BY <1>c, <2>1
<1>1. ASSUME NEW u \in Seq(S), NEW n \in Nat, Len(u) = n
      PROVE  /\ \A v \in {t1, t2, t3, t4} :
                  /\ Cat(u, v) \in Seq(S) /\ Len(Cat(u, v)) = n + 1
                  /\ Cat(u, v)[n + 1] = v[1]
                  /\ \A k \in 1..n : Cat(u, v)[k] = u[k]
             /\ /\ Cat(u, e) \in Seq(S) /\ Len(Cat(u, e)) = n + l
                /\ \A k \in 1..n : Cat(u, e)[k] = u[k]
                /\ \A k \in (n + 1)..(n + l) : Cat(u, e)[k] = e[k - n]
  <2>1. ASSUME NEW v \in {t1, t2, t3, t4}
        PROVE  /\ u \o v \in Seq(S)
               /\ Len(u \o v) = n + 1
               /\ (u \o v)[n + 1] = v[1]
               /\ \A k \in 1..n : (u \o v)[k] = u[k]
    <3>1. v \in Seq(S) /\ Len(v) = 1
      OBVIOUS
    <3>2. /\ u \o v \in Seq(S)
          /\ Len(u \o v) = Len(u) + Len(v)
          /\ \A k \in 1..Len(u) : (u \o v)[k] = u[k]
          /\ \A k \in (Len(u) + 1)..(Len(u) + Len(v)) : (u \o v)[k] = v[k - Len(u)]
      BY <3>1, Joined, Zenon
    <3>3. n + 1 \in (n + 1)..(n + 1) /\ (n + 1) - n = 1
      OBVIOUS
    <3>. QED  BY <1>1, <3>1, <3>2, <3>3
  <2>2. /\ u \o e \in Seq(S)
        /\ Len(u \o e) = Len(u) + Len(e)
        /\ \A k \in 1..Len(u) : (u \o e)[k] = u[k]
        /\ \A k \in (Len(u) + 1)..(Len(u) + Len(e)) : (u \o e)[k] = e[k - Len(u)]
    BY Joined, Zenon
  <2>. QED  BY <1>1, <1>b, <2>1, <2>2, Zenon
<1>. HIDE DEF Cat
<1>2. /\ u1 \in Seq(S) /\ Len(u1) = d + 1 /\ u1[d + 1] = t1[1]
      /\ \A k \in 1..d : u1[k] = s[k]
  BY <1>0, <1>1, <1>a
<1>. HIDE DEF u1
<1>3. /\ u2 \in Seq(S) /\ Len(u2) = x
      /\ \A k \in 1..(d + 1) : u2[k] = u1[k]
      /\ \A k \in 1..l : u2[(d + 1) + k] = e[k]
  <2>1. PICK n \in Nat : n = d + 1
    BY <1>0
  <2>2. u1 \in Seq(S) /\ Len(u1) = n
    BY <1>2, <2>1
  <2>3. /\ Cat(u1, e) \in Seq(S) /\ Len(Cat(u1, e)) = n + l
        /\ \A k \in 1..n : Cat(u1, e)[k] = u1[k]
        /\ \A k \in (n + 1)..(n + l) : Cat(u1, e)[k] = e[k - n]
    BY <1>1, <2>2, Zenon
  <2>. QED  BY <1>0, <2>1, <2>3 DEF u2
<1>. HIDE DEF u2
<1>4. /\ u3 \in Seq(S) /\ Len(u3) = x + 1 /\ u3[x + 1] = t2[1]
      /\ \A k \in 1..x : u3[k] = u2[k]
  BY <1>0, <1>1, <1>3
<1>. HIDE DEF u3
<1>5. /\ u4 \in Seq(S) /\ Len(u4) = x + 2 /\ u4[x + 2] = t3[1]
      /\ \A k \in 1..(x + 1) : u4[k] = u3[k]
  <2>1. PICK n \in Nat : n = x + 1
    BY <1>0
  <2>2. u3 \in Seq(S) /\ Len(u3) = n
    BY <1>4, <2>1
  <2>3. /\ Cat(u3, t3) \in Seq(S) /\ Len(Cat(u3, t3)) = n + 1
        /\ Cat(u3, t3)[n + 1] = t3[1]
        /\ \A k \in 1..n : Cat(u3, t3)[k] = u3[k]
    BY <1>1, <2>2, Zenon
  <2>. QED  BY <1>0, <2>1, <2>3 DEF u4
<1>. HIDE DEF u4
<1>6. /\ u5 \in Seq(S) /\ Len(u5) = x + 3 /\ u5[x + 3] = t4[1]
      /\ \A k \in 1..(x + 2) : u5[k] = u4[k]
  <2>1. PICK n \in Nat : n = x + 2
    BY <1>0
  <2>2. u4 \in Seq(S) /\ Len(u4) = n
    BY <1>5, <2>1
  <2>3. /\ Cat(u4, t4) \in Seq(S) /\ Len(Cat(u4, t4)) = n + 1
        /\ Cat(u4, t4)[n + 1] = t4[1]
        /\ \A k \in 1..n : Cat(u4, t4)[k] = u4[k]
    BY <1>1, <2>2, Zenon
  <2>. QED  BY <1>0, <2>1, <2>3 DEF u5
<1>. HIDE DEF u5
<1>7. /\ \A k \in 1..x : u5[k] = u2[k]
      /\ u5[x + 1] = t2[1] /\ u5[x + 2] = t3[1] /\ u5[x + 3] = t4[1]
  <2>1. /\ x + 1 \in 1..(x + 1) /\ x + 1 \in 1..(x + 2) /\ x + 2 \in 1..(x + 2)
        /\ \A k \in 1..x : k \in 1..(x + 1) /\ k \in 1..(x + 2)
    BY <1>0
  <2>. QED  BY <1>4, <1>5, <1>6, <2>1, Zenon
<1>8. (\A k \in 1..d : k \in 1..x /\ k \in 1..(d + 1)) /\ d + 1 \in 1..x /\ d + 1 \in 1..(d + 1)
  BY <1>0
<1>9. /\ \A k \in 1..d : u5[k] = s[k]
      /\ u5[d + 1] = t1[1]
      /\ \A k \in 1..l : u5[(d + 1) + k] = e[k]
  BY <1>0, <1>2, <1>3, <1>7, <1>8
<1>10. u5 = t
  BY <1>d DEF u1, u2, u3, u4, u5, Cat, Chain
<1>11. /\ t \in Seq(S) /\ x \in Nat /\ Len(t) = x + 3
       /\ \A k \in 1..d : t[k] = s[k]
       /\ t[d + 1] = t1[1]
       /\ \A k \in 1..l : t[(d + 1) + k] = e[k]
       /\ t[x + 1] = t2[1] /\ t[x + 2] = t3[1] /\ t[x + 3] = t4[1]
  BY <1>0, <1>6, <1>7, <1>9, <1>10
<1>. QED  BY <1>11, <1>a, <1>b, <1>c, <1>d, Zenon DEF Chained

\* What comes late stays among the late ones when more of them follow.
LEMMA JoinedLate ==
  ASSUME NEW S, NEW L, L \subseteq S, NEW d \in Nat,
         NEW s \in Seq(S), d <= Len(s), \A k \in (d + 1)..Len(s) : s[k] \in L,
         NEW t \in Seq(L)
  PROVE  /\ s \o t \in Seq(S)
         /\ d <= Len(s \o t)
         /\ \A k \in 1..d : (s \o t)[k] = s[k]
         /\ \A k \in (d + 1)..Len(s \o t) : (s \o t)[k] \in L
<1>1. t \in Seq(S)
  BY SeqMonotonic
<1>2. \A k \in 1..Len(t) : t[k] \in L
  BY ElementOfSeq
<1>3. Len(s) \in Nat /\ Len(t) \in Nat
  OBVIOUS
<1>4. /\ s \o t \in Seq(S)
      /\ Len(s \o t) = Len(s) + Len(t)
      /\ \A k \in 1..Len(s) : (s \o t)[k] = s[k]
      /\ \A k \in (Len(s) + 1)..(Len(s) + Len(t)) : (s \o t)[k] = t[k - Len(s)]
  BY <1>1, Joined
<1>5. ASSUME NEW k \in (d + 1)..Len(s \o t)
      PROVE  (s \o t)[k] \in L
  <2>1. CASE k <= Len(s)
    BY <1>3, <1>4, <2>1
  <2>2. CASE Len(s) < k
    <3>1. k - Len(s) \in 1..Len(t)
      BY <1>3, <1>4, <2>2
    <3>. QED  BY <1>2, <1>3, <1>4, <2>2, <3>1
  <2>. QED  BY <1>3, <1>4, <2>1, <2>2
<1>. QED  BY <1>3, <1>4, <1>5

\* The statements for some items, behind others.
LEMMA JoinedEach ==
  ASSUME NEW Ops, NEW op \in Ops, NEW I, NEW X \in Seq(I),
         NEW s \in Seq(AnyOf(Ops, I))
  PROVE  /\ s \o Each(op, X) \in Seq(AnyOf(Ops, I))
         /\ Len(s \o Each(op, X)) = Len(s) + Len(X)
         /\ \A k \in 1..Len(s) : (s \o Each(op, X))[k] = s[k]
         /\ \A k \in 1..Len(X) : /\ (s \o Each(op, X))[Len(s) + k].op = op
                                /\ (s \o Each(op, X))[Len(s) + k].item = X[k]
<1>. DEFINE t == Each(op, X)
<1>1. /\ t \in Seq(AnyOf(Ops, I))
      /\ Len(t) = Len(X)
      /\ \A k \in 1..Len(X) : t[k].op = op /\ t[k].item = X[k]
  BY EachStatement
<1>2. Len(s) \in Nat /\ Len(X) \in Nat
  OBVIOUS
<1>. HIDE DEF t
<1>4. /\ s \o t \in Seq(AnyOf(Ops, I))
      /\ Len(s \o t) = Len(s) + Len(t)
      /\ \A k \in 1..Len(s) : (s \o t)[k] = s[k]
      /\ \A k \in (Len(s) + 1)..(Len(s) + Len(t)) : (s \o t)[k] = t[k - Len(s)]
  <2>1. t \in Seq(AnyOf(Ops, I))
    BY <1>1
  <2>. QED  BY <2>1, Joined
<1>5. ASSUME NEW k \in 1..Len(X)
      PROVE  (s \o t)[Len(s) + k] = t[k]
  <2>1. /\ Len(s) + k \in (Len(s) + 1)..(Len(s) + Len(t))
        /\ (Len(s) + k) - Len(s) = k
    BY <1>1, <1>2
  <2>. QED  BY <1>4, <2>1
<1>. QED  BY <1>1, <1>4, <1>5 DEF t

\* The statement number k of a list is one of the seed's.
OfItsTable(p, st) ==
  /\ st.op = "sources" => st.item.name \in Sources(p)
  /\ st.op = "objects" => st.item.name \in Objects(p)
  /\ st.op = "object_properties" => st.item \in Properties(p)
  /\ st.op = "documents" => st.item \in Documents(p)
  /\ st.op = "sweep_source" => \E d \in Documents(p) : st.item = d.source

\* There is a statement for each fact and each text of the seed.
AllOfSeed(p) ==
  /\ \A e \in Properties(p) : \E k \in 1..Len(Statements[p]) :
       Statements[p][k].op = "object_properties" /\ Statements[p][k].item = e
  /\ \A e \in Documents(p) : \E k \in 1..Len(Statements[p]) :
       Statements[p][k].op = "documents" /\ Statements[p][k].item = e

\* The statement number n sweeps the sources, and no other one does; all
\* other sweeps come before it, that of the objects as the last one.
LastSweep(p, n) ==
  /\ n > 0 /\ Statements[p][n].op = "sweep_sources"
  /\ \A k \in 1..n : Statements[p][k].op = "sweep_objects" => k = n - 1
  /\ \A k \in 1..(n - 1) : Statements[p][k].op # "sweep_sources"
  /\ \A op \in {"sweep_properties", "sweep_elsewhere", "sweep_objects"} :
       \E k \in 1..(n - 1) : Statements[p][k].op = op
  /\ \A e \in Documents(p) : \E k \in 1..(n - 1) :
       Statements[p][k].op = "sweep_source" /\ Statements[p][k].item = e.source

\* An ingest inserts before it sweeps, and it has the ids of all sources
\* and objects before it needs the first one.
LEMMA StatementOrder ==
  ASSUME NEW p \in Jobs
  PROVE  /\ Len(Statements[p]) \in Nat
         /\ \A k \in 1..Len(Statements[p]) :
              /\ OfItsTable(p, Statements[p][k])
              /\ Statements[p][k].op \notin Named =>
                   \A n \in Sources(p) \cup Objects(p) : \E j \in 1..(k - 1) :
                     /\ Statements[p][j].op \in Named
                     /\ Statements[p][j].item.name = n
         /\ \A k \in 1..Len(Statements[p]) : k + 1 <= Len(Statements[p]) =>
              /\ Statements[p][k + 1].op \in Tables => Statements[p][k].op \in Tables
              /\ Statements[p][k + 1].op \in Named => Statements[p][k].op \in Named
         /\ \A k \in 1..Len(Statements[p]) : \A j \in 1..k :
              /\ Statements[p][k].op \in Tables => Statements[p][j].op \in Tables
              /\ Statements[p][k].op \in Named => Statements[p][j].op \in Named
         /\ AllOfSeed(p)
         /\ LastSweep(p, Len(Statements[p]))
<1>. DEFINE A == Seed[p].sources
            B == Seed[p].objects
            P == Seed[p].properties
            D == Seed[p].documents
            I == {A[k] : k \in DOMAIN A} \cup {B[k] : k \in DOMAIN B}
                   \cup {P[k] : k \in DOMAIN P} \cup {D[k] : k \in DOMAIN D}
                   \cup {d.source : d \in Documents(p)} \cup {Null}
            Sweeps == {"sweep_properties", "sweep_source", "sweep_elsewhere",
                       "sweep_objects", "sweep_sources"}
            All == AnyOf(Tables \cup Sweeps, I)
            L == AnyOf(Sweeps \ {"sweep_source"}, {Null})
                   \cup AnyOf({"sweep_source"}, {d.source : d \in Documents(p)})
<1>1. /\ A \in Seq(I) /\ B \in Seq(I) /\ P \in Seq(I) /\ D \in Seq(I)
      /\ Len(A) \in Nat /\ Len(B) \in Nat /\ Len(P) \in Nat /\ Len(D) \in Nat
      /\ DOMAIN A = 1..Len(A) /\ DOMAIN B = 1..Len(B)
      /\ DOMAIN P = 1..Len(P) /\ DOMAIN D = 1..Len(D)
  <2>1. /\ A \in Seq({A[k] : k \in DOMAIN A}) /\ B \in Seq({B[k] : k \in DOMAIN B})
        /\ P \in Seq({P[k] : k \in DOMAIN P}) /\ D \in Seq({D[k] : k \in DOMAIN D})
    BY SeedsAreComplete
  <2>2. \A X, s : s \in Seq(X) => Len(s) \in Nat /\ DOMAIN s = 1..Len(s)
    OBVIOUS
  <2>3. \A X, s : s \in Seq(X) /\ X \subseteq I => s \in Seq(I)
    BY SeqMonotonic
  <2>4. /\ {A[k] : k \in DOMAIN A} \subseteq I /\ {B[k] : k \in DOMAIN B} \subseteq I
        /\ {P[k] : k \in DOMAIN P} \subseteq I /\ {D[k] : k \in DOMAIN D} \subseteq I
    OBVIOUS
  <2>. HIDE DEF A, B, P, D, I
  <2>5. Len(A) \in Nat /\ Len(B) \in Nat /\ Len(P) \in Nat /\ Len(D) \in Nat
    BY <2>1, <2>2
  <2>6. /\ DOMAIN A = 1..Len(A) /\ DOMAIN B = 1..Len(B)
        /\ DOMAIN P = 1..Len(P) /\ DOMAIN D = 1..Len(D)
    BY <2>1, <2>2
  <2>7. A \in Seq(I) /\ B \in Seq(I) /\ P \in Seq(I) /\ D \in Seq(I)
    BY <2>1, <2>3, <2>4
  <2>. QED  BY <2>5, <2>6, <2>7
<1>2. /\ \A k \in DOMAIN A : A[k].name \in Sources(p)
      /\ \A k \in DOMAIN B : B[k].name \in Objects(p)
      /\ \A k \in DOMAIN P : P[k] \in Properties(p)
      /\ \A k \in DOMAIN D : D[k] \in Documents(p)
      /\ \A n \in Sources(p) : \E k \in DOMAIN A : A[k].name = n
      /\ \A n \in Objects(p) : \E k \in DOMAIN B : B[k].name = n
  BY DEF Sources, Objects, Properties, Documents
<1>. DEFINE a == Len(A)
            b == a + Len(B)
            c == b + Len(P)
            d == c + Len(D)
            J1 == Each("sources", A) \o Each("objects", B)
            J2 == J1 \o Each("object_properties", P)
            J3 == J2 \o Each("documents", D)
            J4 == J3 \o Once("sweep_properties")
            J5 == J4 \o Each("sweep_source", DocumentSources(p))
            J6 == J5 \o Once("sweep_elsewhere")
            J7 == J6 \o Once("sweep_objects")
            J8 == J7 \o Once("sweep_sources")
            Starts(s, X, op, from) ==
              \A k \in 1..Len(X) : /\ s[from + k].op = op
                                   /\ s[from + k].item = X[k]
<1>3. Statements[p] = J8
  BY DEF Statements
<1>4. /\ L \subseteq All
      /\ \A st \in L : /\ st.op \in Sweeps
                       /\ st.op = "sweep_source" =>
                            st.item \in {e.source : e \in Documents(p)}
  <2>1. {Null} \subseteq I /\ {e.source : e \in Documents(p)} \subseteq I
    OBVIOUS
  <2>2. Null \in {Null} /\ "sweep_source" \in Sweeps
    OBVIOUS
  <2>. HIDE DEF I
  <2>. QED  BY <2>1, <2>2 DEF AnyOf
<1>5. /\ Once("sweep_properties") \in Seq(L)
      /\ Once("sweep_elsewhere") \in Seq(L)
      /\ Once("sweep_objects") \in Seq(L)
      /\ Once("sweep_sources") \in Seq(L)
      /\ Each("sweep_source", DocumentSources(p)) \in Seq(L)
  <2>. DEFINE X == {e.source : e \in Documents(p)}
              L1 == AnyOf(Sweeps \ {"sweep_source"}, {Null})
              L2 == AnyOf({"sweep_source"}, X)
  <2>1. Each("sweep_source", DocumentSources(p)) \in Seq(L2)
    <3>1. DocumentSources(p) \in Seq(X)
      BY DocumentSourcesAreListed
    <3>. HIDE DEF X
    <3>. QED  BY <3>1, EachStatement
  <2>2. \A op \in Sweeps \ {"sweep_source"} : Once(op) \in Seq(L1)
    BY OneStatement
  <2>3. L1 \subseteq L /\ L2 \subseteq L
    OBVIOUS
  <2>4. \A Y, s : s \in Seq(Y) /\ Y \subseteq L => s \in Seq(L)
    BY SeqMonotonic
  <2>5. {"sweep_properties", "sweep_elsewhere", "sweep_objects", "sweep_sources"}
          \subseteq Sweeps \ {"sweep_source"}
    OBVIOUS
  <2>. HIDE DEF L, L1, L2, Sweeps
  <2>. QED  BY <2>1, <2>2, <2>3, <2>4, <2>5
<1>. HIDE DEF I, L
<1>6. /\ Each("sources", A) \in Seq(All)
      /\ Len(Each("sources", A)) = a
      /\ Starts(Each("sources", A), A, "sources", 0)
  <2>. DEFINE Kinds == Tables \cup Sweeps
  <2>1. "sources" \in Kinds
    BY DEF Tables
  <2>. HIDE DEF A, Kinds
  <2>2. /\ Each("sources", A) \in Seq(AnyOf(Kinds, I))
        /\ Len(Each("sources", A)) = Len(A)
        /\ \A k \in 1..Len(A) : /\ Each("sources", A)[k].op = "sources"
                                /\ Each("sources", A)[k].item = A[k]
    <3>1. A \in Seq(I)
      BY <1>1
    <3>2. \A op \in Kinds : /\ Each(op, A) \in Seq(AnyOf(Kinds, I))
                            /\ Len(Each(op, A)) = Len(A)
      BY <3>1, EachStatement
    <3>3. \A k \in 1..Len(A) : /\ Each("sources", A)[k].op = "sources"
                              /\ Each("sources", A)[k].item = A[k]
      BY <1>1 DEF Each
    <3>. QED  BY <2>1, <3>2, <3>3, Zenon
  <2>3. \A k \in 1..Len(A) : 0 + k = k
    OBVIOUS
  <2>. QED  BY <2>2, <2>3 DEF Kinds
<1>. HIDE DEF A, B, P, D
<1>7. /\ a \in Nat /\ b \in Nat /\ c \in Nat /\ d \in Nat
      /\ a <= b /\ b <= c /\ c <= d
  BY <1>1
<1>8. /\ J3 \in Seq(All) /\ Len(J3) = d
      /\ Starts(J3, A, "sources", 0)
      /\ Starts(J3, B, "objects", a)
      /\ Starts(J3, P, "object_properties", b)
      /\ Starts(J3, D, "documents", c)
  <2>. DEFINE Kinds == Tables \cup Sweeps
  <2>0. "objects" \in Kinds /\ "object_properties" \in Kinds /\ "documents" \in Kinds
    BY DEF Tables
  <2>1. \A s, X, op : s \in Seq(AnyOf(Kinds, I)) /\ X \in Seq(I) /\ op \in Kinds =>
          /\ s \o Each(op, X) \in Seq(AnyOf(Kinds, I))
          /\ Len(s \o Each(op, X)) = Len(s) + Len(X)
          /\ \A k \in 1..Len(s) : (s \o Each(op, X))[k] = s[k]
          /\ Starts(s \o Each(op, X), X, op, Len(s))
    <3>. HIDE DEF Kinds
    <3>. QED  BY JoinedEach
  <2>. HIDE DEF Kinds
  <2>2. Each("sources", A) \in Seq(AnyOf(Kinds, I))
    BY <1>6 DEF Kinds
  <2>3. /\ J1 \in Seq(AnyOf(Kinds, I)) /\ Len(J1) = b
        /\ Starts(J1, A, "sources", 0)
        /\ Starts(J1, B, "objects", a)
    <3>1. \A k \in 1..Len(A) : 0 + k \in 1..a
      BY <1>1
    <3>2. /\ J1 \in Seq(AnyOf(Kinds, I)) /\ Len(J1) = b
          /\ \A k \in 1..a : J1[k] = Each("sources", A)[k]
          /\ Starts(J1, B, "objects", a)
      <4>1. B \in Seq(I) /\ "objects" \in Kinds
        BY <1>1, <2>0
      <4>3. /\ Each("sources", A) \o Each("objects", B) \in Seq(AnyOf(Kinds, I))
            /\ Len(Each("sources", A) \o Each("objects", B)) = Len(Each("sources", A)) + Len(B)
            /\ \A k \in 1..Len(Each("sources", A)) : (Each("sources", A) \o Each("objects", B))[k] = Each("sources", A)[k]
            /\ Starts(Each("sources", A) \o Each("objects", B), B, "objects", Len(Each("sources", A)))
        <5>. HIDE DEF Starts
        <5>. QED  BY <2>1, <2>2, <4>1, Zenon
      <4>. QED  BY <1>6, <4>3
    <3>. HIDE DEF J1, a, b
    <3>. QED  BY <1>6, <3>1, <3>2
  <2>. HIDE DEF J1
  <2>4. /\ J2 \in Seq(AnyOf(Kinds, I)) /\ Len(J2) = c
        /\ Starts(J2, A, "sources", 0)
        /\ Starts(J2, B, "objects", a)
        /\ Starts(J2, P, "object_properties", b)
    <3>1. /\ \A k \in 1..Len(A) : 0 + k \in 1..b
          /\ \A k \in 1..Len(B) : a + k \in 1..b
      BY <1>1, <1>7
    <3>. HIDE DEF b
    <3>2. /\ J2 \in Seq(AnyOf(Kinds, I)) /\ Len(J2) = c
          /\ \A k \in 1..b : J2[k] = J1[k]
          /\ Starts(J2, P, "object_properties", b)
      <4>1. P \in Seq(I) /\ "object_properties" \in Kinds
        BY <1>1, <2>0
      <4>2. J1 \in Seq(AnyOf(Kinds, I)) /\ Len(J1) = b
        BY <2>3
      <4>3. /\ J1 \o Each("object_properties", P) \in Seq(AnyOf(Kinds, I))
            /\ Len(J1 \o Each("object_properties", P)) = Len(J1) + Len(P)
            /\ \A k \in 1..Len(J1) : (J1 \o Each("object_properties", P))[k] = J1[k]
            /\ Starts(J1 \o Each("object_properties", P), P, "object_properties", Len(J1))
        <5>. HIDE DEF Starts
        <5>. QED  BY <2>1, <4>1, <4>2, Zenon
      <4>. QED  BY <4>2, <4>3
    <3>. HIDE DEF J2, a, c
    <3>. QED  BY <2>3, <3>1, <3>2
  <2>. HIDE DEF J2
  <2>5. /\ J3 \in Seq(AnyOf(Kinds, I)) /\ Len(J3) = d
        /\ Starts(J3, A, "sources", 0)
        /\ Starts(J3, B, "objects", a)
        /\ Starts(J3, P, "object_properties", b)
        /\ Starts(J3, D, "documents", c)
    <3>1. /\ \A k \in 1..Len(A) : 0 + k \in 1..c
          /\ \A k \in 1..Len(B) : a + k \in 1..c
          /\ \A k \in 1..Len(P) : b + k \in 1..c
      BY <1>1, <1>7
    <3>. HIDE DEF c
    <3>2. /\ J3 \in Seq(AnyOf(Kinds, I)) /\ Len(J3) = d
          /\ \A k \in 1..c : J3[k] = J2[k]
          /\ Starts(J3, D, "documents", c)
      <4>1. D \in Seq(I) /\ "documents" \in Kinds
        BY <1>1, <2>0
      <4>2. J2 \in Seq(AnyOf(Kinds, I)) /\ Len(J2) = c
        BY <2>4
      <4>3. /\ J2 \o Each("documents", D) \in Seq(AnyOf(Kinds, I))
            /\ Len(J2 \o Each("documents", D)) = Len(J2) + Len(D)
            /\ \A k \in 1..Len(J2) : (J2 \o Each("documents", D))[k] = J2[k]
            /\ Starts(J2 \o Each("documents", D), D, "documents", Len(J2))
        <5>. HIDE DEF Starts
        <5>. QED  BY <2>1, <4>1, <4>2, Zenon
      <4>. QED  BY <4>2, <4>3
    <3>. HIDE DEF J3, a, b, d
    <3>. QED  BY <2>4, <3>1, <3>2
  <2>. HIDE DEF J3
  <2>. QED  BY <2>5 DEF Kinds
<1>. DEFINE Kept(s) == /\ s \in Seq(All)
                       /\ d <= Len(s)
                       /\ \A k \in 1..d : s[k] = J3[k]
                       /\ \A k \in (d + 1)..Len(s) : s[k] \in L
<1>9. Kept(J8)
  <2>1. Kept(J3)
    <3>. HIDE DEF J3, d, All
    <3>. QED  BY <1>7, <1>8
  <2>2. ASSUME NEW s, Kept(s), NEW t \in Seq(L)  PROVE Kept(s \o t)
    <3>. HIDE DEF J3, d, All
    <3>1. /\ s \in Seq(All) /\ d <= Len(s) /\ d \in Nat /\ L \subseteq All
          /\ \A k \in 1..d : s[k] = J3[k]
          /\ \A k \in (d + 1)..Len(s) : s[k] \in L
      BY <1>4, <1>7, <2>2
    <3>. HIDE DEF Kept
    <3>2. /\ s \o t \in Seq(All)
          /\ d <= Len(s \o t)
          /\ \A k \in 1..d : (s \o t)[k] = s[k]
          /\ \A k \in (d + 1)..Len(s \o t) : (s \o t)[k] \in L
      BY <3>1, JoinedLate
    <3>. QED  BY <3>1, <3>2 DEF Kept
  <2>. HIDE DEF Kept, J3
  <2>3. Kept(J4)
    BY <1>5, <2>1, <2>2
  <2>. HIDE DEF J4
  <2>4. Kept(J5)
    BY <1>5, <2>2, <2>3
  <2>. HIDE DEF J5
  <2>5. Kept(J6)
    BY <1>5, <2>2, <2>4
  <2>. HIDE DEF J6
  <2>6. Kept(J7)
    BY <1>5, <2>2, <2>5
  <2>. HIDE DEF J7
  <2>. QED  BY <1>5, <2>2, <2>6
<1>10. Len(J8) \in Nat
  <2>. HIDE DEF J8, All
  <2>. QED  BY <1>9
<1>11. \A k \in 1..Len(J8) :
         /\ k <= a => J8[k].op = "sources" /\ J8[k].item.name \in Sources(p)
         /\ a < k /\ k <= b => J8[k].op = "objects" /\ J8[k].item.name \in Objects(p)
         /\ b < k /\ k <= c => J8[k].op = "object_properties" /\ J8[k].item \in Properties(p)
         /\ c < k /\ k <= d => J8[k].op = "documents" /\ J8[k].item \in Documents(p)
         /\ d < k => J8[k] \in L
  <2>. HIDE DEF J8, All, J3
  <2>. SUFFICES ASSUME NEW k \in 1..Len(J8)
                PROVE  /\ k <= a => J8[k].op = "sources" /\ J8[k].item.name \in Sources(p)
                       /\ a < k /\ k <= b => J8[k].op = "objects" /\ J8[k].item.name \in Objects(p)
                       /\ b < k /\ k <= c => J8[k].op = "object_properties" /\ J8[k].item \in Properties(p)
                       /\ c < k /\ k <= d => J8[k].op = "documents" /\ J8[k].item \in Documents(p)
                       /\ d < k => J8[k] \in L
    OBVIOUS
  <2>1. k <= d => J8[k] = J3[k]
    BY <1>7, <1>9, <1>10
  <2>2. CASE k <= a
    <3>1. k \in 1..Len(A) /\ 0 + k = k
      BY <2>2
    <3>2. J3[k].op = "sources" /\ J3[k].item = A[k]
      <4>. HIDE DEF a, b, c, d
      <4>. QED  BY <1>8, <3>1
    <3>3. A[k].name \in Sources(p)
      BY <1>1, <1>2, <3>1
    <3>. HIDE DEF a, b, c, d
    <3>. QED  BY <1>7, <2>1, <2>2, <3>2, <3>3
  <2>3. CASE a < k /\ k <= b
    <3>1. k - a \in 1..Len(B) /\ a + (k - a) = k
      BY <1>7, <2>3
    <3>2. J3[k].op = "objects" /\ J3[k].item = B[k - a]
      <4>. HIDE DEF a, b, c, d
      <4>. QED  BY <1>8, <3>1
    <3>3. B[k - a].name \in Objects(p)
      BY <1>1, <1>2, <3>1
    <3>. HIDE DEF a, b, c, d
    <3>. QED  BY <1>7, <2>1, <2>3, <3>2, <3>3
  <2>4. CASE b < k /\ k <= c
    <3>1. k - b \in 1..Len(P) /\ b + (k - b) = k
      BY <1>7, <2>4
    <3>2. J3[k].op = "object_properties" /\ J3[k].item = P[k - b]
      <4>. HIDE DEF a, b, c, d
      <4>. QED  BY <1>8, <3>1
    <3>3. P[k - b] \in Properties(p)
      BY <1>1, <1>2, <3>1
    <3>. HIDE DEF a, b, c, d
    <3>. QED  BY <1>7, <2>1, <2>4, <3>2, <3>3
  <2>5. CASE c < k /\ k <= d
    <3>1. k - c \in 1..Len(D) /\ c + (k - c) = k
      BY <1>7, <2>5
    <3>2. J3[k].op = "documents" /\ J3[k].item = D[k - c]
      <4>. HIDE DEF a, b, c, d
      <4>. QED  BY <1>8, <3>1
    <3>3. D[k - c] \in Documents(p)
      BY <1>1, <1>2, <3>1
    <3>. HIDE DEF a, b, c, d
    <3>. QED  BY <1>7, <2>1, <2>5, <3>2, <3>3
  <2>6. CASE d < k
    <3>. HIDE DEF a, b, c, d
    <3>. QED  BY <1>7, <1>9, <1>10, <2>6
  <2>. HIDE DEF a, b, c, d
  <2>. QED  BY <1>7, <2>2, <2>3, <2>4, <2>5, <2>6
<1>12. \A k \in 1..Len(J8) : J8[k].op \in Named <=> k <= b
  <2>. HIDE DEF J8, a, b, c, d
  <2>. SUFFICES ASSUME NEW k \in 1..Len(J8)
                PROVE  J8[k].op \in Named <=> k <= b
    OBVIOUS
  <2>1. d < k => J8[k].op \notin Tables /\ J8[k].op \notin Named
    BY <1>4, <1>11 DEF Tables, Named
  <2>. HIDE DEF All
  <2>. QED  BY <1>7, <1>10, <1>11, <2>1 DEF Tables, Named
<1>13. \A k \in 1..Len(J8) : J8[k].op \in Tables <=> k <= d
  <2>. HIDE DEF J8, a, b, c, d
  <2>. SUFFICES ASSUME NEW k \in 1..Len(J8)
                PROVE  J8[k].op \in Tables <=> k <= d
    OBVIOUS
  <2>1. d < k => J8[k].op \notin Tables /\ J8[k].op \notin Named
    BY <1>4, <1>11 DEF Tables, Named
  <2>. HIDE DEF All
  <2>. QED  BY <1>7, <1>10, <1>11, <2>1 DEF Tables, Named
<1>14. \A n \in Sources(p) \cup Objects(p) : \E j \in 1..b : J8[j].item.name = n
  <2>1. b <= d /\ \A k \in 1..b : J8[k] = J3[k]
    <3>. HIDE DEF J8, a, b, c, d, J3, All
    <3>. QED  BY <1>7, <1>9
  <2>2. \A n \in Sources(p) : \E j \in 1..b : J8[j].item.name = n
    <3>. SUFFICES ASSUME NEW n \in Sources(p)
                  PROVE  \E j \in 1..b : J8[j].item.name = n
      OBVIOUS
    <3>1. PICK k \in 1..Len(A) : A[k].name = n
      BY <1>1, <1>2
    <3>2. k \in 1..b /\ 0 + k = k
      BY <1>1, <1>7
    <3>3. J3[0 + k].item.name = n /\ J8[0 + k] = J3[0 + k]
      <4>. HIDE DEF J8, J3, a, b, c, d
      <4>. QED  BY <1>8, <2>1, <3>1, <3>2
    <3>. HIDE DEF J8, J3, a, b, c, d
    <3>. QED  BY <3>2, <3>3
  <2>3. \A n \in Objects(p) : \E j \in 1..b : J8[j].item.name = n
    <3>. SUFFICES ASSUME NEW n \in Objects(p)
                  PROVE  \E j \in 1..b : J8[j].item.name = n
      OBVIOUS
    <3>1. PICK k \in 1..Len(B) : B[k].name = n
      BY <1>1, <1>2
    <3>2. a + k \in 1..b
      BY <1>1, <1>7
    <3>3. J3[a + k].item.name = n /\ J8[a + k] = J3[a + k]
      <4>. HIDE DEF J8, J3, a, b, c, d
      <4>. QED  BY <1>8, <2>1, <3>1, <3>2
    <3>. HIDE DEF J8, J3, a, b, c, d
    <3>. QED  BY <3>2, <3>3
  <2>. QED  BY <2>2, <2>3
<1>. HIDE DEF J8, a, b, c, d
<1>15. \A k \in 1..Len(J8) : OfItsTable(p, J8[k])
  <2>. SUFFICES ASSUME NEW k \in 1..Len(J8)
                PROVE  OfItsTable(p, J8[k])
    OBVIOUS
  <2>1. d < k => /\ J8[k].op \in Sweeps
                 /\ J8[k].op = "sweep_source" =>
                      J8[k].item \in {e.source : e \in Documents(p)}
    BY <1>4, <1>11
  <2>. HIDE DEF All
  <2>2. CASE d < k
    BY <2>1, <2>2 DEF OfItsTable
  <2>3. CASE k <= a
    BY <1>11, <2>3 DEF OfItsTable
  <2>4. CASE a < k /\ k <= b
    BY <1>11, <2>4 DEF OfItsTable
  <2>5. CASE b < k /\ k <= c
    BY <1>11, <2>5 DEF OfItsTable
  <2>6. CASE c < k /\ k <= d
    BY <1>11, <2>6 DEF OfItsTable
  <2>. QED  BY <1>7, <1>10, <2>2, <2>3, <2>4, <2>5, <2>6
<1>16. ASSUME NEW k \in 1..Len(J8), J8[k].op \notin Named,
              NEW n \in Sources(p) \cup Objects(p)
       PROVE  \E j \in 1..(k - 1) : J8[j].op \in Named /\ J8[j].item.name = n
  <2>1. PICK j \in 1..b : J8[j].item.name = n
    BY <1>14
  <2>2. ~(k <= b)
    BY <1>12, <1>16
  <2>3. j \in 1..(k - 1) /\ j \in 1..Len(J8) /\ j <= b
    BY <1>7, <1>10, <2>2
  <2>. QED  BY <1>12, <2>1, <2>3
<1>17. ASSUME NEW k \in 1..Len(J8), k + 1 <= Len(J8)
       PROVE  /\ J8[k + 1].op \in Tables => J8[k].op \in Tables
              /\ J8[k + 1].op \in Named => J8[k].op \in Named
  <2>1. k + 1 \in 1..Len(J8)
    BY <1>10, <1>17
  <2>2. (k + 1 <= b => k <= b) /\ (k + 1 <= d => k <= d)
    BY <1>7
  <2>. QED  BY <1>12, <1>13, <2>1, <2>2
<1>18. ASSUME NEW k \in 1..Len(J8), NEW j \in 1..k
       PROVE  /\ J8[k].op \in Tables => J8[j].op \in Tables
              /\ J8[k].op \in Named => J8[j].op \in Named
  <2>1. j \in 1..Len(J8) /\ j <= k
    BY <1>10
  <2>2. (k <= b => j <= b) /\ (k <= d => j <= d)
    BY <1>7, <2>1
  <2>. QED  BY <1>12, <1>13, <2>1, <2>2
<1>19. AllOfSeed(p)
  <2>1. /\ \A k \in 1..Len(P) : b + k \in 1..d
        /\ \A k \in 1..Len(D) : c + k \in 1..d
    BY <1>1, <1>7 DEF c, d
  <2>2. \A k \in 1..d : k \in 1..Len(J8) /\ J8[k] = J3[k]
    <3>. HIDE DEF J3, All
    <3>. QED  BY <1>7, <1>9, <1>10
  <2>3. ASSUME NEW e \in Properties(p)
        PROVE  \E k \in 1..Len(J8) : J8[k].op = "object_properties" /\ J8[k].item = e
    <3>1. PICK k \in 1..Len(P) : P[k] = e
      BY <1>1 DEF Properties, P
    <3>2. J3[b + k].op = "object_properties" /\ J3[b + k].item = e
      <4>. HIDE DEF J3
      <4>. QED  BY <1>8, <3>1
    <3>. HIDE DEF J3
    <3>. QED  BY <2>1, <2>2, <3>2
  <2>4. ASSUME NEW e \in Documents(p)
        PROVE  \E k \in 1..Len(J8) : J8[k].op = "documents" /\ J8[k].item = e
    <3>1. PICK k \in 1..Len(D) : D[k] = e
      BY <1>1 DEF Documents, D
    <3>2. J3[c + k].op = "documents" /\ J3[c + k].item = e
      <4>. HIDE DEF J3
      <4>. QED  BY <1>8, <3>1
    <3>. HIDE DEF J3
    <3>. QED  BY <2>1, <2>2, <3>2
  <2>. QED  BY <1>3, <2>3, <2>4 DEF AllOfSeed
<1>20. LastSweep(p, Len(J8))
  <2>. DEFINE E == Each("sweep_source", DocumentSources(p))
              t1 == Once("sweep_properties")
              t2 == Once("sweep_elsewhere")
              t3 == Once("sweep_objects")
              t4 == Once("sweep_sources")
              l == Len(E)
              x == d + 1 + l
  <2>1. /\ t1 \in Seq(All) /\ t2 \in Seq(All) /\ t3 \in Seq(All) /\ t4 \in Seq(All)
        /\ E \in Seq(All) /\ J3 \in Seq(All) /\ Len(J3) = d
    <3>1. \A s : s \in Seq(L) => s \in Seq(All)
      BY <1>4, SeqMonotonic
    <3>. HIDE DEF All, J3, E, t1, t2, t3, t4
    <3>. QED  BY <1>5, <1>8, <3>1 DEF E, t1, t2, t3, t4
  <2>2. /\ Len(t1) = 1 /\ Len(t2) = 1 /\ Len(t3) = 1 /\ Len(t4) = 1
        /\ t1[1].op = "sweep_properties" /\ t2[1].op = "sweep_elsewhere"
        /\ t3[1].op = "sweep_objects" /\ t4[1].op = "sweep_sources"
    BY DEF Once
  <2>3. l \in Nat /\ l = Len(DocumentSources(p))
        /\ \A k \in 1..l : E[k].op = "sweep_source" /\ E[k].item = DocumentSources(p)[k]
    <3>. DEFINE X == {e.source : e \in Documents(p)}
    <3>1. DocumentSources(p) \in Seq(X)
      BY DocumentSourcesAreListed
    <3>2. PICK s : s = DocumentSources(p)
      OBVIOUS
    <3>3. Len(s) \in Nat /\ DOMAIN s = 1..Len(s)
      <4>. HIDE DEF X
      <4>. QED  BY <3>1, <3>2
    <3>4. E = [k \in 1..Len(s) |-> [op |-> "sweep_source", item |-> s[k]]]
      BY <3>2, <3>3 DEF Each
    <3>5. l = Len(s)
      <4>. HIDE DEF E
      <4>. QED  BY <3>3, <3>4
    <3>. HIDE DEF E, l
    <3>. QED  BY <3>2, <3>3, <3>4, <3>5
  <2>. HIDE DEF E, t1, t2, t3, t4, J3, All
  <2>4. /\ x \in Nat /\ Len(J8) = x + 3
        /\ \A k \in 1..d : J8[k] = J3[k]
        /\ J8[d + 1] = t1[1]
        /\ \A k \in 1..l : J8[(d + 1) + k] = E[k]
        /\ J8[x + 1] = t2[1] /\ J8[x + 2] = t3[1] /\ J8[x + 3] = t4[1]
    <3>1. J8 = Chain(J3, t1, E, t2, t3, t4)
      BY DEF Chain, J8, E, t1, t2, t3, t4
    <3>2. Chained(All, J3, t1, E, t2, t3, t4, Chain(J3, t1, E, t2, t3, t4))
      BY <2>1, <2>2, SweepsInOrder, Zenon
    <3>3. Chained(All, J3, t1, E, t2, t3, t4, J8)
      BY <3>1, <3>2
    <3>. HIDE DEF J8
    <3>. QED  BY <2>1, <3>3 DEF Chained
  <2>. HIDE DEF J8
  <2>5. d \in Nat /\ d + 1 <= x /\ (d + 1) + l = x
    BY <1>7, <2>3
  <2>6. \A k \in 1..Len(J8) :
          k <= d => J8[k].op \notin {"sweep_sources", "sweep_objects"}
    BY <1>13 DEF Tables
  <2>7. ASSUME NEW k \in 1..((x + 3) - 1)
        PROVE  /\ J8[k].op # "sweep_sources"
               /\ J8[k].op = "sweep_objects" => k = (x + 3) - 1
    <3>1. CASE k <= d
      BY <2>4, <2>6, <3>1
    <3>2. CASE k = d + 1
      BY <2>2, <2>4, <3>2
    <3>3. CASE d + 1 < k /\ k <= x
      <4>1. k - (d + 1) \in 1..l /\ (d + 1) + (k - (d + 1)) = k
        BY <2>3, <2>5, <3>3
      <4>. HIDE DEF x
      <4>. QED  BY <2>3, <2>4, <4>1
    <3>4. CASE k = x + 1
      BY <2>2, <2>4, <3>4
    <3>5. CASE k = x + 2
      <4>1. J8[k].op = "sweep_objects"
        BY <2>2, <2>4, <3>5
      <4>2. k = (x + 3) - 1
        BY <2>4, <3>5
      <4>. QED  BY <4>1, <4>2
    <3>. HIDE DEF x
    <3>. QED  BY <2>4, <2>5, <3>1, <3>2, <3>3, <3>4, <3>5
  <2>8. /\ d + 1 \in 1..((x + 3) - 1) /\ x + 1 \in 1..((x + 3) - 1)
        /\ x + 2 \in 1..((x + 3) - 1)
        /\ \A k \in 1..l : (d + 1) + k \in 1..((x + 3) - 1)
    <3>. HIDE DEF x
    <3>. QED  BY <2>3, <2>4, <2>5
  <2>9. ASSUME NEW e \in Documents(p)
        PROVE  \E k \in 1..((x + 3) - 1) : /\ J8[k].op = "sweep_source"
                                          /\ J8[k].item = e.source
    <3>1. PICK k \in 1..l : DocumentSources(p)[k] = e.source
      BY <2>3, DocumentSourcesAreAll
    <3>. HIDE DEF x
    <3>. QED  BY <2>3, <2>4, <2>8, <3>1
  <2>10. /\ x + 3 > 0 /\ J8[x + 3].op = "sweep_sources"
         /\ \A op \in {"sweep_properties", "sweep_elsewhere", "sweep_objects"} :
              \E k \in 1..((x + 3) - 1) : J8[k].op = op
    <3>. HIDE DEF x
    <3>. QED  BY <2>2, <2>4, <2>8
  <2>11. \A k \in 1..(x + 3) : J8[k].op = "sweep_objects" => k = (x + 3) - 1
    <3>1. \A k \in 1..(x + 3) : k = x + 3 \/ k \in 1..((x + 3) - 1)
      <4>. HIDE DEF x
      <4>. QED  BY <2>4
    <3>. HIDE DEF x
    <3>. QED  BY <2>7, <2>10, <3>1
  <2>. HIDE DEF x
  <2>. QED  BY <1>3, <2>4, <2>7, <2>9, <2>10, <2>11 DEF LastSweep
<1>. QED  BY <1>3, <1>10, <1>15, <1>16, <1>17, <1>18, <1>19, <1>20

-----------------------------------------------------------------------------
(* What the next row looks like. *)

\* Past the sources and objects, the job knows the ids of all of them.
LEMMA AllNamesAreKnown ==
  ASSUME NEW p \in Jobs, Naming(p), job[p].at \in 1..Len(Statements[p]),
         Statement(p).op \notin Named
  PROVE  DOMAIN job[p].ids = Sources(p) \cup Objects(p)
<1>1. ASSUME NEW n \in Sources(p) \cup Objects(p)  PROVE n \in DOMAIN job[p].ids
  <2>1. PICK j \in 1..(job[p].at - 1) : /\ Statements[p][j].op \in Named
                                        /\ Statements[p][j].item.name = n
    BY StatementOrder DEF Statement
  <2>. QED  BY <2>1 DEF Naming
<1>. QED  BY <1>1 DEF Naming

\* The objects and sources of the seed's facts and texts are in the seed,
\* and no text is missing.
LEMMA SeedIsClosed ==
  ASSUME NEW p \in Jobs
  PROVE  /\ \A e \in Properties(p) : e.object \in Objects(p) /\ e.source \in Sources(p)
         /\ \A d \in Documents(p) : d.source \in Sources(p) /\ d.content # Null
         /\ Sources(p) \cap Objects(p) = {}
<1>1. \A e \in Properties(p) : e.object \in Objects(p) /\ e.source \in Sources(p)
  BY SeedsAreComplete DEF Properties, Objects, Sources
<1>2. \A d \in Documents(p) : d.source \in Sources(p) /\ d.content # Null
  BY SeedsAreComplete DEF Documents, Sources, Null
<1>3. Sources(p) \cap Objects(p) = {}
  BY NamesAreDistinct DEF Objects, Sources
<1>. QED  BY <1>1, <1>2, <1>3

\* The row that is about to be inserted is a row of its table, one of the
\* seed, and refers only to rows whose ids the job has read.
LEMMA NextRow ==
  ASSUME NEW p \in Jobs, Naming(p), job[p].at \in 1..Len(Statements[p]),
         Statement(p).op \in Tables
  PROVE  /\ IsRow(NewRow(p))
         /\ NewRow(p).table = Statement(p).op
         /\ NewRow(p).refs \subseteq Ids(p)
         /\ OfSeed(p, NewRow(p))
         /\ Statement(p).op \in Named => NewRow(p).key = Statement(p).item.name
<1>. DEFINE st == Statement(p)
<1>0. st = Statements[p][job[p].at] /\ OfItsTable(p, st)
  BY StatementOrder DEF Statement
<1>. HIDE DEF st
<1>1. CASE st.op \in Named
  <2>1. NewRow(p) = [table |-> st.op, key |-> st.item.name, refs |-> {},
                     rest |-> st.item.rest]
    BY <1>1 DEF NewRow, Row, st
  <2>2. \/ st.op = "sources" /\ st.item.name \in Sources(p)
        \/ st.op = "objects" /\ st.item.name \in Objects(p)
    BY <1>0, <1>1 DEF OfItsTable, Named
  <2>. QED  BY <1>1, <2>1, <2>2 DEF IsRow, Row, OfSeed, st, Named, Tables
<1>2. CASE st.op = "object_properties"
  <2>. DEFINE o == job[p].ids[st.item.object]
              s == job[p].ids[st.item.source]
  <2>1. NewRow(p) = [table |-> "object_properties", key |-> <<o, st.item.property, s>>,
                     refs |-> {o, s}, rest |-> st.item.rest]
    BY <1>2 DEF NewRow, Row, st, Named
  <2>2. st.item \in Properties(p)
    BY <1>0, <1>2 DEF OfItsTable
  <2>3. o \in Ids(p) /\ s \in Ids(p)
    BY <1>2, <2>2, AllNamesAreKnown, SeedIsClosed DEF Ids, st, Named
  <2>4. /\ NewRow(p).table = "object_properties"
        /\ NewRow(p).key = <<job[p].ids[st.item.object], st.item.property,
                             job[p].ids[st.item.source]>>
        /\ NewRow(p).refs \subseteq Ids(p)
    BY <2>1, <2>3
  <2>5. OfSeed(p, NewRow(p))
    BY <2>2, <2>4 DEF OfSeed
  <2>6. IsRow(NewRow(p))
    <3>. HIDE DEF o, s
    <3>. QED  BY <2>1 DEF IsRow, Row, Named, Tables
  <2>. QED  BY <1>2, <2>4, <2>5, <2>6 DEF st, Named
<1>3. CASE st.op = "documents"
  <2>. DEFINE s == job[p].ids[st.item.source]
  <2>1. NewRow(p) = [table |-> "documents", key |-> <<st.item.content, s>>,
                     refs |-> {s}, rest |-> Null]
    BY <1>3 DEF NewRow, Row, st, Named
  <2>2. st.item \in Documents(p)
    BY <1>0, <1>3 DEF OfItsTable
  <2>3. s \in Ids(p) /\ st.item.content # Null
    BY <1>3, <2>2, AllNamesAreKnown, SeedIsClosed DEF Ids, st, Named
  <2>4. /\ NewRow(p).table = "documents"
        /\ NewRow(p).key = <<st.item.content, job[p].ids[st.item.source]>>
        /\ NewRow(p).refs \subseteq Ids(p)
    BY <2>1, <2>3
  <2>5. OfSeed(p, NewRow(p))
    BY <2>2, <2>4 DEF OfSeed
  <2>6. IsRow(NewRow(p))
    <3>. HIDE DEF s
    <3>. QED  BY <2>1, <2>3 DEF IsRow, Row, Named, Tables
  <2>. QED  BY <1>3, <2>4, <2>5, <2>6 DEF st, Named
<1>. QED  BY <1>1, <1>2, <1>3 DEF st, Tables, Named

-----------------------------------------------------------------------------
(* Steps that leave the store alone. *)

\* Ids are only ever given out.
Later == nextId' \in Nat /\ nextId <= nextId'

\* An id that was given out stays so.
LEMMA GivenGrows ==
  ASSUME Storage, Later
  PROVE  Given \subseteq Given'
<1>1. nextId \in Nat /\ nextId' \in Nat /\ nextId <= nextId'
  BY DEF Storage, Later
<1>2. \A m, n \in Nat : m <= n => 1..(m - 1) \subseteq 1..(n - 1)
  OBVIOUS
<1>. QED  BY <1>1, <1>2 DEF Given

\* The step of another job, as long as it commits nothing, changes nothing
\* for this one.
LEMMA OthersStayGood ==
  ASSUME NEW q \in Jobs, Storage, Later, Good(q),
         store' = store, tx'[q] = tx[q], job'[q] = job[q]
  PROVE  Good(q)'
<1>1. /\ View(q)' = View(q)
      /\ Inserted(q)' = Inserted(q) /\ Written(q)' = Written(q)
      /\ Changed(q)' = Changed(q) /\ Ids(q)' = Ids(q)
      /\ Statement(q)' = Statement(q)
  BY DEF View, Inserted, Written, Changed, Ids, Statement
<1>2. Given \subseteq Given'
  BY GivenGrows
<1>3. Writes(q)'
  BY <1>1, <1>2 DEF Writes, Good
<1>4. \A tables : Inserts(q, tables)' <=> Inserts(q, tables)
  BY <1>1 DEF Inserts
<1>5. Place(q)'
  <2>1. Inserts(q, Tables)' <=> Inserts(q, Tables)
    BY <1>1 DEF Inserts
  <2>. QED  BY <1>1, <1>2, <2>1 DEF Place, Good
<1>6. Naming(q)'
  BY <1>1 DEF Naming, Good
<1>7. Own(q)'
  <2>1. Inserts(q, Named)' <=> Inserts(q, Named)
    BY <1>1 DEF Inserts
  <2>2. \A row : OfSeed(q, row)' <=> OfSeed(q, row)
    BY <1>1 DEF OfSeed
  <2>. QED  BY <1>1, <2>1, <2>2 DEF Own, Good
<1>8. Backfill(q)'
  <2>1. \A i : Filled(q, i)' <=> Filled(q, i)
    BY <1>1 DEF Filled
  <2>. QED  BY <2>1 DEF Backfill, Good
<1>. QED  BY <1>3, <1>5, <1>6, <1>7, <1>8 DEF Good

\* What a job knows by name stays so when neither rows nor names change.
LEMMA NamingStays ==
  ASSUME NEW p \in Jobs, Naming(p), store' = store, tx'[p].ins = tx[p].ins,
         job'[p].ids = job[p].ids, job'[p].at = job[p].at
  PROVE  Naming(p)'
<1>1. Inserted(p)' = Inserted(p)
  BY DEF Inserted
<1>2. \A n \in DOMAIN job'[p].ids :
        /\ job'[p].ids[n] \in DOMAIN store' => Names(p, n, store'[job'[p].ids[n]])
        /\ job'[p].ids[n] \in Inserted(p)' => Names(p, n, tx'[p].ins[job'[p].ids[n]])
  BY <1>1 DEF Naming
<1>3. \A n, row : Names(p, n, row)' <=> Names(p, n, row)
  BY DEF Names
<1>4. /\ DOMAIN job'[p].ids \subseteq Sources(p) \cup Objects(p)
      /\ \A m, n \in DOMAIN job'[p].ids : job'[p].ids[m] = job'[p].ids[n] => m = n
      /\ \A k \in 1..(job'[p].at - 1) :
           Statements[p][k].op \in Named
             => Statements[p][k].item.name \in DOMAIN job'[p].ids
  BY DEF Naming
<1>. QED  BY <1>2, <1>3, <1>4 DEF Naming

\* Functions on the jobs of which a step changes the value for one.
OnlyFor(p, f, g) == /\ g = [q \in Jobs |-> g[q]]
                    /\ \A q \in Others(p) : g[q] = f[q]

\* A job that only moves on keeps the invariant if it keeps its own part
\* and has learned no id but those it sees.
LEMMA LocalStep ==
  ASSUME IInv, NEW p \in Jobs,
         UNCHANGED <<store, nextId, tx>>, OnlyFor(p, job, job'),
         (Ids(p) \cup DOMAIN job[p].fetched)'
           \subseteq Ids(p) \cup DOMAIN job[p].fetched \cup DOMAIN View(p) \cup DOMAIN store,
         job'[p].pc # "rows" => job[p].pc # "rows" \/ Orphans(View(p)) = {},
         Place(p)', Naming(p)', Own(p)', Backfill(p)'
  PROVE  IInv'
<1>1. Storage' /\ Later
  BY DEF IInv, Storage, Later, Given
<1>2. \A q \in Others(p) : Good(q)'
  BY <1>1, OthersStayGood DEF IInv, OnlyFor, Others
<1>3. Writes(p)'
  <2>1. View(p)' = View(p)
    BY DEF View
  <2>2. job'[p].pc # "rows" => Orphans(View(p)) = {}
    BY DEF IInv, Good, Writes
  <2>3. /\ Inserted(p)' = Inserted(p) /\ Written(p)' = Written(p)
        /\ Changed(p)' = Changed(p) /\ Given' = Given
    BY DEF Inserted, Written, Changed, Given
  <2>. QED  BY <2>1, <2>2, <2>3 DEF IInv, Good, Writes
<1>4. ASSUME NEW q \in Jobs, NEW r \in Others(q)
      PROVE  Apart(q, r)'
  <2>1. r \in Jobs /\ q # r /\ Apart(q, r)
    BY DEF IInv, Others
  <2>2. /\ Inserted(q)' = Inserted(q) /\ Inserted(r)' = Inserted(r)
        /\ Written(q)' = Written(q) /\ Written(r)' = Written(r)
        /\ Referred(q)' = Referred(q)
    BY DEF Inserted, Written, Referred
  <2>3. Inserted(q) \cap (Ids(r) \cup DOMAIN job[r].fetched)' = {}
    <3>1. CASE r # p
      <4>1. (Ids(r) \cup DOMAIN job[r].fetched)' = Ids(r) \cup DOMAIN job[r].fetched
        BY <2>1, <3>1 DEF OnlyFor, Others, Ids
      <4>. QED  BY <2>1, <4>1 DEF Apart
    <3>2. CASE r = p
      <4>1. Inserted(q) \cap DOMAIN View(p) = {}
        BY <2>1, <3>2 DEF View, Inserted, Apart, IInv, Good, Writes
      <4>2. Inserted(q) \cap DOMAIN store = {}
        BY DEF IInv, Good, Writes
      <4>3. Inserted(q) \cap (Ids(p) \cup DOMAIN job[p].fetched) = {}
        BY <2>1, <3>2 DEF Apart
      <4>. QED  BY <3>2, <4>1, <4>2, <4>3
    <3>. QED  BY <3>1, <3>2
  <2>. QED  BY <2>1, <2>2, <2>3 DEF Apart
<1>5. Good(p)'
  BY <1>3 DEF Good
<1>. QED  BY <1>1, <1>2, <1>4, <1>5 DEF IInv, OnlyFor, Others

\* A job that has given up its writes, or committed them, is apart from the
\* others, and the others are from one another.
LEMMA ApartWithoutWrites ==
  ASSUME IInv, NEW p \in Jobs, OnlyFor(p, tx, tx'), tx'[p] = NoWrites,
         OnlyFor(p, job, job'), Ids(p)' = Ids(p),
         job'[p].fetched = job[p].fetched
  PROVE  \A q \in Jobs : \A r \in Others(q) : Apart(q, r)'
<1>. SUFFICES ASSUME NEW q \in Jobs, NEW r \in Others(q)
              PROVE  Apart(q, r)'
  OBVIOUS
<1>1. /\ Inserted(p)' = {} /\ tx'[p].del = {}
      /\ Written(p)' = {} /\ Referred(p)' = {}
  BY DEF Inserted, Written, Referred, NoWrites, Empty
<1>2. r \in Jobs /\ q # r /\ Apart(q, r)
  BY DEF IInv, Others
<1>3. ASSUME NEW u \in Jobs, u # p
      PROVE  /\ Inserted(u)' = Inserted(u) /\ Written(u)' = Written(u)
             /\ Referred(u)' = Referred(u) /\ Ids(u)' = Ids(u)
             /\ tx'[u] = tx[u] /\ job'[u].fetched = job[u].fetched
  BY <1>3 DEF OnlyFor, Others, Inserted, Written, Referred, Ids
<1>4. CASE q = p
  BY <1>1, <1>4 DEF Apart
<1>5. CASE r = p
  BY <1>1, <1>2, <1>3, <1>5 DEF Apart
<1>6. CASE q # p /\ r # p
  BY <1>2, <1>3, <1>6 DEF Apart
<1>. QED  BY <1>4, <1>5, <1>6

\* A job that fails gives up its writes and keeps what it has read.
LEMMA FailKeeps ==
  ASSUME IInv, NEW p \in Jobs, Fail(p)
  PROVE  IInv'
<1>1. /\ store' = store /\ nextId' = nextId
      /\ OnlyFor(p, tx, tx') /\ tx'[p] = NoWrites
      /\ OnlyFor(p, job, job')
      /\ job'[p] = [pc |-> "failed", at |-> job[p].at, ids |-> job[p].ids,
                    todo |-> job[p].todo, fetched |-> job[p].fetched]
  <2>1. job[p] = [pc |-> job[p].pc, at |-> job[p].at, ids |-> job[p].ids,
                  todo |-> job[p].todo, fetched |-> job[p].fetched]
    BY DEF IInv, Good, Place
  <2>2. store' = store /\ nextId' = nextId
    BY DEF Fail
  <2>3. OnlyFor(p, tx, tx') /\ tx'[p] = NoWrites
    <3>. HIDE DEF NoWrites
    <3>. QED  BY DEF IInv, Fail, OnlyFor, Others
  <2>4. OnlyFor(p, job, job')
    BY DEF IInv, Fail, OnlyFor, Others
  <2>5. job'[p] = [job[p] EXCEPT !.pc = "failed"]
    BY DEF IInv, Fail
  <2>. QED  BY <2>1, <2>2, <2>3, <2>4, <2>5
<1>2. Storage' /\ Later
  BY <1>1 DEF IInv, Storage, Later, Given
<1>3. \A q \in Others(p) : Good(q)'
  BY <1>1, <1>2, OthersStayGood DEF IInv, OnlyFor, Others
<1>4. /\ Inserted(p)' = {} /\ Changed(p)' = {} /\ tx'[p].del = {}
      /\ Written(p)' = {} /\ Referred(p)' = {} /\ Given' = Given
      /\ Ids(p)' = Ids(p)
  BY <1>1 DEF Inserted, Changed, Written, Referred, Given, Ids, NoWrites, Empty
<1>5. View(p)' = store
  BY <1>1, <1>4 DEF View, Inserted, IInv
<1>6. Writes(p)'
  <2>1. tx'[p] = [ins |-> tx'[p].ins, del |-> tx'[p].del, upd |-> tx'[p].upd]
    BY <1>1 DEF NoWrites
  <2>. QED  BY <1>1, <1>4, <1>5, <2>1 DEF Writes, IInv, Storage
<1>7. Place(p)'
  <2>1. Place(p)
    BY DEF IInv, Good
  <2>2. /\ job'[p].pc = "failed" /\ job'[p].at = job[p].at
        /\ job'[p].todo = job[p].todo /\ job'[p].fetched = job[p].fetched
        /\ job'[p] = [pc |-> job'[p].pc, at |-> job'[p].at, ids |-> job'[p].ids,
                      todo |-> job'[p].todo, fetched |-> job'[p].fetched]
    BY <1>1
  <2>3. ~Inserts(p, Tables)'
    BY <2>2 DEF Inserts
  <2>. QED  BY <1>1, <1>4, <2>1, <2>2, <2>3 DEF Place, Phases, Ingesting, Filling
<1>8. Naming(p)'
  BY <1>1, <1>4 DEF Naming, IInv, Good
<1>9. Own(p)'
  <2>1. ~Inserts(p, Named)' /\ job'[p].pc # "rows"
    BY <1>1 DEF Inserts
  <2>. QED  BY <1>4, <2>1 DEF Own
<1>10. Backfill(p)'
  BY <1>1, <1>4 DEF Backfill, IInv, Good, Filling
<1>11. \A q \in Jobs : \A r \in Others(q) : Apart(q, r)'
  BY <1>1, <1>4, ApartWithoutWrites
<1>. QED  BY <1>1, <1>2, <1>3, <1>6, <1>7, <1>8, <1>9, <1>10, <1>11
          DEF IInv, OnlyFor, Others, Good

\* Where a job is after a step that moves only this job on.
Moved(p, pc, at, ids, todo, fetched) ==
  /\ OnlyFor(p, job, job')
  /\ job'[p] = [pc |-> pc, at |-> at, ids |-> ids, todo |-> todo,
                fetched |-> fetched]

\* The parts of where the job is then.
LEMMA MovedFields ==
  ASSUME NEW p, NEW pc, NEW at, NEW ids, NEW todo, NEW fetched,
         Moved(p, pc, at, ids, todo, fetched)
  PROVE  /\ job'[p].pc = pc /\ job'[p].at = at /\ job'[p].ids = ids
         /\ job'[p].todo = todo /\ job'[p].fetched = fetched
         /\ job'[p] = [pc |-> job'[p].pc, at |-> job'[p].at, ids |-> job'[p].ids,
                       todo |-> job'[p].todo, fetched |-> job'[p].fetched]
BY DEF Moved

\* A job starts.
LEMMA StartKeeps ==
  ASSUME IInv, NEW p \in Jobs, Start(p)
  PROVE  IInv'
<1>1. /\ job[p] = [pc |-> "idle", at |-> job[p].at, ids |-> job[p].ids,
                   todo |-> job[p].todo, fetched |-> job[p].fetched]
      /\ UNCHANGED <<store, nextId, tx>>
  BY DEF IInv, Good, Place, Start
<1>2. Moved(p, "statement", job[p].at, job[p].ids, job[p].todo, job[p].fetched)
  BY <1>1 DEF IInv, Start, Moved, OnlyFor, Others
<1>3. /\ Inserted(p)' = Inserted(p) /\ Changed(p)' = Changed(p)
      /\ Ids(p)' = Ids(p) /\ Given' = Given /\ Statement(p)' = Statement(p)
  BY <1>1, <1>2 DEF Inserted, Changed, Ids, Given, Statement, Moved
<1>4. Inserted(p) = {} /\ tx[p].del = {} /\ Changed(p) = {}
  <2>1. Place(p) /\ job[p].pc = "idle"
    BY <1>1 DEF IInv, Good
  <2>. QED  BY <2>1 DEF Place, Ingesting, Filling
<1>5. Place(p)'
  <2>1. Place(p)
    BY DEF IInv, Good
  <2>2. /\ job'[p].pc = "statement" /\ job'[p].at = job[p].at
        /\ job'[p].todo = job[p].todo /\ job'[p].fetched = job[p].fetched
        /\ job'[p] = [pc |-> job'[p].pc, at |-> job'[p].at, ids |-> job'[p].ids,
                      todo |-> job'[p].todo, fetched |-> job'[p].fetched]
        /\ tx'[p].del = {}
    BY <1>1, <1>2, <1>4 DEF Moved
  <2>. QED  BY <1>3, <1>4, <2>1, <2>2 DEF Place, Phases, Ingesting, Filling
<1>6. Naming(p)'
  BY <1>1, <1>2, <1>3 DEF Moved, Naming, IInv, Good
<1>7. Own(p)'
  BY <1>1, <1>2, <1>3, <1>4 DEF Moved, Own, IInv, Good
<1>8. Backfill(p)'
  BY <1>1, <1>2, <1>3 DEF Moved, Backfill, IInv, Good, Filling
<1>. QED  BY <1>1, <1>2, <1>3, <1>5, <1>6, <1>7, <1>8, LocalStep DEF Moved

-----------------------------------------------------------------------------
(* The statements: moving on, reading an id, beginning a sweep. *)

\* A statement that brings no id is followed by the next one.
LEMMA AdvanceKeeps ==
  ASSUME IInv, NEW p \in Jobs, UNCHANGED <<store, nextId, tx>>,
         job[p].pc \in {"statement", "rows"}, job[p].at <= Len(Statements[p]),
         Statement(p).op \notin Named,
         Statement(p).op \in Tables => tx[p].del = {},
         job[p].pc = "rows" => Orphans(View(p)) = {},
         NextStatement(p, 0)
  PROVE  IInv'
<1>0. Place(p) /\ Naming(p) /\ Own(p) /\ Backfill(p)
  BY DEF IInv, Good
<1>1. Moved(p, "statement", job[p].at + 1, job[p].ids, job[p].todo, job[p].fetched)
  <2>1. job[p] = [pc |-> job[p].pc, at |-> job[p].at, ids |-> job[p].ids,
                  todo |-> job[p].todo, fetched |-> job[p].fetched]
    BY <1>0 DEF Place
  <2>2. job' = [job EXCEPT ![p].pc = "statement", ![p].at = @ + 1,
                           ![p].ids = job[p].ids]
    BY DEF NextStatement
  <2>. QED  BY <2>1, <2>2 DEF IInv, Moved, OnlyFor, Others
<1>2. /\ Inserted(p)' = Inserted(p) /\ Changed(p)' = Changed(p)
      /\ Ids(p)' = Ids(p) /\ Given' = Given
  BY <1>1 DEF Inserted, Changed, Ids, Given, Moved
<1>3. job[p].at \in 1..Len(Statements[p]) /\ Len(Statements[p]) \in Nat
  <2>1. Len(Statements[p]) \in Nat
    BY StatementOrder
  <2>2. job[p].at \in 1..(Len(Statements[p]) + 1)
    BY <1>0 DEF Place
  <2>. QED  BY <2>1, <2>2
<1>4. job'[p].at <= Len(Statements[p]) =>
         /\ Statement(p)'.op \in Tables => Statement(p).op \in Tables
         /\ Statement(p)'.op \notin Named
  <2>1. job'[p].at = job[p].at + 1
    BY <1>1 DEF Moved
  <2>. QED  BY <1>3, <2>1, StatementOrder DEF Statement
<1>5. /\ job'[p].pc = "statement" /\ job'[p].at = job[p].at + 1
      /\ job'[p].ids = job[p].ids
      /\ job'[p].todo = job[p].todo /\ job'[p].fetched = job[p].fetched
      /\ job'[p] = [pc |-> job'[p].pc, at |-> job'[p].at, ids |-> job'[p].ids,
                    todo |-> job'[p].todo, fetched |-> job'[p].fetched]
  BY <1>1, MovedFields
<1>6. Place(p)'
  <2>1. Inserts(p, Tables)' => tx'[p].del = {}
    BY <1>4 DEF Inserts
  <2>2. job'[p].at \in 1..(Len(Statements[p]) + 1)
    BY <1>3, <1>5
  <2>. QED  BY <1>0, <1>2, <1>5, <2>1, <2>2 DEF Place, Phases, Ingesting, Filling
<1>7. Naming(p)'
  <2>1. ASSUME NEW k \in 1..(job'[p].at - 1), Statements[p][k].op \in Named
        PROVE  Statements[p][k].item.name \in DOMAIN job'[p].ids
    <3>1. k # job[p].at
      BY <2>1 DEF Statement
    <3>2. k \in 1..(job[p].at - 1)
      BY <1>3, <1>5, <3>1
    <3>. QED  BY <1>0, <1>5, <2>1, <3>2 DEF Naming
  <2>. QED  BY <1>0, <1>2, <1>5, <2>1 DEF Naming
<1>8. Own(p)'
  <2>1. ~Inserts(p, Named)'
    BY <1>4 DEF Inserts
  <2>2. \A row : OfSeed(p, row)' <=> OfSeed(p, row)
    BY <1>2, <1>5 DEF OfSeed
  <2>. QED  BY <1>0, <1>2, <1>5, <2>1, <2>2 DEF Own
<1>9. Backfill(p)'
  BY <1>0, <1>5 DEF Backfill, Filling
<1>. QED  BY <1>1, <1>2, <1>5, <1>6, <1>7, <1>8, <1>9, LocalStep DEF Moved

\* A deletion is over when no reference hangs in the air.
LEMMA EndDeleteKeeps ==
  ASSUME IInv, NEW p \in Jobs, EndDelete(p)
  PROVE  IInv'
<1>1. job[p].pc = "rows" /\ Place(p)
  BY DEF EndDelete, IInv, Good
<1>2. job[p].at <= Len(Statements[p]) /\ Statement(p).op \notin Tables
  BY <1>1 DEF Place
<1>3. Statement(p).op \notin Named
  BY <1>2 DEF Named, Tables
<1>. QED  BY <1>1, <1>2, <1>3, AdvanceKeeps DEF EndDelete

\* The row is there: a source or an object is then looked up.
LEMMA KeepRowKeeps ==
  ASSUME IInv, NEW p \in Jobs, KeepRow(p)
  PROVE  IInv'
<1>0. Place(p) /\ Naming(p) /\ Own(p) /\ Backfill(p)
  BY DEF IInv, Good
<1>1. /\ job[p].pc = "statement" /\ job[p].at <= Len(Statements[p])
      /\ Statement(p).op \in Tables /\ UNCHANGED <<store, nextId, tx>>
  BY DEF KeepRow, Upserting, AtStatement
<1>2. Inserts(p, Tables) /\ tx[p].del = {}
  BY <1>0, <1>1 DEF Inserts, Place
<1>3. CASE Statement(p).op \notin Named
  <2>1. NextStatement(p, 0)
    BY <1>3 DEF KeepRow
  <2>. QED  BY <1>1, <1>2, <1>3, <2>1, AdvanceKeeps
<1>4. CASE Statement(p).op \in Named
  <2>1. Moved(p, "lookup", job[p].at, job[p].ids, job[p].todo, job[p].fetched)
    <3>1. job[p] = [pc |-> job[p].pc, at |-> job[p].at, ids |-> job[p].ids,
                    todo |-> job[p].todo, fetched |-> job[p].fetched]
      BY <1>0 DEF Place
    <3>2. job' = [job EXCEPT ![p].pc = "lookup"]
      BY <1>4 DEF KeepRow
    <3>. QED  BY <3>1, <3>2 DEF IInv, Moved, OnlyFor, Others
  <2>2. /\ job'[p].pc = "lookup" /\ job'[p].at = job[p].at
        /\ job'[p].ids = job[p].ids
        /\ job'[p].todo = job[p].todo /\ job'[p].fetched = job[p].fetched
        /\ job'[p] = [pc |-> job'[p].pc, at |-> job'[p].at, ids |-> job'[p].ids,
                      todo |-> job'[p].todo, fetched |-> job'[p].fetched]
    BY <2>1, MovedFields
  <2>3. /\ Inserted(p)' = Inserted(p) /\ Changed(p)' = Changed(p)
        /\ Ids(p)' = Ids(p) /\ Given' = Given /\ Statement(p)' = Statement(p)
    BY <1>1, <2>2 DEF Inserted, Changed, Ids, Given, Statement
  <2>4. Place(p)'
    BY <1>0, <1>1, <1>2, <1>4, <2>2, <2>3 DEF Place, Phases, Ingesting, Filling
  <2>5. Naming(p)'
    BY <1>0, <1>1, <2>2, <2>3 DEF Naming
  <2>6. Own(p)'
    <3>1. \A row : OfSeed(p, row)' <=> OfSeed(p, row)
      BY <2>2, <2>3 DEF OfSeed
    <3>2. Inserts(p, Named)
      BY <1>1, <1>4 DEF Inserts
    <3>. QED  BY <1>0, <1>1, <2>2, <2>3, <3>1, <3>2 DEF Own
  <2>7. Backfill(p)'
    BY <1>0, <1>1, <2>2 DEF Backfill, Filling
  <2>. QED  BY <1>1, <2>1, <2>2, <2>3, <2>4, <2>5, <2>6, <2>7, LocalStep DEF Moved
<1>. QED  BY <1>3, <1>4

\* The components of a pair.
LEMMA Parts ==
  ASSUME NEW x, NEW y, NEW t, t = <<x, y>>
  PROVE  t[1] = x /\ t[2] = y
OBVIOUS

\* A row in the view is what the store or the job has.
LEMMA Seen ==
  ASSUME NEW p \in Jobs, NEW i \in DOMAIN View(p)
  PROVE  /\ i \in DOMAIN store \cup Inserted(p)
         /\ i \notin tx[p].del
         /\ i \in Inserted(p) => View(p)[i] = tx[p].ins[i]
         /\ i \notin Inserted(p) => View(p)[i] = store[i]
BY DEF View, Inserted

\* The id of a name is learned, that of a row that has it.
LEMMA NameLearned ==
  ASSUME NEW p \in Jobs, Naming(p), NEW n \in Sources(p) \cup Objects(p), NEW i,
         DOMAIN job'[p].ids = DOMAIN job[p].ids \cup {n}, job'[p].ids[n] = i,
         \A m \in DOMAIN job[p].ids \ {n} : job'[p].ids[m] = job[p].ids[m],
         \A m \in DOMAIN job[p].ids \ {n} : job[p].ids[m] # i
  PROVE  /\ DOMAIN job'[p].ids \subseteq Sources(p) \cup Objects(p)
         /\ \A l, m \in DOMAIN job'[p].ids : job'[p].ids[l] = job'[p].ids[m] => l = m
         /\ Ids(p)' \subseteq Ids(p) \cup {i}
BY DEF Naming, Ids

\* The table of a statement that inserts a name is that of the name.
LEMMA TableOfName ==
  ASSUME NEW p \in Jobs, job[p].at \in 1..Len(Statements[p]),
         Statement(p).op \in Named
  PROVE  LET n == Statement(p).item.name
         IN /\ n \in Sources(p) \cup Objects(p)
            /\ \A row : row.table = Statement(p).op /\ row.key = n => Names(p, n, row)
<1>. DEFINE st == Statement(p)
<1>1. OfItsTable(p, st)
  BY StatementOrder DEF Statement
<1>2. \/ st.op = "sources" /\ st.item.name \in Sources(p)
      \/ st.op = "objects" /\ st.item.name \in Objects(p)
  BY <1>1 DEF OfItsTable, Named
<1>. QED  BY <1>2, SeedIsClosed DEF Names

\* Where the next statement after a named one begins: the name is known.
LEMMA NamesGrow ==
  ASSUME NEW p \in Jobs, Naming(p), job[p].at \in Nat, job'[p].at = job[p].at + 1,
         DOMAIN job'[p].ids = DOMAIN job[p].ids \cup {Statement(p).item.name}
  PROVE  \A k \in 1..(job'[p].at - 1) :
           Statements[p][k].op \in Named
             => Statements[p][k].item.name \in DOMAIN job'[p].ids
<1>. SUFFICES ASSUME NEW k \in 1..(job'[p].at - 1), Statements[p][k].op \in Named
              PROVE  Statements[p][k].item.name \in DOMAIN job'[p].ids
  OBVIOUS
<1>1. CASE k = job[p].at
  BY <1>1 DEF Statement
<1>2. CASE k # job[p].at
  <2>1. k \in 1..(job[p].at - 1)
    BY <1>2
  <2>. QED  BY <2>1 DEF Naming
<1>. QED  BY <1>1, <1>2

\* The id that is read is that of the one row with the name.
LEMMA SelectIdKeeps ==
  ASSUME IInv, NEW p \in Jobs, SelectId(p)
  PROVE  IInv'
<1>0. Place(p) /\ Naming(p) /\ Own(p) /\ Backfill(p) /\ Writes(p)
  BY DEF IInv, Good
<1>1. job[p].pc = "lookup" /\ UNCHANGED <<store, nextId, tx>>
  BY DEF SelectId
<1>2. job[p].at \in 1..Len(Statements[p]) /\ Statement(p).op \in Named
  <2>1. Len(Statements[p]) \in Nat
    BY StatementOrder
  <2>2. /\ job[p].at \in 1..(Len(Statements[p]) + 1)
        /\ job[p].at <= Len(Statements[p])
        /\ Statement(p).op \in Named
    BY <1>0, <1>1 DEF Place
  <2>. QED  BY <2>1, <2>2
<1>. DEFINE n == Statement(p).item.name
<1>3. PICK i \in Matches(View(p), NewRow(p)) : NextStatement(p, i)
  BY DEF SelectId
<1>4. i \in DOMAIN View(p) /\ Names(p, n, View(p)[i]) /\ n \in Sources(p) \cup Objects(p)
  <2>1. NewRow(p).table = Statement(p).op /\ NewRow(p).key = n
    BY <1>0, <1>2, NextRow DEF Named, Tables
  <2>2. /\ i \in DOMAIN View(p) /\ View(p)[i].table = Statement(p).op
        /\ View(p)[i].key = n
    BY <2>1 DEF Matches
  <2>. QED  BY <1>2, <2>2, TableOfName
<1>5. Moved(p, "statement", job[p].at + 1, With(job[p].ids, n, i), job[p].todo,
            job[p].fetched)
  <2>1. job[p] = [pc |-> job[p].pc, at |-> job[p].at, ids |-> job[p].ids,
                  todo |-> job[p].todo, fetched |-> job[p].fetched]
    BY <1>0 DEF Place
  <2>2. job' = [job EXCEPT ![p].pc = "statement", ![p].at = @ + 1,
                           ![p].ids = With(job[p].ids, n, i)]
    BY <1>2, <1>3 DEF NextStatement
  <2>. HIDE DEF n
  <2>. QED  BY <2>1, <2>2 DEF IInv, Moved, OnlyFor, Others
<1>6. /\ job'[p].pc = "statement" /\ job'[p].at = job[p].at + 1
      /\ job'[p].ids = With(job[p].ids, n, i)
      /\ job'[p].todo = job[p].todo /\ job'[p].fetched = job[p].fetched
      /\ job'[p] = [pc |-> job'[p].pc, at |-> job'[p].at, ids |-> job'[p].ids,
                    todo |-> job'[p].todo, fetched |-> job'[p].fetched]
  <2>. HIDE DEF n
  <2>. QED  BY <1>5, MovedFields
<1>7. /\ DOMAIN job'[p].ids = DOMAIN job[p].ids \cup {n} /\ job'[p].ids[n] = i
      /\ \A m \in DOMAIN job[p].ids \ {n} : job'[p].ids[m] = job[p].ids[m]
  <2>1. job'[p].ids = With(job[p].ids, n, i)
    BY <1>6
  <2>. HIDE DEF n
  <2>. QED  BY <2>1 DEF With
<1>. HIDE DEF n
<1>8. \A m \in DOMAIN job[p].ids \ {n} : job[p].ids[m] # i
  <2>. SUFFICES ASSUME NEW m \in DOMAIN job[p].ids, job[p].ids[m] = i  PROVE m = n
    OBVIOUS
  <2>1. View(p)[i].key = m
    BY <1>0, <1>4, Seen DEF Naming, Names
  <2>. QED  BY <1>4, <2>1 DEF Names
<1>9. /\ DOMAIN job'[p].ids \subseteq Sources(p) \cup Objects(p)
      /\ \A l, m \in DOMAIN job'[p].ids : job'[p].ids[l] = job'[p].ids[m] => l = m
      /\ Ids(p)' \subseteq Ids(p) \cup {i}
  BY <1>0, <1>4, <1>7, <1>8, NameLearned
<1>10. /\ Inserted(p)' = Inserted(p) /\ Changed(p)' = Changed(p) /\ Given' = Given
  BY <1>1 DEF Inserted, Changed, Given
<1>11. tx[p].del = {} /\ \A j \in Inserted(p) : tx[p].ins[j].table \in Named
  <2>1. Inserts(p, Tables) /\ Inserts(p, Named)
    BY <1>1, <1>2 DEF Inserts, Tables, Named
  <2>. QED  BY <1>0, <2>1 DEF Place, Own
<1>12. Place(p)'
  <2>1. job'[p].at \in 1..(Len(Statements[p]) + 1)
    <3>1. Len(Statements[p]) \in Nat
      BY StatementOrder
    <3>. QED  BY <1>2, <1>6, <3>1
  <2>2. i \in Given
    BY <1>0, <1>4, Seen DEF Writes, IInv, Storage
  <2>. QED  BY <1>0, <1>1, <1>6, <1>9, <1>10, <1>11, <2>1, <2>2
            DEF Place, Phases, Ingesting, Filling
<1>13. Naming(p)'
  <2>1. ASSUME NEW m \in DOMAIN job'[p].ids
        PROVE  /\ job'[p].ids[m] \in DOMAIN store => Names(p, m, store[job'[p].ids[m]])
               /\ job'[p].ids[m] \in Inserted(p) => Names(p, m, tx[p].ins[job'[p].ids[m]])
    <3>1. CASE m = n
      <4>1. i \in Inserted(p) => i \notin DOMAIN store
        BY <1>0 DEF Writes
      <4>. QED  BY <1>4, <1>7, <3>1, <4>1, Seen
    <3>2. CASE m # n
      BY <1>0, <1>7, <3>2 DEF Naming
    <3>. QED  BY <3>1, <3>2
  <2>2. \A k \in 1..(job'[p].at - 1) : Statements[p][k].op \in Named
          => Statements[p][k].item.name \in DOMAIN job'[p].ids
    BY <1>0, <1>2, <1>6, <1>7, NamesGrow DEF n
  <2>. QED  BY <1>1, <1>9, <1>10, <2>1, <2>2 DEF Naming, Names
<1>14. Own(p)'
  <2>1. ASSUME NEW j \in Inserted(p)  PROVE OfSeed(p, tx[p].ins[j])'
    BY <1>0, <1>1, <1>11 DEF Own, OfSeed, Named
  <2>. QED  BY <1>1, <1>6, <1>10, <1>11, <2>1 DEF Own
<1>15. Backfill(p)'
  BY <1>0, <1>1, <1>6 DEF Backfill, Filling
<1>. QED  BY <1>1, <1>4, <1>5, <1>6, <1>9, <1>12, <1>13, <1>14, <1>15, LocalStep
          DEF Moved

\* What the job has inserted, and what it knows by an id, is of its seed.
LEMMA OwnRowsInView ==
  ASSUME NEW p \in Jobs, Good(p), NEW i \in DOMAIN View(p),
         i \in Inserted(p) \cup Ids(p)
  PROVE  OfSeed(p, View(p)[i])
<1>1. CASE i \in Inserted(p)
  BY <1>1, Seen DEF Good, Own
<1>2. CASE i \in Ids(p)
  <2>1. PICK n \in DOMAIN job[p].ids : i = job[p].ids[n]
    BY <1>2 DEF Ids
  <2>2. Names(p, n, View(p)[i]) /\ n \in Sources(p) \cup Objects(p)
    BY <2>1, Seen DEF Good, Naming
  <2>. QED  BY <2>2 DEF Names, OfSeed
<1>. QED  BY <1>1, <1>2

\* A sweep takes rows that the job sees and that are not of its seed.
LEMMA SweepsSpareTheSeed ==
  ASSUME NEW p \in Jobs, Good(p), job[p].at \in 1..Len(Statements[p]),
         Statement(p).op \notin Named, NEW stale,
         \/ stale = StaleProperties(p)
         \/ Statement(p).op = "sweep_source" /\ stale = StaleDocuments(p, Statement(p).item)
         \/ stale = DocumentsElsewhere(p)
         \/ stale = StaleObjects(p)
         \/ stale = StaleSources(p)
  PROVE  stale \subseteq DOMAIN View(p) /\ stale \cap (Inserted(p) \cup Ids(p)) = {}
<1>1. stale \subseteq DOMAIN View(p)
  BY DEF StaleProperties, StaleDocuments, DocumentsElsewhere, StaleObjects,
         StaleSources, In
<1>2. \A i \in stale : ~OfSeed(p, View(p)[i])
  <2>. SUFFICES ASSUME NEW i \in stale, OfSeed(p, View(p)[i])  PROVE FALSE
    OBVIOUS
  <2>. DEFINE row == View(p)[i]
              id == job[p].ids
  <2>1. CASE stale = StaleProperties(p)
    <3>1. /\ row.table = "object_properties"
          /\ ~ \E e \in Properties(p) :
                 row.key = <<id[e.object], e.property, id[e.source]>>
      BY <2>1 DEF StaleProperties, In
    <3>. QED  BY <3>1 DEF OfSeed
  <2>2. CASE /\ Statement(p).op = "sweep_source"
             /\ stale = StaleDocuments(p, Statement(p).item)
    <3>. DEFINE s == Statement(p).item
    <3>1. PICK e \in Documents(p) : s = e.source
      <4>1. OfItsTable(p, Statement(p))
        BY StatementOrder DEF Statement
      <4>. QED  BY <2>2, <4>1 DEF OfItsTable
    <3>2. /\ row.table = "documents" /\ row.key[2] = id[s]
          /\ \A d \in Documents(p) : d.source = s => d.content # row.key[1]
      BY <2>2 DEF StaleDocuments, In
    <3>3. PICK d \in Documents(p) : row.key = <<d.content, id[d.source]>>
      BY <3>2 DEF OfSeed
    <3>4. row.key[1] = d.content /\ row.key[2] = id[d.source]
      <4>. DEFINE x == d.content
                  y == id[d.source]
                  t == row.key
      <4>1. t = <<x, y>>
        BY <3>3
      <4>. HIDE DEF x, y, t
      <4>2. t[1] = x /\ t[2] = y
        BY <4>1, Parts
      <4>. QED  BY <4>2 DEF x, y, t
    <3>5. d.source \in DOMAIN id /\ s \in DOMAIN id
      BY <3>1, SeedIsClosed, AllNamesAreKnown DEF Good
    <3>6. d.source = s
      BY <3>2, <3>4, <3>5 DEF Good, Naming
    <3>. QED  BY <3>2, <3>4, <3>6
  <2>3. CASE stale = DocumentsElsewhere(p)
    <3>1. /\ row.table = "documents"
          /\ \A d \in Documents(p) : row.key[2] # id[d.source]
      BY <2>3 DEF DocumentsElsewhere, In
    <3>2. PICK d \in Documents(p) : row.key = <<d.content, id[d.source]>>
      BY <3>1 DEF OfSeed
    <3>3. row.key[2] = id[d.source]
      <4>. DEFINE x == d.content
                  y == id[d.source]
                  t == row.key
      <4>1. t = <<x, y>>
        BY <3>2
      <4>. HIDE DEF x, y, t
      <4>2. t[2] = y
        BY <4>1, Parts
      <4>. QED  BY <4>2 DEF y, t
    <3>. QED  BY <3>1, <3>3
  <2>4. CASE stale = StaleObjects(p)
    BY <2>4 DEF StaleObjects, In, OfSeed
  <2>5. CASE stale = StaleSources(p)
    BY <2>5 DEF StaleSources, In, OfSeed
  <2>. QED  BY <2>1, <2>2, <2>3, <2>4, <2>5
<1>. QED  BY <1>1, <1>2, OwnRowsInView

\* A job begins to delete, or goes on with the rows that hang on others.
LEMMA SweepKeeps ==
  ASSUME IInv, NEW p \in Jobs, UNCHANGED <<store, nextId, tx>>,
         job[p].pc \in {"statement", "rows"}, job[p].at <= Len(Statements[p]),
         Statement(p).op \notin Tables, NEW stale,
         stale \subseteq DOMAIN View(p), stale \cap (Inserted(p) \cup Ids(p)) = {},
         Moved(p, "rows", job[p].at, job[p].ids, stale, job[p].fetched)
  PROVE  IInv'
<1>0. Place(p) /\ Naming(p) /\ Own(p) /\ Backfill(p) /\ Writes(p)
  BY DEF IInv, Good
<1>1. /\ job'[p].pc = "rows" /\ job'[p].at = job[p].at
      /\ job'[p].ids = job[p].ids
      /\ job'[p].todo = stale /\ job'[p].fetched = job[p].fetched
      /\ job'[p] = [pc |-> job'[p].pc, at |-> job'[p].at, ids |-> job'[p].ids,
                    todo |-> job'[p].todo, fetched |-> job'[p].fetched]
  BY MovedFields
<1>2. /\ Inserted(p)' = Inserted(p) /\ Changed(p)' = Changed(p)
      /\ Ids(p)' = Ids(p) /\ Given' = Given /\ Statement(p)' = Statement(p)
  BY <1>1 DEF Inserted, Changed, Ids, Given, Statement
<1>3. stale \subseteq Given
  BY <1>0, Seen DEF Writes, IInv, Storage
<1>4. Place(p)'
  <2>1. ~Inserts(p, Tables)'
    BY <1>1 DEF Inserts
  <2>. QED  BY <1>0, <1>1, <1>2, <1>3, <2>1 DEF Place, Phases, Ingesting, Filling
<1>5. Naming(p)'
  BY <1>0, <1>1, <1>2 DEF Naming
<1>6. Own(p)'
  <2>1. ~Inserts(p, Named)'
    BY <1>1 DEF Inserts
  <2>2. \A row : OfSeed(p, row)' <=> OfSeed(p, row)
    BY <1>1, <1>2 DEF OfSeed
  <2>. QED  BY <1>0, <1>1, <1>2, <2>1, <2>2 DEF Own
<1>7. Backfill(p)'
  BY <1>0, <1>1 DEF Backfill, Filling
<1>. QED  BY <1>1, <1>2, <1>4, <1>5, <1>6, <1>7, LocalStep DEF Moved

\* A deletion takes rows that are not of the job's seed.
LEMMA BeginDeleteKeeps ==
  ASSUME IInv, NEW p \in Jobs, BeginDelete(p)
  PROVE  IInv'
<1>0. Place(p) /\ Good(p)
  BY DEF IInv, Good
<1>1. /\ job[p].pc = "statement" /\ job[p].at <= Len(Statements[p])
      /\ UNCHANGED <<store, nextId, tx>>
  BY DEF BeginDelete, AtStatement
<1>2. job[p].at \in 1..Len(Statements[p])
  <2>1. Len(Statements[p]) \in Nat
    BY StatementOrder
  <2>2. job[p].at \in 1..(Len(Statements[p]) + 1)
    BY <1>0 DEF Place
  <2>. QED  BY <1>1, <2>1, <2>2
<1>3. PICK stale :
        /\ job' = [job EXCEPT ![p].pc = "rows", ![p].todo = stale]
        /\ \/ /\ Statement(p).op = "sweep_properties"
              /\ stale = StaleProperties(p)
           \/ /\ Statement(p).op = "sweep_source"
              /\ stale = StaleDocuments(p, Statement(p).item)
           \/ /\ Statement(p).op = "sweep_elsewhere"
              /\ stale = DocumentsElsewhere(p)
           \/ Statement(p).op = "sweep_objects" /\ stale = StaleObjects(p)
           \/ Statement(p).op = "sweep_sources" /\ stale = StaleSources(p)
  BY DEF BeginDelete, Sweep
<1>4. Statement(p).op \notin Tables /\ Statement(p).op \notin Named
  BY <1>3 DEF Tables, Named
<1>5. stale \subseteq DOMAIN View(p) /\ stale \cap (Inserted(p) \cup Ids(p)) = {}
  BY <1>0, <1>2, <1>3, <1>4, SweepsSpareTheSeed
<1>6. Moved(p, "rows", job[p].at, job[p].ids, stale, job[p].fetched)
  <2>1. job[p] = [pc |-> job[p].pc, at |-> job[p].at, ids |-> job[p].ids,
                  todo |-> job[p].todo, fetched |-> job[p].fetched]
    BY <1>0 DEF Place
  <2>2. job' = [job EXCEPT ![p].pc = "rows", ![p].todo = stale]
    BY <1>3
  <2>. QED  BY <2>1, <2>2 DEF IInv, Moved, OnlyFor, Others
<1>. QED  BY <1>1, <1>4, <1>5, <1>6, SweepKeeps

\* What the job has inserted refers to rows that are there, and what it
\* knows by an id refers to nothing: neither falls with a deleted parent.
LEMMA CascadeKeeps ==
  ASSUME IInv, NEW p \in Jobs, Cascade(p)
  PROVE  IInv'
<1>0. Place(p) /\ Good(p) /\ Writes(p) /\ Naming(p)
  BY DEF IInv, Good
<1>1. /\ job[p].pc = "rows" /\ UNCHANGED <<store, nextId, tx>>
      /\ job' = [job EXCEPT ![p].todo = Orphans(View(p))]
  BY DEF Cascade
<1>2. job[p].at <= Len(Statements[p]) /\ Statement(p).op \notin Tables
  BY <1>0, <1>1 DEF Place
<1>3. Orphans(View(p)) \subseteq DOMAIN View(p)
  BY DEF Orphans
<1>4. Orphans(View(p)) \cap (Inserted(p) \cup Ids(p)) = {}
  <2>1. ASSUME NEW i \in Orphans(View(p)), i \in Inserted(p)  PROVE FALSE
    BY <1>0, <2>1, Seen DEF Orphans, Writes
  <2>2. ASSUME NEW i \in Orphans(View(p)), i \in Ids(p), i \notin Inserted(p)
        PROVE  FALSE
    <3>1. i \in DOMAIN View(p) /\ i \in DOMAIN store /\ View(p)[i] = store[i]
      BY <1>3, <2>2, Seen
    <3>2. PICK n \in DOMAIN job[p].ids : i = job[p].ids[n]
      BY <2>2 DEF Ids
    <3>3. store[i].table \in Named
      BY <1>0, <3>1, <3>2 DEF Naming, Names, Named
    <3>4. store[i].refs = {}
      BY <3>1, <3>3 DEF IInv, Storage, IsRow
    <3>. QED  BY <3>1, <3>4 DEF Orphans
  <2>. QED  BY <2>1, <2>2
<1>5. Moved(p, "rows", job[p].at, job[p].ids, Orphans(View(p)), job[p].fetched)
  <2>1. job[p] = [pc |-> "rows", at |-> job[p].at, ids |-> job[p].ids,
                  todo |-> job[p].todo, fetched |-> job[p].fetched]
    BY <1>0, <1>1 DEF Place
  <2>. QED  BY <1>1, <2>1 DEF IInv, Moved, OnlyFor, Others
<1>. QED  BY <1>1, <1>2, <1>3, <1>4, <1>5, SweepKeeps

-----------------------------------------------------------------------------
(* The backfill moves on. *)

\* The backfill notes the rows without a vector, with their texts.
LEMMA FetchRowsKeeps ==
  ASSUME IInv, NEW p \in Jobs, FetchRows(p)
  PROVE  IInv'
<1>0. Place(p) /\ Naming(p) /\ Own(p) /\ Backfill(p)
  BY DEF IInv, Good
<1>. DEFINE rows == {i \in In("documents", store) : store[i].rest = Null}
            texts == [i \in rows |-> store[i].key[1]]
<1>1. /\ job[p].pc = "fetch" /\ UNCHANGED <<store, nextId, tx>>
      /\ job' = [job EXCEPT ![p].pc = "embed", ![p].todo = rows,
                            ![p].fetched = texts]
  BY DEF FetchRows
<1>2. /\ rows \subseteq DOMAIN store /\ DOMAIN texts = rows
      /\ \A i \in rows : store[i].table = "documents" /\ texts[i] = store[i].key[1]
  BY DEF In
<1>. HIDE DEF rows, texts
<1>3. Moved(p, "embed", job[p].at, job[p].ids, rows, texts)
  <2>1. job[p] = [pc |-> job[p].pc, at |-> job[p].at, ids |-> job[p].ids,
                  todo |-> job[p].todo, fetched |-> job[p].fetched]
    BY <1>0 DEF Place
  <2>. QED  BY <1>1, <2>1 DEF IInv, Moved, OnlyFor, Others
<1>4. /\ job'[p].pc = "embed" /\ job'[p].at = job[p].at
      /\ job'[p].ids = job[p].ids
      /\ job'[p].todo = rows /\ job'[p].fetched = texts
      /\ job'[p] = [pc |-> job'[p].pc, at |-> job'[p].at, ids |-> job'[p].ids,
                    todo |-> job'[p].todo, fetched |-> job'[p].fetched]
  BY <1>3, MovedFields
<1>5. /\ Inserted(p)' = Inserted(p) /\ Changed(p)' = Changed(p)
      /\ Ids(p)' = Ids(p) /\ Given' = Given
  BY <1>1, <1>4 DEF Inserted, Changed, Ids, Given
<1>6. Inserted(p) = {} /\ tx[p].del = {}
  BY <1>0, <1>1 DEF Place, Ingesting
<1>7. Place(p)'
  <2>1. ~Inserts(p, Tables)'
    BY <1>4 DEF Inserts
  <2>2. rows \subseteq Given
    BY <1>2 DEF IInv, Storage
  <2>. QED  BY <1>0, <1>1, <1>2, <1>4, <1>5, <1>6, <2>1, <2>2
            DEF Place, Phases, Ingesting, Filling
<1>8. Naming(p)'
  BY <1>0, <1>1, <1>4, <1>5, NamingStays
<1>9. Own(p)'
  BY <1>1, <1>4, <1>5, <1>6 DEF Own
<1>10. Backfill(p)'
  BY <1>1, <1>2, <1>4 DEF Backfill, Filling
<1>. QED  BY <1>1, <1>2, <1>3, <1>4, <1>5, <1>7, <1>8, <1>9, <1>10, LocalStep
          DEF Moved

\* A vector is made; nothing is written yet.
LEMMA EmbedRowKeeps ==
  ASSUME IInv, NEW p \in Jobs, EmbedRow(p)
  PROVE  IInv'
<1>0. Place(p) /\ Naming(p) /\ Own(p) /\ Backfill(p)
  BY DEF IInv, Good
<1>1. /\ job[p].pc = "embed" /\ UNCHANGED <<store, nextId, tx>>
      /\ job[p].todo # {}
      /\ job' = [job EXCEPT ![p].pc = "update"]
  BY DEF EmbedRow
<1>2. Moved(p, "update", job[p].at, job[p].ids, job[p].todo, job[p].fetched)
  <2>1. job[p] = [pc |-> job[p].pc, at |-> job[p].at, ids |-> job[p].ids,
                  todo |-> job[p].todo, fetched |-> job[p].fetched]
    BY <1>0 DEF Place
  <2>. QED  BY <1>1, <2>1 DEF IInv, Moved, OnlyFor, Others
<1>3. /\ job'[p].pc = "update" /\ job'[p].at = job[p].at
      /\ job'[p].ids = job[p].ids
      /\ job'[p].todo = job[p].todo /\ job'[p].fetched = job[p].fetched
      /\ job'[p] = [pc |-> job'[p].pc, at |-> job'[p].at, ids |-> job'[p].ids,
                    todo |-> job'[p].todo, fetched |-> job'[p].fetched]
  BY <1>2, MovedFields
<1>4. /\ Inserted(p)' = Inserted(p) /\ Changed(p)' = Changed(p)
      /\ Ids(p)' = Ids(p) /\ Given' = Given
  BY <1>1, <1>3 DEF Inserted, Changed, Ids, Given
<1>5. Inserted(p) = {} /\ tx[p].del = {}
  BY <1>0, <1>1 DEF Place, Ingesting
<1>6. Place(p)'
  <2>1. ~Inserts(p, Tables)'
    BY <1>3 DEF Inserts
  <2>. QED  BY <1>0, <1>1, <1>3, <1>4, <1>5, <2>1
            DEF Place, Phases, Ingesting, Filling
<1>7. Naming(p)'
  BY <1>0, <1>1, <1>3, <1>4 DEF Naming
<1>8. Own(p)'
  BY <1>1, <1>3, <1>4, <1>5 DEF Own
<1>9. Backfill(p)'
  BY <1>0, <1>1, <1>3, <1>4 DEF Backfill, Filling, Filled
<1>. QED  BY <1>1, <1>2, <1>3, <1>4, <1>6, <1>7, <1>8, <1>9, LocalStep DEF Moved

-----------------------------------------------------------------------------
(* A row is inserted. *)

\* Unique keys, pair by pair.
LEMMA KeysPairwise ==
  ASSUME NEW rows
  PROVE  UniqueKeys(rows) <=>
           \A i, j \in DOMAIN rows :
             /\ rows[i].table # "documents" /\ rows[i].table = rows[j].table
             /\ rows[i].key = rows[j].key
             => i = j
<1>1. ASSUME UniqueKeys(rows), NEW i \in DOMAIN rows, NEW j \in DOMAIN rows,
             rows[i].table # "documents", rows[i].table = rows[j].table,
             rows[i].key = rows[j].key
      PROVE  i = j
  <2>1. j \in Matches(rows, rows[i]) /\ Matches(rows, rows[i]) = {i}
    BY <1>1 DEF UniqueKeys, Matches
  <2>. QED  BY <2>1
<1>2. ASSUME \A i, j \in DOMAIN rows :
               /\ rows[i].table # "documents" /\ rows[i].table = rows[j].table
               /\ rows[i].key = rows[j].key
               => i = j,
             NEW i \in DOMAIN rows, rows[i].table # "documents"
      PROVE  Matches(rows, rows[i]) = {i}
  BY <1>2 DEF Matches
<1>. QED  BY <1>1, <1>2 DEF UniqueKeys

\* A new row has a new id, a key that nobody else has or takes, and
\* refers to rows that nobody deletes.
LEMMA InsertRowKeeps ==
  ASSUME IInv, NEW p \in Jobs, InsertRow(p)
  PROVE  IInv'
<1>0. Place(p) /\ Naming(p) /\ Own(p) /\ Backfill(p) /\ Writes(p) /\ Storage
  BY DEF IInv, Good
<1>. DEFINE row == NewRow(p)
<1>1. /\ job[p].pc = "statement" /\ job[p].at <= Len(Statements[p])
      /\ Statement(p).op \in Tables /\ Blockers(p) = {}
      /\ Matches(View(p), row) = {} /\ row.refs \subseteq DOMAIN View(p)
      /\ tx' = [tx EXCEPT ![p].ins = With(@, nextId, row)]
      /\ nextId' = nextId + 1 /\ NextStatement(p, nextId) /\ store' = store
  BY DEF InsertRow, Upserting, AtStatement
<1>2. job[p].at \in 1..Len(Statements[p]) /\ Len(Statements[p]) \in Nat
  <2>1. Len(Statements[p]) \in Nat
    BY StatementOrder
  <2>2. job[p].at \in 1..(Len(Statements[p]) + 1)
    BY <1>0 DEF Place
  <2>. QED  BY <1>1, <2>1, <2>2
<1>3. /\ IsRow(row) /\ row.table = Statement(p).op /\ row.refs \subseteq Ids(p)
      /\ OfSeed(p, row)
      /\ Statement(p).op \in Named => row.key = Statement(p).item.name
  BY <1>0, <1>1, <1>2, NextRow
<1>4. nextId \in Nat /\ nextId \notin Given /\ nextId \notin DOMAIN store
  BY <1>0 DEF Storage, Given
<1>5. Storage' /\ Later /\ Given \subseteq Given' /\ nextId \in Given'
  <2>1. Later
    BY <1>1, <1>4 DEF Later
  <2>2. Given \subseteq Given'
    BY <1>0, <2>1, GivenGrows
  <2>3. nextId \in Given'
    <3>1. nextId \in Nat \ {0} /\ nextId' = nextId + 1
      BY <1>0, <1>1 DEF Storage
    <3>2. nextId \in 1..(nextId' - 1)
      BY <3>1
    <3>. QED  BY <3>2 DEF Given
  <2>. QED  BY <1>0, <1>1, <1>4, <2>1, <2>2, <2>3 DEF Storage
<1>6. \A q \in Others(p) :
        /\ \A j \in Inserted(q) : row.table # "documents" /\ tx[q].ins[j].table = row.table
                                    => tx[q].ins[j].key # row.key
        /\ row.refs \cap tx[q].del = {}
  <2>. SUFFICES ASSUME NEW q \in Others(p)
                PROVE  /\ \A j \in Inserted(q) :
                            row.table # "documents" /\ tx[q].ins[j].table = row.table
                              => tx[q].ins[j].key # row.key
                       /\ row.refs \cap tx[q].del = {}
    OBVIOUS
  <2>1. q \notin Blockers(p) /\ Upserting(p)
    BY <1>1 DEF InsertRow
  <2>2. ~Contests(q, row) /\ row.refs \cap tx[q].del = {}
    BY <1>1, <2>1 DEF Blockers
  <2>3. row.table # "documents" => Matches(tx[q].ins, row) = {}
    BY <2>2 DEF Contests
  <2>4. ASSUME NEW j \in Inserted(q), row.table # "documents",
               tx[q].ins[j].table = row.table, tx[q].ins[j].key = row.key
        PROVE  FALSE
    <3>1. j \in Matches(tx[q].ins, row)
      BY <2>4 DEF Matches, Inserted
    <3>. QED  BY <2>3, <2>4, <3>1
  <2>. QED  BY <2>2, <2>4
<1>. HIDE DEF row
<1>7. /\ OnlyFor(p, tx, tx')
      /\ tx'[p] = [ins |-> With(tx[p].ins, nextId, row), del |-> tx[p].del,
                   upd |-> tx[p].upd]
  <2>1. tx[p] = [ins |-> tx[p].ins, del |-> tx[p].del, upd |-> tx[p].upd]
    BY <1>0 DEF Writes
  <2>. QED  BY <1>1, <2>1 DEF IInv, OnlyFor, Others
<1>8. /\ Inserted(p)' = Inserted(p) \cup {nextId} /\ tx'[p].ins[nextId] = row
      /\ \A i \in Inserted(p) : tx'[p].ins[i] = tx[p].ins[i]
      /\ tx'[p].del = {} /\ tx[p].del = {}
      /\ Changed(p) = {} /\ Changed(p)' = {} /\ Written(p) = {} /\ Written(p)' = {}
  <2>1. nextId \notin Inserted(p)
    BY <1>0, <1>4 DEF Writes
  <2>2. tx'[p].ins = With(tx[p].ins, nextId, row) /\ tx'[p].del = tx[p].del
        /\ tx'[p].upd = tx[p].upd
    BY <1>7
  <2>3. tx[p].del = {} /\ Changed(p) = {}
    BY <1>0, <1>1 DEF Place, Inserts, Filling
  <2>4. /\ DOMAIN tx'[p].ins = DOMAIN tx[p].ins \cup {nextId}
        /\ tx'[p].ins[nextId] = row
        /\ \A i \in DOMAIN tx[p].ins \ {nextId} : tx'[p].ins[i] = tx[p].ins[i]
    BY <2>2 DEF With
  <2>. QED  BY <2>1, <2>2, <2>3, <2>4 DEF Inserted, Changed, Written
<1>. DEFINE n == Statement(p).item.name
            ids == IF Statement(p).op \in Named THEN With(job[p].ids, n, nextId)
                                                ELSE job[p].ids
<1>9. Moved(p, "statement", job[p].at + 1, ids, job[p].todo, job[p].fetched)
  <2>1. job[p] = [pc |-> job[p].pc, at |-> job[p].at, ids |-> job[p].ids,
                  todo |-> job[p].todo, fetched |-> job[p].fetched]
    BY <1>0 DEF Place
  <2>2. job' = [job EXCEPT ![p].pc = "statement", ![p].at = @ + 1, ![p].ids = ids]
    BY <1>1 DEF NextStatement
  <2>. HIDE DEF ids
  <2>. QED  BY <2>1, <2>2 DEF IInv, Moved, OnlyFor, Others
<1>10. /\ job'[p].pc = "statement" /\ job'[p].at = job[p].at + 1 /\ job'[p].ids = ids
       /\ job'[p].todo = job[p].todo /\ job'[p].fetched = job[p].fetched
       /\ job'[p] = [pc |-> job'[p].pc, at |-> job'[p].at, ids |-> job'[p].ids,
                     todo |-> job'[p].todo, fetched |-> job'[p].fetched]
  <2>. HIDE DEF ids
  <2>. QED  BY <1>9, MovedFields
<1>11. /\ DOMAIN View(p)' = DOMAIN View(p) \cup {nextId}
       /\ View(p)'[nextId] = row /\ nextId \notin DOMAIN View(p)
       /\ \A i \in DOMAIN View(p) : View(p)'[i] = View(p)[i]
  <2>1. /\ DOMAIN View(p) = DOMAIN store \cup Inserted(p)
        /\ DOMAIN View(p)' = DOMAIN store \cup Inserted(p)'
        /\ \A i \in DOMAIN View(p) :
             View(p)[i] = IF i \in Inserted(p) THEN tx[p].ins[i] ELSE store[i]
        /\ \A i \in DOMAIN View(p)' :
             View(p)'[i] = IF i \in Inserted(p)' THEN tx'[p].ins[i] ELSE store[i]
    BY <1>1, <1>8 DEF View, Inserted
  <2>2. nextId \notin Inserted(p)
    BY <1>0, <1>4 DEF Writes
  <2>. QED  BY <1>4, <1>8, <2>1, <2>2
<1>12. Writes(p)'
  <2>1. tx'[p] = [ins |-> tx'[p].ins, del |-> tx'[p].del, upd |-> tx'[p].upd]
    BY <1>7
  <2>2. Inserted(p)' \subseteq Given' \ DOMAIN store
    BY <1>0, <1>4, <1>5, <1>8 DEF Writes
  <2>3. \A i \in Inserted(p)' : IsRow(tx'[p].ins[i])
    BY <1>0, <1>3, <1>8 DEF Writes
  <2>4. \A i \in Inserted(p)' : tx'[p].ins[i].refs \subseteq DOMAIN View(p)'
    BY <1>0, <1>1, <1>8, <1>11 DEF Writes
  <2>5. UniqueKeys(View(p)')
    <3>1. ASSUME NEW i \in DOMAIN View(p), View(p)[i].table = row.table,
                 View(p)[i].key = row.key
          PROVE  FALSE
      <4>1. i \in Matches(View(p), row)
        BY <3>1 DEF Matches
      <4>. QED  BY <1>1, <4>1 DEF row
    <3>2. ASSUME NEW i \in DOMAIN View(p)', NEW j \in DOMAIN View(p)',
                 View(p)'[i].table # "documents",
                 View(p)'[i].table = View(p)'[j].table,
                 View(p)'[i].key = View(p)'[j].key
          PROVE  i = j
      <4>1. CASE i \in DOMAIN View(p) /\ j \in DOMAIN View(p)
        BY <1>0, <1>11, <3>2, <4>1, KeysPairwise DEF Writes
      <4>2. CASE i = nextId /\ j \in DOMAIN View(p)
        BY <1>11, <3>1, <3>2, <4>2
      <4>3. CASE i \in DOMAIN View(p) /\ j = nextId
        BY <1>11, <3>1, <3>2, <4>3
      <4>. QED  BY <1>11, <4>1, <4>2, <4>3
    <3>. QED  BY <3>2, KeysPairwise
  <2>6. Orphans(View(p)') = {}
    <3>1. ASSUME NEW i \in DOMAIN View(p)  PROVE View(p)[i].refs \subseteq DOMAIN View(p)
      <4>1. Orphans(View(p)) = {}
        BY <1>0, <1>1 DEF Writes
      <4>. QED  BY <4>1 DEF Orphans
    <3>2. ASSUME NEW i \in DOMAIN View(p)'
          PROVE  View(p)'[i].refs \subseteq DOMAIN View(p)'
      BY <1>1, <1>11, <3>1 DEF row
    <3>. QED  BY <3>2 DEF Orphans
  <2>7. Written(p)' \subseteq DOMAIN store' /\ Changed(p)' = {}
    BY <1>8
  <2>8. DOMAIN store' = DOMAIN store
    BY <1>1
  <2>. QED  BY <2>1, <2>2, <2>3, <2>4, <2>5, <2>6, <2>7, <2>8 DEF Writes
<1>13. /\ \A m \in DOMAIN job[p].ids : m # n \/ Statement(p).op \notin Named
            => m \in DOMAIN job'[p].ids /\ job'[p].ids[m] = job[p].ids[m]
       /\ Statement(p).op \notin Named => job'[p].ids = job[p].ids
       /\ Statement(p).op \in Named =>
            /\ DOMAIN job'[p].ids = DOMAIN job[p].ids \cup {n}
            /\ job'[p].ids[n] = nextId
  BY <1>10 DEF With
<1>. HIDE DEF n, ids
<1>14. \A m \in DOMAIN job[p].ids : job[p].ids[m] # nextId
  BY <1>0, <1>4 DEF Place, Ids
<1>15. /\ DOMAIN job'[p].ids \subseteq Sources(p) \cup Objects(p)
       /\ \A l, m \in DOMAIN job'[p].ids : job'[p].ids[l] = job'[p].ids[m] => l = m
       /\ Ids(p)' \subseteq Ids(p) \cup {nextId}
       /\ Statement(p).op \notin Named => Ids(p)' = Ids(p)
  <2>1. CASE Statement(p).op \notin Named
    BY <1>0, <1>13, <2>1 DEF Naming, Ids
  <2>2. CASE Statement(p).op \in Named
    <3>1. n \in Sources(p) \cup Objects(p)
      BY <1>2, <2>2, TableOfName DEF n
    <3>. QED  BY <1>0, <1>13, <1>14, <2>2, <3>1, NameLearned
  <2>. QED  BY <2>1, <2>2
<1>16. Place(p)'
  <2>1. job'[p].at \in 1..(Len(Statements[p]) + 1)
    BY <1>2, <1>10
  <2>2. /\ Ids(p)' \subseteq Given' /\ job'[p].todo \subseteq Given'
        /\ DOMAIN job'[p].fetched \subseteq Given'
    BY <1>0, <1>5, <1>10, <1>15 DEF Place
  <2>. QED  BY <1>8, <1>10, <2>1, <2>2 DEF Place, Phases, Ingesting
<1>17. Naming(p)'
  <2>1. ASSUME NEW m \in DOMAIN job'[p].ids
        PROVE  /\ job'[p].ids[m] \in DOMAIN store => Names(p, m, store[job'[p].ids[m]])
               /\ job'[p].ids[m] \in Inserted(p)' => Names(p, m, tx'[p].ins[job'[p].ids[m]])
    <3>1. CASE Statement(p).op \in Named /\ m = n
      <4>1. Names(p, n, row)
        BY <1>2, <1>3, <3>1, TableOfName DEF n
      <4>. QED  BY <1>4, <1>8, <1>13, <3>1, <4>1
    <3>2. CASE Statement(p).op \notin Named \/ m # n
      <4>1. m \in DOMAIN job[p].ids /\ job'[p].ids[m] = job[p].ids[m]
        BY <1>13, <3>2
      <4>2. job'[p].ids[m] # nextId
        BY <1>14, <4>1
      <4>. QED  BY <1>0, <1>8, <4>1, <4>2 DEF Naming
    <3>. QED  BY <3>1, <3>2
  <2>2. \A k \in 1..(job'[p].at - 1) : Statements[p][k].op \in Named
          => Statements[p][k].item.name \in DOMAIN job'[p].ids
    <3>1. CASE Statement(p).op \in Named
      BY <1>0, <1>2, <1>10, <1>13, <3>1, NamesGrow DEF n
    <3>2. CASE Statement(p).op \notin Named
      <4>. SUFFICES ASSUME NEW k \in 1..(job'[p].at - 1), Statements[p][k].op \in Named
                    PROVE  Statements[p][k].item.name \in DOMAIN job'[p].ids
        OBVIOUS
      <4>1. k # job[p].at
        BY <3>2 DEF Statement
      <4>2. k \in 1..(job[p].at - 1)
        BY <1>2, <1>10, <4>1
      <4>. QED  BY <1>0, <1>13, <3>2, <4>2 DEF Naming
    <3>. QED  BY <3>1, <3>2
  <2>3. store' = store
    BY <1>1
  <2>. QED  BY <1>15, <2>1, <2>2, <2>3 DEF Naming, Names
<1>18. Own(p)'
  <2>1. ASSUME NEW r, OfSeed(p, r), Statement(p).op \in Named => r.table \in Named
        PROVE  OfSeed(p, r)'
    <3>1. CASE r.table \in Named
      BY <2>1, <3>1 DEF OfSeed, Named
    <3>2. CASE Statement(p).op \notin Named
      BY <1>13, <1>15, <2>1, <3>2 DEF OfSeed
    <3>. QED  BY <2>1, <3>1, <3>2
  <2>2. ASSUME NEW i \in Inserted(p)', NEW r, r = tx'[p].ins[i]
        PROVE  OfSeed(p, r)'
    <3>1. CASE i = nextId
      BY <1>3, <1>8, <2>1, <2>2, <3>1
    <3>2. CASE i \in Inserted(p)
      <4>1. r = tx[p].ins[i] /\ OfSeed(p, r)
        BY <1>0, <1>8, <2>2, <3>2 DEF Own
      <4>2. Statement(p).op \in Named => Inserts(p, Named)
        BY <1>1 DEF Inserts
      <4>. QED  BY <1>0, <2>1, <3>2, <4>1, <4>2 DEF Own
    <3>. QED  BY <1>8, <2>2, <3>1, <3>2
  <2>3. \A i \in Inserted(p)' : OfSeed(p, tx[p].ins[i])'
    BY <2>2
  <2>4. Inserts(p, Named)' => \A i \in Inserted(p)' : tx'[p].ins[i].table \in Named
    <3>1. ASSUME Inserts(p, Named)'  PROVE Statement(p).op \in Named
      <4>1. Statements[p][job[p].at + 1].op \in Named /\ job[p].at + 1 <= Len(Statements[p])
        BY <1>10, <3>1 DEF Inserts, Statement
      <4>. QED  BY <1>2, <4>1, StatementOrder DEF Statement
    <3>2. Statement(p).op \in Named => \A i \in Inserted(p) : tx[p].ins[i].table \in Named
      BY <1>0, <1>1 DEF Own, Inserts
    <3>. QED  BY <1>3, <1>8, <3>1, <3>2
  <2>. QED  BY <1>8, <1>10, <2>3, <2>4 DEF Own
<1>19. Backfill(p)'
  BY <1>0, <1>1, <1>10 DEF Backfill, Filling
<1>20. \A q \in Others(p) : Good(q)'
  <2>1. \A q \in Others(p) : tx'[q] = tx[q] /\ job'[q] = job[q]
    BY <1>7, <1>9 DEF OnlyFor, Moved
  <2>. QED  BY <1>0, <1>1, <1>5, <2>1, OthersStayGood DEF IInv, Others
<1>21. ASSUME NEW q \in Jobs, NEW r \in Others(q)
       PROVE  Apart(q, r)'
  <2>1. r \in Jobs /\ q # r /\ Apart(q, r) /\ Apart(r, q)
    BY DEF IInv, Others
  <2>2. ASSUME NEW u \in Others(p)
        PROVE  /\ Inserted(u)' = Inserted(u) /\ Written(u)' = Written(u)
               /\ Referred(u)' = Referred(u) /\ Ids(u)' = Ids(u)
               /\ tx'[u] = tx[u] /\ job'[u].fetched = job[u].fetched
               /\ nextId \notin Ids(u) \cup DOMAIN job[u].fetched \cup Inserted(u)
    <3>1. tx'[u] = tx[u] /\ job'[u] = job[u]
      BY <1>7, <1>9 DEF OnlyFor, Moved
    <3>2. Place(u) /\ Writes(u)
      BY DEF IInv, Good, Others
    <3>. QED  BY <1>4, <3>1, <3>2 DEF Inserted, Written, Referred, Ids, Place, Writes
  <2>3. Referred(p)' = Referred(p) \cup row.refs
    BY <1>8 DEF Referred, Inserted
  <2>4. CASE q = p
    <3>1. r \in Others(p)
      BY <2>4
    <3>2. \A i \in Inserted(p)', j \in Inserted(r) :
            /\ tx'[p].ins[i].table # "documents"
            /\ tx'[p].ins[i].table = tx[r].ins[j].table
            => tx'[p].ins[i].key # tx[r].ins[j].key
      BY <1>6, <1>8, <2>1, <2>4, <3>1 DEF Apart
    <3>3. (Inserted(p) \cup {nextId}) \cap (Inserted(r) \cup Ids(r) \cup DOMAIN job[r].fetched) = {}
      BY <2>1, <2>2, <2>4, <3>1 DEF Apart
    <3>4. (Referred(p) \cup row.refs) \cap tx[r].del = {}
      BY <1>6, <2>1, <2>4, <3>1 DEF Apart
    <3>. QED  BY <1>8, <2>2, <2>3, <2>4, <3>1, <3>2, <3>3, <3>4 DEF Apart
  <2>5. CASE r = p
    <3>1. q \in Others(p)
      BY <2>1, <2>5 DEF Others
    <3>2. \A i \in Inserted(q), j \in Inserted(p)' :
            /\ tx[q].ins[i].table # "documents"
            /\ tx[q].ins[i].table = tx'[p].ins[j].table
            => tx[q].ins[i].key # tx'[p].ins[j].key
      BY <1>6, <1>8, <2>1, <2>5, <3>1 DEF Apart
    <3>3. nextId \notin Inserted(q)
      BY <2>2, <3>1
    <3>4. Inserted(q) \cap (Inserted(p)' \cup Ids(p)' \cup DOMAIN job'[p].fetched) = {}
      BY <1>8, <1>10, <1>15, <2>1, <2>5, <3>3 DEF Apart
    <3>. QED  BY <1>8, <2>1, <2>2, <2>5, <3>1, <3>2, <3>4 DEF Apart
  <2>6. CASE q # p /\ r # p
    <3>1. q \in Others(p) /\ r \in Others(p)
      BY <2>1, <2>6 DEF Others
    <3>. QED  BY <2>1, <2>2, <3>1 DEF Apart
  <2>. QED  BY <2>4, <2>5, <2>6
<1>22. Good(p)'
  BY <1>12, <1>16, <1>17, <1>18, <1>19 DEF Good
<1>. QED  BY <1>1, <1>5, <1>7, <1>9, <1>20, <1>21, <1>22 DEF IInv, OnlyFor, Others, Moved

-----------------------------------------------------------------------------
(* A row is deleted, a row gets its embedding. *)

\* A job that writes to rows of the store keeps the invariant if it keeps
\* its own part and touches no row that another job has written, and
\* deletes none that another refers to.
LEMMA WriteStep ==
  ASSUME IInv, NEW p \in Jobs, store' = store, nextId' = nextId,
         OnlyFor(p, tx, tx'), OnlyFor(p, job, job'), tx'[p].ins = tx[p].ins,
         job'[p].ids = job[p].ids, job'[p].at = job[p].at,
         job'[p].fetched = job[p].fetched,
         \A q \in Others(p) : /\ Written(p)' \cap Written(q) = {}
                              /\ Referred(q) \cap tx'[p].del = {},
         Writes(p)', Place(p)', Own(p)', Backfill(p)'
  PROVE  IInv'
<1>1. Storage' /\ Later
  BY DEF IInv, Storage, Later, Given
<1>2. \A q \in Others(p) : tx'[q] = tx[q] /\ job'[q] = job[q]
  BY DEF OnlyFor
<1>3. \A q \in Others(p) : Good(q)'
  BY <1>1, <1>2, OthersStayGood DEF IInv, Others
<1>4. Good(p)'
  BY NamingStays DEF IInv, Good
<1>5. \A u \in Jobs :
        /\ Inserted(u)' = Inserted(u) /\ Referred(u)' = Referred(u)
        /\ Ids(u)' = Ids(u) /\ tx'[u].ins = tx[u].ins
        /\ job'[u].fetched = job[u].fetched
        /\ u # p => Written(u)' = Written(u) /\ tx'[u] = tx[u]
  <2>. SUFFICES ASSUME NEW u \in Jobs
                PROVE  /\ Inserted(u)' = Inserted(u) /\ Referred(u)' = Referred(u)
                       /\ Ids(u)' = Ids(u) /\ tx'[u].ins = tx[u].ins
                       /\ job'[u].fetched = job[u].fetched
                       /\ u # p => Written(u)' = Written(u) /\ tx'[u] = tx[u]
    OBVIOUS
  <2>1. /\ tx'[u].ins = tx[u].ins /\ job'[u].fetched = job[u].fetched
        /\ job'[u].ids = job[u].ids
        /\ u # p => tx'[u] = tx[u]
    BY <1>2 DEF Others
  <2>2. Inserted(u)' = Inserted(u) /\ Ids(u)' = Ids(u)
    BY <2>1 DEF Inserted, Ids
  <2>3. Referred(u)' = Referred(u)
    BY <2>1 DEF Referred
  <2>4. u # p => Written(u)' = Written(u)
    BY <2>1 DEF Written
  <2>. QED  BY <2>1, <2>2, <2>3, <2>4
<1>6. ASSUME NEW q \in Jobs, NEW r \in Others(q)
      PROVE  Apart(q, r)'
  <2>1. r \in Jobs /\ q # r /\ Apart(q, r)
    BY DEF IInv, Others
  <2>2. Written(q)' \cap Written(r)' = {} /\ Referred(q) \cap tx'[r].del = {}
    <3>1. CASE q = p
      <4>1. r \in Others(p)
        BY <3>1
      <4>. QED  BY <1>5, <2>1, <3>1, <4>1 DEF Apart
    <3>2. CASE r = p
      <4>1. q \in Others(p)
        BY <2>1, <3>2 DEF Others
      <4>. QED  BY <1>5, <2>1, <3>2, <4>1 DEF Apart
    <3>3. CASE q # p /\ r # p
      BY <1>5, <2>1, <3>3 DEF Apart
    <3>. QED  BY <3>1, <3>2, <3>3
  <2>3. /\ Inserted(q)' = Inserted(q) /\ Inserted(r)' = Inserted(r)
        /\ Referred(q)' = Referred(q) /\ Ids(r)' = Ids(r)
        /\ tx'[q].ins = tx[q].ins /\ tx'[r].ins = tx[r].ins
        /\ job'[r].fetched = job[r].fetched
    BY <1>5, <2>1
  <2>. QED  BY <2>1, <2>2, <2>3 DEF Apart
<1>. QED  BY <1>1, <1>3, <1>4, <1>6 DEF IInv, OnlyFor, Others

\* What a job has inserted refers only to rows whose ids it has read.
LEMMA OwnRefs ==
  ASSUME NEW p \in Jobs, Writes(p), Own(p), NEW i \in Inserted(p)
  PROVE  tx[p].ins[i].refs \subseteq Ids(p)
BY DEF Writes, Own, OfSeed, IsRow, Named

\* A sweep deletes a row of the store, one that no other job has written
\* or refers to, and not one of the job's own.
LEMMA DeleteRowKeeps ==
  ASSUME IInv, NEW p \in Jobs, DeleteRow(p)
  PROVE  IInv'
<1>0. Place(p) /\ Naming(p) /\ Own(p) /\ Backfill(p) /\ Writes(p)
  BY DEF IInv, Good
<1>. DEFINE i == Least(job[p].todo)
            del == IF i \in DOMAIN View(p) THEN tx[p].del \cup {i} ELSE tx[p].del
<1>1. /\ job[p].pc = "rows" /\ job[p].todo # {} /\ Blockers(p) = {}
      /\ tx' = [tx EXCEPT ![p].del = del]
      /\ job' = [job EXCEPT ![p].todo = @ \ {i}]
      /\ store' = store /\ nextId' = nextId
  BY DEF DeleteRow
<1>2. i \in job[p].todo /\ i \notin Inserted(p) \cup Ids(p)
  <2>1. job[p].todo \subseteq Nat
    BY <1>0 DEF Place, Given
  <2>2. i \in job[p].todo
    BY <1>1, <2>1, LeastNumber
  <2>. HIDE DEF i
  <2>. QED  BY <1>0, <1>1, <2>2 DEF Own
<1>3. \A q \in Others(p) : i \notin Written(q) \cup Referred(q)
  BY <1>1 DEF Blockers
<1>. HIDE DEF i
<1>4. /\ del \subseteq tx[p].del \cup {i} /\ tx[p].del \subseteq del
      /\ del \subseteq DOMAIN store
      /\ i \in DOMAIN View(p) => i \in del
  BY <1>0, <1>2, Seen DEF Writes, Written
<1>. HIDE DEF del
<1>5. /\ OnlyFor(p, tx, tx')
      /\ tx'[p] = [ins |-> tx[p].ins, del |-> del, upd |-> tx[p].upd]
  <2>1. tx[p] = [ins |-> tx[p].ins, del |-> tx[p].del, upd |-> tx[p].upd]
    BY <1>0 DEF Writes
  <2>. QED  BY <1>1, <2>1 DEF IInv, OnlyFor, Others
<1>6. Moved(p, "rows", job[p].at, job[p].ids, job[p].todo \ {i}, job[p].fetched)
  <2>1. job[p] = [pc |-> job[p].pc, at |-> job[p].at, ids |-> job[p].ids,
                  todo |-> job[p].todo, fetched |-> job[p].fetched]
    BY <1>0 DEF Place
  <2>. QED  BY <1>1, <2>1 DEF IInv, Moved, OnlyFor, Others
<1>7. /\ job'[p].pc = "rows" /\ job'[p].at = job[p].at /\ job'[p].ids = job[p].ids
      /\ job'[p].todo = job[p].todo \ {i} /\ job'[p].fetched = job[p].fetched
      /\ job'[p] = [pc |-> job'[p].pc, at |-> job'[p].at, ids |-> job'[p].ids,
                    todo |-> job'[p].todo, fetched |-> job'[p].fetched]
  BY <1>6, MovedFields
<1>8. /\ tx'[p].ins = tx[p].ins /\ tx'[p].del = del /\ tx'[p].upd = tx[p].upd
      /\ Inserted(p)' = Inserted(p) /\ Changed(p)' = Changed(p) /\ Changed(p) = {}
      /\ Written(p)' = del /\ tx[p].del = Written(p)
      /\ Ids(p)' = Ids(p) /\ Given' = Given /\ Statement(p)' = Statement(p)
  <2>1. tx'[p].ins = tx[p].ins /\ tx'[p].del = del /\ tx'[p].upd = tx[p].upd
    BY <1>5
  <2>2. Changed(p) = {}
    BY <1>0, <1>1 DEF Place, Filling
  <2>. QED  BY <1>1, <1>7, <2>1, <2>2
            DEF Inserted, Changed, Written, Ids, Given, Statement
<1>9. /\ DOMAIN View(p)' = DOMAIN View(p) \ {i}
      /\ \A j \in DOMAIN View(p)' : View(p)'[j] = View(p)[j]
  <2>1. /\ DOMAIN View(p) = (DOMAIN store \cup DOMAIN tx[p].ins) \ tx[p].del
        /\ DOMAIN View(p)' = (DOMAIN store \cup DOMAIN tx[p].ins) \ del
    BY <1>1, <1>8 DEF View
  <2>2. DOMAIN View(p)' = DOMAIN View(p) \ {i}
    BY <1>4, <2>1
  <2>3. ASSUME NEW j \in DOMAIN View(p)'  PROVE View(p)'[j] = View(p)[j]
    <3>1. j \in DOMAIN View(p)
      BY <2>2, <2>3
    <3>. QED  BY <1>1, <1>8, <2>3, <3>1 DEF View
  <2>. QED  BY <2>2, <2>3
<1>10. Writes(p)'
  <2>1. tx'[p] = [ins |-> tx'[p].ins, del |-> tx'[p].del, upd |-> tx'[p].upd]
    BY <1>5, <1>8
  <2>2. /\ Inserted(p)' \subseteq Given' \ DOMAIN store'
        /\ \A j \in Inserted(p)' : IsRow(tx'[p].ins[j])
        /\ Written(p)' \subseteq DOMAIN store' /\ Changed(p)' = {}
    BY <1>0, <1>1, <1>4, <1>8 DEF Writes
  <2>3. \A j \in Inserted(p)' : tx'[p].ins[j].refs \subseteq DOMAIN View(p)'
    <3>. SUFFICES ASSUME NEW j \in Inserted(p)
                  PROVE  tx[p].ins[j].refs \subseteq DOMAIN View(p)'
      BY <1>8
    <3>1. tx[p].ins[j].refs \subseteq DOMAIN View(p)
      BY <1>0 DEF Writes
    <3>2. tx[p].ins[j].refs \subseteq Ids(p)
      BY <1>0, OwnRefs
    <3>. QED  BY <1>2, <1>9, <3>1, <3>2
  <2>4. UniqueKeys(View(p)')
    <3>1. UniqueKeys(View(p))
      BY <1>0 DEF Writes
    <3>2. \A j, k \in DOMAIN View(p)' :
             /\ View(p)'[j].table # "documents"
             /\ View(p)'[j].table = View(p)'[k].table
             /\ View(p)'[j].key = View(p)'[k].key
             => j = k
      BY <1>9, <3>1, KeysPairwise
    <3>. QED  BY <3>2, KeysPairwise
  <2>. QED  BY <1>7, <2>1, <2>2, <2>3, <2>4 DEF Writes
<1>11. Place(p)'
  <2>1. ~Inserts(p, Tables)'
    BY <1>7 DEF Inserts
  <2>. QED  BY <1>0, <1>1, <1>7, <1>8, <2>1 DEF Place, Phases, Ingesting, Filling
<1>12. Own(p)'
  <2>1. \A row : OfSeed(p, row)' <=> OfSeed(p, row)
    BY <1>7, <1>8 DEF OfSeed
  <2>2. ~Inserts(p, Named)'
    BY <1>7 DEF Inserts
  <2>3. del \cap Ids(p) = {}
    BY <1>0, <1>2, <1>4 DEF Own
  <2>4. job'[p].todo \cap (Inserted(p) \cup Ids(p)) = {}
    BY <1>0, <1>1, <1>7 DEF Own
  <2>. QED  BY <1>0, <1>8, <2>1, <2>2, <2>3, <2>4 DEF Own
<1>13. Backfill(p)'
  BY <1>0, <1>1, <1>7 DEF Backfill, Filling
<1>14. \A q \in Others(p) : /\ Written(p)' \cap Written(q) = {}
                            /\ Referred(q) \cap tx'[p].del = {}
  <2>. SUFFICES ASSUME NEW q \in Others(p)
                PROVE  del \cap Written(q) = {} /\ Referred(q) \cap del = {}
    BY <1>8
  <2>1. Apart(p, q) /\ Apart(q, p)
    BY DEF IInv, Others
  <2>. QED  BY <1>3, <1>4, <1>8, <2>1 DEF Apart
<1>15. OnlyFor(p, job, job')
  BY <1>6 DEF Moved
<1>. QED  BY <1>1, <1>5, <1>7, <1>8, <1>10, <1>11, <1>12, <1>13, <1>14, <1>15,
             WriteStep

\* The vector of the text that was read goes to the row it was read from.
LEMMA UpdateRowKeeps ==
  ASSUME IInv, NEW p \in Jobs, UpdateRow(p)
  PROVE  IInv'
<1>0. Place(p) /\ Naming(p) /\ Own(p) /\ Backfill(p) /\ Writes(p)
  BY DEF IInv, Good
<1>. DEFINE i == Least(job[p].todo)
            upd == IF i \in DOMAIN store THEN With(tx[p].upd, i, job[p].fetched[i])
                                         ELSE tx[p].upd
<1>1. /\ job[p].pc = "update" /\ Blockers(p) = {}
      /\ tx' = [tx EXCEPT ![p].upd = upd]
      /\ job' = [job EXCEPT ![p].pc = "embed", ![p].todo = @ \ {i}]
      /\ store' = store /\ nextId' = nextId
  BY DEF UpdateRow
<1>2. i \in job[p].todo /\ i \in DOMAIN job[p].fetched
  <2>1. job[p].todo \subseteq Nat /\ job[p].todo # {}
    BY <1>0, <1>1 DEF Place, Given, Backfill
  <2>2. i \in job[p].todo
    BY <2>1, LeastNumber
  <2>. HIDE DEF i
  <2>. QED  BY <1>0, <1>1, <2>2 DEF Backfill, Filling
<1>3. \A q \in Others(p) : i \notin Written(q)
  BY <1>1 DEF Blockers
<1>. HIDE DEF i
<1>4. /\ DOMAIN upd \subseteq Changed(p) \cup {i} /\ Changed(p) \subseteq DOMAIN upd
      /\ i \in DOMAIN store => i \in DOMAIN upd
      /\ DOMAIN upd \subseteq DOMAIN store
      /\ \A j \in DOMAIN upd : /\ store[j].table = "documents"
                               /\ upd[j] = store[j].key[1]
  <2>1. Changed(p) \subseteq DOMAIN store
    BY <1>0 DEF Writes, Written, Changed
  <2>2. CASE i \in DOMAIN store
    <3>1. /\ DOMAIN upd = Changed(p) \cup {i} /\ upd[i] = job[p].fetched[i]
          /\ \A j \in Changed(p) \ {i} : upd[j] = tx[p].upd[j]
      BY <2>2 DEF With, Changed
    <3>2. store[i].table = "documents" /\ job[p].fetched[i] = store[i].key[1]
      BY <1>0, <1>2, <2>2 DEF Backfill
    <3>3. \A j \in Changed(p) : /\ store[j].table = "documents"
                                /\ tx[p].upd[j] = store[j].key[1]
      BY <1>0 DEF Writes
    <3>. HIDE DEF upd
    <3>. QED  BY <2>1, <2>2, <3>1, <3>2, <3>3
  <2>3. CASE i \notin DOMAIN store
    <3>1. upd = tx[p].upd
      BY <2>3
    <3>. QED  BY <1>0, <2>1, <2>3, <3>1 DEF Writes, Changed
  <2>. QED  BY <2>2, <2>3
<1>. HIDE DEF upd
<1>5. /\ OnlyFor(p, tx, tx')
      /\ tx'[p] = [ins |-> tx[p].ins, del |-> tx[p].del, upd |-> upd]
  <2>1. tx[p] = [ins |-> tx[p].ins, del |-> tx[p].del, upd |-> tx[p].upd]
    BY <1>0 DEF Writes
  <2>. QED  BY <1>1, <2>1 DEF IInv, OnlyFor, Others
<1>6. Moved(p, "embed", job[p].at, job[p].ids, job[p].todo \ {i}, job[p].fetched)
  <2>1. job[p] = [pc |-> job[p].pc, at |-> job[p].at, ids |-> job[p].ids,
                  todo |-> job[p].todo, fetched |-> job[p].fetched]
    BY <1>0 DEF Place
  <2>. QED  BY <1>1, <2>1 DEF IInv, Moved, OnlyFor, Others
<1>7. /\ job'[p].pc = "embed" /\ job'[p].at = job[p].at /\ job'[p].ids = job[p].ids
      /\ job'[p].todo = job[p].todo \ {i} /\ job'[p].fetched = job[p].fetched
      /\ job'[p] = [pc |-> job'[p].pc, at |-> job'[p].at, ids |-> job'[p].ids,
                    todo |-> job'[p].todo, fetched |-> job'[p].fetched]
  BY <1>6, MovedFields
<1>8. /\ tx'[p].ins = tx[p].ins /\ tx'[p].del = tx[p].del /\ tx'[p].upd = upd
      /\ Inserted(p)' = Inserted(p) /\ Changed(p)' = DOMAIN upd
      /\ Ids(p)' = Ids(p) /\ Given' = Given
      /\ Inserted(p) = {} /\ tx[p].del = {}
      /\ Written(p)' = DOMAIN upd /\ Written(p) = Changed(p)
  <2>1. tx'[p].ins = tx[p].ins /\ tx'[p].del = tx[p].del /\ tx'[p].upd = upd
    BY <1>5
  <2>2. Inserted(p) = {} /\ tx[p].del = {}
    BY <1>0, <1>1 DEF Place, Ingesting
  <2>. QED  BY <1>1, <1>7, <2>1, <2>2 DEF Inserted, Changed, Written, Ids, Given
<1>9. View(p)' = View(p)
  BY <1>1, <1>8 DEF View
<1>10. Writes(p)'
  <2>1. tx'[p] = [ins |-> tx'[p].ins, del |-> tx'[p].del, upd |-> tx'[p].upd]
    BY <1>5, <1>8
  <2>2. UniqueKeys(View(p)) /\ Orphans(View(p)) = {}
    BY <1>0, <1>1 DEF Writes
  <2>3. /\ Written(p)' \subseteq DOMAIN store'
        /\ \A j \in Changed(p)' : /\ store'[j].table = "documents"
                                  /\ tx'[p].upd[j] = store'[j].key[1]
    BY <1>1, <1>4, <1>8
  <2>. QED  BY <1>8, <1>9, <2>1, <2>2, <2>3 DEF Writes
<1>11. Place(p)'
  <2>1. ~Inserts(p, Tables)'
    BY <1>7 DEF Inserts
  <2>. QED  BY <1>0, <1>1, <1>7, <1>8, <2>1 DEF Place, Phases, Ingesting, Filling
<1>12. Own(p)'
  <2>1. ~Inserts(p, Named)'
    BY <1>7 DEF Inserts
  <2>. QED  BY <1>7, <1>8, <2>1 DEF Own
<1>13. Backfill(p)'
  <2>1. \A j : Filled(p, j) => Filled(p, j)'
    BY <1>1, <1>4, <1>8 DEF Filled
  <2>2. \A j : j = i /\ j \in DOMAIN store => Filled(p, j)'
    BY <1>4, <1>8 DEF Filled
  <2>. QED  BY <1>0, <1>1, <1>7, <2>1, <2>2 DEF Backfill, Filling
<1>14. \A q \in Others(p) : /\ Written(p)' \cap Written(q) = {}
                            /\ Referred(q) \cap tx'[p].del = {}
  <2>. SUFFICES ASSUME NEW q \in Others(p)
                PROVE  DOMAIN upd \cap Written(q) = {}
    BY <1>8
  <2>1. Apart(p, q)
    BY DEF IInv, Others
  <2>. QED  BY <1>3, <1>4, <1>8, <2>1 DEF Apart
<1>15. OnlyFor(p, job, job')
  BY <1>6 DEF Moved
<1>. QED  BY <1>1, <1>5, <1>7, <1>8, <1>10, <1>11, <1>12, <1>13, <1>14, <1>15,
             WriteStep

-----------------------------------------------------------------------------
(* Commits. *)

\* The store after a commit: the rows of the view, and the new embeddings.
LEMMA Committed ==
  ASSUME NEW p \in Jobs, Storage, Writes(p), Commit(p)
  PROVE  /\ store' = [i \in DOMAIN store' |-> store'[i]]
         /\ DOMAIN store' = (DOMAIN store \cup Inserted(p)) \ tx[p].del
         /\ DOMAIN store' = DOMAIN View(p)
         /\ \A i \in DOMAIN store' :
              /\ IsRow(store'[i])
              /\ store'[i].table = View(p)[i].table
              /\ store'[i].key = View(p)[i].key
              /\ store'[i].refs = View(p)[i].refs
              /\ i \in Inserted(p) => store'[i] = tx[p].ins[i]
              /\ i \notin Inserted(p) =>
                   /\ i \in DOMAIN store
                   /\ store'[i].table = store[i].table
                   /\ store'[i].key = store[i].key
                   /\ store'[i].refs = store[i].refs
                   /\ store[i].rest # Null => store'[i].rest # Null
                   /\ i \in Changed(p) => store'[i].rest # Null
<1>1. /\ DOMAIN store' = DOMAIN View(p)
      /\ store' = [i \in DOMAIN View(p) |->
                     IF i \in DOMAIN tx[p].upd
                     THEN [View(p)[i] EXCEPT !.rest = tx[p].upd[i]]
                     ELSE View(p)[i]]
  BY DEF Commit, Merged
<1>2. DOMAIN View(p) = (DOMAIN store \cup Inserted(p)) \ tx[p].del
  BY DEF View, Inserted
<1>3. \A i \in DOMAIN store' : store'[i] = IF i \in Changed(p)
                                          THEN [View(p)[i] EXCEPT !.rest = tx[p].upd[i]]
                                          ELSE View(p)[i]
  BY <1>1 DEF Changed
<1>4. ASSUME NEW i \in DOMAIN View(p)  PROVE IsRow(View(p)[i])
  BY Seen DEF Storage, Writes
<1>5. ASSUME NEW i \in DOMAIN store', i \notin Changed(p)
      PROVE  /\ IsRow(store'[i]) /\ store'[i] = View(p)[i]
             /\ i \in Inserted(p) => View(p)[i] = tx[p].ins[i]
             /\ i \notin Inserted(p) => i \in DOMAIN store /\ View(p)[i] = store[i]
  BY <1>1, <1>3, <1>4, <1>5, Seen
<1>6. ASSUME NEW i \in DOMAIN store', i \in Changed(p)
      PROVE  /\ i \in DOMAIN store /\ i \notin Inserted(p) /\ View(p)[i] = store[i]
             /\ IsRow(store'[i]) /\ store'[i].rest # Null
             /\ store'[i].table = store[i].table /\ store'[i].key = store[i].key
             /\ store'[i].refs = store[i].refs
  <2>1. i \in DOMAIN store /\ i \notin Inserted(p)
    BY <1>6 DEF Writes, Written, Changed
  <2>2. i \in DOMAIN View(p) /\ View(p)[i] = store[i]
    BY <1>1, <2>1, Seen
  <2>3. IsRow(store[i]) /\ store[i].table = "documents" /\ tx[p].upd[i] = store[i].key[1]
    BY <1>6, <2>1 DEF Storage, Writes
  <2>4. store'[i] = [store[i] EXCEPT !.rest = store[i].key[1]]
    BY <1>3, <1>6, <2>2, <2>3
  <2>5. store[i] = [table |-> store[i].table, key |-> store[i].key,
                    refs |-> store[i].refs, rest |-> store[i].rest]
    BY <2>3 DEF IsRow, Row
  <2>6. store'[i] = [table |-> store[i].table, key |-> store[i].key,
                     refs |-> store[i].refs, rest |-> store[i].key[1]]
    BY <2>4, <2>5
  <2>7. /\ store'[i].table = store[i].table /\ store'[i].key = store[i].key
        /\ store'[i].refs = store[i].refs /\ store'[i].rest = store[i].key[1]
    BY <2>6
  <2>8. store[i].key[1] # Null
    BY <2>3 DEF IsRow
  <2>9. IsRow(store'[i])
    BY <2>3, <2>6, <2>7, <2>8 DEF IsRow, Row, Named, Tables
  <2>. QED  BY <2>1, <2>2, <2>7, <2>8, <2>9
<1>7. store' = [i \in DOMAIN store' |-> store'[i]]
  BY <1>1
<1>8. ASSUME NEW i \in DOMAIN store'
      PROVE  /\ IsRow(store'[i])
             /\ store'[i].table = View(p)[i].table
             /\ store'[i].key = View(p)[i].key
             /\ store'[i].refs = View(p)[i].refs
             /\ i \in Inserted(p) => store'[i] = tx[p].ins[i]
             /\ i \notin Inserted(p) =>
                  /\ i \in DOMAIN store
                  /\ store'[i].table = store[i].table
                  /\ store'[i].key = store[i].key
                  /\ store'[i].refs = store[i].refs
                  /\ store[i].rest # Null => store'[i].rest # Null
                  /\ i \in Changed(p) => store'[i].rest # Null
  <2>1. CASE i \in Changed(p)
    BY <1>6, <2>1
  <2>2. CASE i \notin Changed(p)
    BY <1>5, <2>2
  <2>. QED  BY <2>1, <2>2
<1>. QED  BY <1>1, <1>2, <1>7, <1>8

\* The tables are sound after the commit of a job that leaves no reference
\* to a deleted row.
LEMMA StorageKept ==
  ASSUME NEW p \in Jobs, Storage, Writes(p), Commit(p), nextId' = nextId,
         Orphans(View(p)) = {}
  PROVE  Storage'
<1>1. /\ DOMAIN store' = (DOMAIN store \cup Inserted(p)) \ tx[p].del
      /\ DOMAIN store' = DOMAIN View(p)
      /\ \A i \in DOMAIN store' : /\ IsRow(store'[i])
                                  /\ store'[i].table = View(p)[i].table
                                  /\ store'[i].key = View(p)[i].key
                                  /\ store'[i].refs = View(p)[i].refs
  BY Committed
<1>2. nextId' \in Nat \ {0} /\ Given' = Given
  BY DEF Storage, Given
<1>3. DOMAIN store' \subseteq Given'
  BY <1>1, <1>2 DEF Storage, Writes
<1>4. Orphans(store') = {}
  BY <1>1 DEF Orphans
<1>5. UniqueKeys(store')
  <2>1. UniqueKeys(View(p))
    BY DEF Writes
  <2>2. \A i, j \in DOMAIN store' :
          /\ store'[i].table # "documents" /\ store'[i].table = store'[j].table
          /\ store'[i].key = store'[j].key
          => i = j
    BY <1>1, <2>1, KeysPairwise
  <2>. QED  BY <2>2, KeysPairwise
<1>. QED  BY <1>1, <1>2, <1>3, <1>4, <1>5 DEF Storage

\* What another job has written fits the store after the commit as well.
LEMMA WritesFitCommit ==
  ASSUME NEW p \in Jobs, NEW q \in Others(p), Storage, Writes(p), Writes(q),
         Apart(p, q), Apart(q, p), Commit(p), nextId' = nextId,
         Orphans(View(p)) = {}, tx'[q] = tx[q], job'[q] = job[q]
  PROVE  Writes(q)'
<1>0. q \in Jobs
  BY DEF Others
<1>1. /\ DOMAIN store' = (DOMAIN store \cup Inserted(p)) \ tx[p].del
      /\ DOMAIN store' = DOMAIN View(p)
      /\ \A i \in DOMAIN store' :
           /\ store'[i].table = View(p)[i].table
           /\ store'[i].key = View(p)[i].key
           /\ i \in Inserted(p) => store'[i] = tx[p].ins[i]
           /\ i \notin Inserted(p) => /\ i \in DOMAIN store
                                      /\ store'[i].table = store[i].table
                                      /\ store'[i].key = store[i].key
                                      /\ store'[i].refs = store[i].refs
  BY Committed
<1>2. Storage'
  BY StorageKept
<1>3. /\ Inserted(q)' = Inserted(q) /\ Changed(q)' = Changed(q)
      /\ Written(q)' = Written(q) /\ Given' = Given
  BY DEF Inserted, Changed, Written, Given
<1>4. /\ Inserted(p) \cap Inserted(q) = {} /\ Written(p) \cap Written(q) = {}
      /\ Referred(q) \cap tx[p].del = {} /\ Referred(p) \cap tx[q].del = {}
  BY DEF Apart
<1>5. /\ DOMAIN View(q) = (DOMAIN store \cup Inserted(q)) \ tx[q].del
      /\ DOMAIN View(q)' = (DOMAIN store' \cup Inserted(q)) \ tx[q].del
      /\ \A i \in DOMAIN View(q)' :
           View(q)'[i] = IF i \in Inserted(q) THEN tx[q].ins[i] ELSE store'[i]
  BY DEF View, Inserted
<1>6. /\ Inserted(q) \cap DOMAIN store = {} /\ Inserted(q) \cap DOMAIN store' = {}
      /\ Inserted(p) \cap DOMAIN store = {}
  BY <1>1, <1>4 DEF Writes
<1>7. \A i \in DOMAIN View(q)' :
        \/ i \in Inserted(q) /\ View(q)'[i] = tx[q].ins[i]
        \/ i \in Inserted(p) /\ i \in DOMAIN store' /\ View(q)'[i] = tx[p].ins[i]
        \/ /\ i \in DOMAIN store' /\ i \in DOMAIN store
           /\ i \notin Inserted(p) \cup Inserted(q)
           /\ View(q)'[i] = store'[i]
  BY <1>1, <1>5
<1>8. tx'[q] = [ins |-> tx'[q].ins, del |-> tx'[q].del, upd |-> tx'[q].upd]
  BY DEF Writes
<1>9. /\ Inserted(q)' \subseteq Given' \ DOMAIN store'
      /\ \A i \in Inserted(q)' : IsRow(tx'[q].ins[i])
      /\ Written(q)' \subseteq DOMAIN store'
  <2>1. Written(q) \subseteq DOMAIN store'
    BY <1>1, <1>4 DEF Writes, Written
  <2>. QED  BY <1>3, <1>6, <2>1 DEF Writes
<1>10. \A i \in Changed(q)' : /\ store'[i].table = "documents"
                              /\ tx'[q].upd[i] = store'[i].key[1]
  <2>. SUFFICES ASSUME NEW i \in Changed(q)
                PROVE  /\ store'[i].table = "documents"
                       /\ tx[q].upd[i] = store'[i].key[1]
    BY <1>3
  <2>1. i \in Written(q)
    BY DEF Changed, Written
  <2>2. i \in DOMAIN store /\ i \in DOMAIN store' /\ i \notin Inserted(p)
    BY <1>3, <1>6, <1>9, <2>1 DEF Writes
  <2>. QED  BY <1>1, <2>2 DEF Writes
<1>11. \A i \in Inserted(q) : tx[q].ins[i].refs \subseteq DOMAIN View(q)'
  <2>. SUFFICES ASSUME NEW i \in Inserted(q)
                PROVE  tx[q].ins[i].refs \subseteq DOMAIN View(q)'
    OBVIOUS
  <2>1. tx[q].ins[i].refs \subseteq DOMAIN View(q)
    BY DEF Writes
  <2>2. tx[q].ins[i].refs \subseteq Referred(q)
    BY DEF Referred, Inserted
  <2>. QED  BY <1>1, <1>4, <1>5, <2>1, <2>2
<1>12. UniqueKeys(View(q)')
  <2>1. UniqueKeys(View(p)) /\ UniqueKeys(View(q)) /\ UniqueKeys(store')
    BY <1>2 DEF Writes, Storage
  <2>2. \A i \in DOMAIN View(q)' : i \notin Inserted(p) =>
          /\ i \in DOMAIN View(q)
          /\ View(q)'[i].table = View(q)[i].table
          /\ View(q)'[i].key = View(q)[i].key
    <3>. SUFFICES ASSUME NEW i \in DOMAIN View(q)', i \notin Inserted(p)
                  PROVE  /\ i \in DOMAIN View(q)
                         /\ View(q)'[i].table = View(q)[i].table
                         /\ View(q)'[i].key = View(q)[i].key
      OBVIOUS
    <3>1. i \in DOMAIN View(q)
      BY <1>5, <1>7
    <3>2. CASE i \in Inserted(q)
      BY <1>0, <1>5, <3>1, <3>2, Seen
    <3>3. CASE i \notin Inserted(q)
      <4>1. View(q)[i] = store[i] /\ View(q)'[i] = store'[i] /\ i \in DOMAIN store'
        BY <1>0, <1>5, <3>1, <3>3, Seen
      <4>. QED  BY <1>1, <3>1, <4>1
    <3>. QED  BY <3>1, <3>2, <3>3
  <2>3. ASSUME NEW i \in DOMAIN View(q)', NEW j \in DOMAIN View(q)',
               View(q)'[i].table # "documents",
               View(q)'[i].table = View(q)'[j].table,
               View(q)'[i].key = View(q)'[j].key
        PROVE  i = j
    <3>1. CASE i \notin Inserted(p) /\ j \notin Inserted(p)
      BY <2>1, <2>2, <2>3, <3>1, KeysPairwise
    <3>2. CASE i \notin Inserted(q) /\ j \notin Inserted(q)
      <4>1. /\ i \in DOMAIN store' /\ View(q)'[i] = store'[i]
            /\ j \in DOMAIN store' /\ View(q)'[j] = store'[j]
        BY <1>5, <3>2
      <4>. QED  BY <2>1, <2>3, <4>1, KeysPairwise
    <3>3. CASE i \in Inserted(p) /\ j \in Inserted(q)
      <4>1. View(q)'[i] = tx[p].ins[i] /\ View(q)'[j] = tx[q].ins[j]
        BY <1>4, <1>7, <3>3
      <4>. QED  BY <2>3, <3>3, <4>1 DEF Apart
    <3>4. CASE i \in Inserted(q) /\ j \in Inserted(p)
      <4>1. View(q)'[i] = tx[q].ins[i] /\ View(q)'[j] = tx[p].ins[j]
        BY <1>4, <1>7, <3>4
      <4>. QED  BY <2>3, <3>4, <4>1 DEF Apart
    <3>. QED  BY <1>4, <3>1, <3>2, <3>3, <3>4
  <2>. QED  BY <2>3, KeysPairwise
<1>13. job'[q].pc # "rows" => Orphans(View(q)') = {}
  <2>. SUFFICES ASSUME job[q].pc # "rows", NEW i \in DOMAIN View(q)'
                PROVE  View(q)'[i].refs \subseteq DOMAIN View(q)'
    BY DEF Orphans
  <2>1. CASE i \in Inserted(q)
    BY <1>5, <1>11, <2>1
  <2>2. CASE i \notin Inserted(q)
    <3>1. i \in DOMAIN store' /\ View(q)'[i] = store'[i] /\ i \notin tx[q].del
      BY <1>5, <2>2
    <3>2. store'[i].refs \subseteq DOMAIN store'
      BY <1>2, <3>1 DEF Storage, Orphans
    <3>3. store'[i].refs \cap tx[q].del = {}
      <4>1. CASE i \in Inserted(p)
        <5>1. store'[i].refs \subseteq Referred(p)
          BY <1>1, <3>1, <4>1 DEF Referred, Inserted
        <5>. QED  BY <1>4, <5>1
      <4>2. CASE i \notin Inserted(p)
        <5>1. i \in DOMAIN View(q) /\ View(q)[i] = store[i]
          BY <1>0, <1>1, <1>5, <2>2, <3>1, <4>2, Seen
        <5>2. store[i].refs \subseteq DOMAIN View(q)
          BY <5>1 DEF Writes, Orphans
        <5>. QED  BY <1>1, <1>5, <3>1, <4>2, <5>2
      <4>. QED  BY <4>1, <4>2
    <3>. QED  BY <1>5, <3>1, <3>2, <3>3
  <2>. QED  BY <2>1, <2>2
<1>. QED  BY <1>3, <1>8, <1>9, <1>10, <1>11, <1>12, <1>13 DEF Writes

\* A commit takes no row away that another job knows as something else.
LEMMA OthersFitCommit ==
  ASSUME IInv, NEW p \in Jobs, NEW q \in Others(p), Commit(p), nextId' = nextId,
         Orphans(View(p)) = {}, tx'[q] = tx[q], job'[q] = job[q]
  PROVE  Good(q)'
<1>0. /\ Storage /\ Writes(p) /\ Good(q) /\ Writes(q) /\ Apart(p, q) /\ Apart(q, p)
      /\ q \in Jobs
  BY DEF IInv, Good, Others
<1>1. /\ DOMAIN store' = (DOMAIN store \cup Inserted(p)) \ tx[p].del
      /\ \A i \in DOMAIN store' :
           i \notin Inserted(p) => /\ i \in DOMAIN store
                                   /\ store'[i].table = store[i].table
                                   /\ store'[i].key = store[i].key
                                   /\ store[i].rest # Null => store'[i].rest # Null
  BY <1>0, Committed
<1>2. Writes(q)'
  BY <1>0, WritesFitCommit
<1>3. /\ Inserted(q)' = Inserted(q) /\ Changed(q)' = Changed(q)
      /\ Ids(q)' = Ids(q) /\ Given' = Given /\ Statement(q)' = Statement(q)
  BY DEF Inserted, Changed, Ids, Given, Statement
<1>4. Place(q)'
  <2>1. Inserts(q, Tables)' <=> Inserts(q, Tables)
    BY <1>3 DEF Inserts
  <2>. QED  BY <1>0, <1>3, <2>1 DEF Place, Good
<1>5. Naming(q)'
  <2>1. Naming(q)
    BY <1>0 DEF Good
  <2>2. \A n \in DOMAIN job[q].ids :
          job[q].ids[n] \in DOMAIN store' => Names(q, n, store'[job[q].ids[n]])
    <3>. SUFFICES ASSUME NEW n \in DOMAIN job[q].ids, NEW i, i = job[q].ids[n],
                         i \in DOMAIN store'
                  PROVE  Names(q, n, store'[i])
      OBVIOUS
    <3>1. i \notin Inserted(p)
      BY <1>0 DEF Apart, Ids
    <3>2. i \in DOMAIN store /\ Names(q, n, store[i])
      BY <1>1, <2>1, <3>1 DEF Naming
    <3>. QED  BY <1>1, <3>1, <3>2 DEF Names
  <2>3. \A n, row : Names(q, n, row)' <=> Names(q, n, row)
    BY DEF Names
  <2>4. \A n \in DOMAIN job[q].ids :
          job[q].ids[n] \in Inserted(q) => Names(q, n, tx[q].ins[job[q].ids[n]])
    BY <2>1 DEF Naming
  <2>. QED  BY <1>3, <2>1, <2>2, <2>3, <2>4 DEF Naming
<1>6. Own(q)'
  <2>1. Inserts(q, Named)' <=> Inserts(q, Named)
    BY <1>3 DEF Inserts
  <2>2. \A row : OfSeed(q, row)' <=> OfSeed(q, row)
    BY <1>3 DEF OfSeed
  <2>. QED  BY <1>0, <1>3, <2>1, <2>2 DEF Own, Good
<1>7. Backfill(q)'
  <2>1. Backfill(q)
    BY <1>0 DEF Good
  <2>2. \A i \in DOMAIN job[q].fetched \cap DOMAIN store' :
          /\ i \in DOMAIN store
          /\ store'[i].table = store[i].table /\ store'[i].key = store[i].key
          /\ store[i].rest # Null => store'[i].rest # Null
    BY <1>0, <1>1 DEF Apart
  <2>3. \A i \in DOMAIN job[q].fetched \cap DOMAIN store' :
          Filled(q, i) => Filled(q, i)'
    BY <1>3, <2>2 DEF Filled
  <2>. QED  BY <2>1, <2>2, <2>3 DEF Backfill
<1>. QED  BY <1>2, <1>4, <1>5, <1>6, <1>7 DEF Good

\* A commit at the end of the ingest, or of the backfill.
LEMMA CommitKeeps ==
  ASSUME IInv, NEW p \in Jobs, Commit(p), nextId' = nextId,
         NEW pc \in {"fetch", "done"}, job' = [job EXCEPT ![p].pc = pc],
         \/ job[p].pc = "statement"
         \/ job[p].pc = "embed" /\ job[p].todo = {} /\ pc = "done"
  PROVE  IInv'
<1>0. /\ Storage /\ Place(p) /\ Naming(p) /\ Backfill(p) /\ Writes(p)
      /\ Orphans(View(p)) = {}
  <2>1. job[p].pc # "rows" /\ Writes(p)
    BY DEF IInv, Good
  <2>2. Orphans(View(p)) = {}
    BY <2>1 DEF Writes
  <2>. QED  BY <2>2 DEF IInv, Good
<1>1. /\ store' = [i \in DOMAIN store' |-> store'[i]]
      /\ DOMAIN store' = (DOMAIN store \cup Inserted(p)) \ tx[p].del
      /\ \A i \in DOMAIN store' :
           /\ i \in Inserted(p) => store'[i] = tx[p].ins[i]
           /\ i \notin Inserted(p) => /\ i \in DOMAIN store
                                      /\ store'[i].table = store[i].table
                                      /\ store'[i].key = store[i].key
                                      /\ store[i].rest # Null => store'[i].rest # Null
                                      /\ i \in Changed(p) => store'[i].rest # Null
  BY <1>0, Committed
<1>2. Storage'
  BY <1>0, StorageKept
<1>3. OnlyFor(p, tx, tx') /\ tx'[p] = NoWrites
  <2>1. tx' = [tx EXCEPT ![p] = NoWrites]
    BY DEF Commit
  <2>. HIDE DEF NoWrites
  <2>. QED  BY <2>1 DEF IInv, OnlyFor, Others
<1>4. Moved(p, pc, job[p].at, job[p].ids, job[p].todo, job[p].fetched)
  <2>1. job[p] = [pc |-> job[p].pc, at |-> job[p].at, ids |-> job[p].ids,
                  todo |-> job[p].todo, fetched |-> job[p].fetched]
    BY <1>0 DEF Place
  <2>. QED  BY <2>1 DEF IInv, Moved, OnlyFor, Others
<1>5. /\ job'[p].pc = pc /\ job'[p].at = job[p].at /\ job'[p].ids = job[p].ids
      /\ job'[p].todo = job[p].todo /\ job'[p].fetched = job[p].fetched
      /\ job'[p] = [pc |-> job'[p].pc, at |-> job'[p].at, ids |-> job'[p].ids,
                    todo |-> job'[p].todo, fetched |-> job'[p].fetched]
  BY <1>4, MovedFields
<1>6. /\ Inserted(p)' = {} /\ tx'[p].del = {} /\ Changed(p)' = {}
      /\ Written(p)' = {} /\ Given' = Given
      /\ Ids(p)' = Ids(p)
  BY <1>3, <1>5 DEF Inserted, Changed, Written, Given, Ids, NoWrites, Empty
<1>7. View(p)' = store'
  BY <1>1, <1>6 DEF View, Inserted
<1>8. Writes(p)'
  <2>1. tx'[p] = [ins |-> tx'[p].ins, del |-> tx'[p].del, upd |-> tx'[p].upd]
    BY <1>3 DEF NoWrites
  <2>. QED  BY <1>2, <1>6, <1>7, <2>1 DEF Writes, Storage
<1>9. Place(p)'
  <2>1. ~Inserts(p, Tables)'
    BY <1>5 DEF Inserts
  <2>2. pc \in Phases /\ pc \notin {"lookup", "rows"}
    BY DEF Phases
  <2>. QED  BY <1>0, <1>5, <1>6, <2>1, <2>2 DEF Place
<1>10. Naming(p)'
  <2>1. \A n \in DOMAIN job[p].ids :
          job[p].ids[n] \in DOMAIN store' => Names(p, n, store'[job[p].ids[n]])
    <3>. SUFFICES ASSUME NEW n \in DOMAIN job[p].ids, NEW i, i = job[p].ids[n],
                         i \in DOMAIN store'
                  PROVE  Names(p, n, store'[i])
      OBVIOUS
    <3>1. CASE i \in Inserted(p)
      BY <1>0, <1>1, <3>1 DEF Naming
    <3>2. CASE i \notin Inserted(p)
      <4>1. i \in DOMAIN store /\ Names(p, n, store[i])
        BY <1>0, <1>1, <3>2 DEF Naming
      <4>. QED  BY <1>1, <3>2, <4>1 DEF Names
    <3>. QED  BY <3>1, <3>2
  <2>2. \A n, row : Names(p, n, row)' <=> Names(p, n, row)
    BY DEF Names
  <2>. QED  BY <1>0, <1>5, <1>6, <2>1, <2>2 DEF Naming
<1>11. Own(p)'
  <2>1. ~Inserts(p, Named)' /\ job'[p].pc # "rows"
    BY <1>5 DEF Inserts
  <2>. QED  BY <1>6, <2>1 DEF Own
<1>12. Backfill(p)'
  <2>1. CASE job[p].pc = "statement"
    <3>1. DOMAIN job[p].fetched = {}
      BY <1>0, <2>1 DEF Backfill, Filling
    <3>. QED  BY <1>5, <3>1 DEF Backfill, Filling
  <2>2. CASE job[p].pc = "embed" /\ job[p].todo = {} /\ pc = "done"
    <3>1. Inserted(p) = {}
      BY <1>0, <2>2 DEF Place, Ingesting
    <3>2. \A i \in DOMAIN job[p].fetched \cap DOMAIN store' :
            /\ i \in DOMAIN store /\ Filled(p, i)
            /\ store[i].table = "documents" /\ job[p].fetched[i] = store[i].key[1]
      BY <1>0, <1>1, <2>2, <3>1 DEF Backfill, Filling
    <3>3. \A i \in DOMAIN job[p].fetched \cap DOMAIN store' :
            /\ store'[i].table = "documents"
            /\ job[p].fetched[i] = store'[i].key[1]
            /\ store'[i].rest # Null
      BY <1>1, <3>1, <3>2 DEF Filled
    <3>. QED  BY <1>5, <2>2, <3>3 DEF Backfill, Filling
  <2>. QED  BY <2>1, <2>2
<1>13. \A q \in Others(p) : Good(q)'
  <2>1. \A q \in Others(p) : tx'[q] = tx[q] /\ job'[q] = job[q]
    BY <1>3, <1>4 DEF OnlyFor, Moved
  <2>. QED  BY <1>0, <2>1, OthersFitCommit
<1>14. \A q \in Jobs : \A r \in Others(q) : Apart(q, r)'
  BY <1>3, <1>4, <1>5, <1>6, ApartWithoutWrites DEF Moved
<1>15. Good(p)'
  BY <1>8, <1>9, <1>10, <1>11, <1>12 DEF Good
<1>. QED  BY <1>1, <1>2, <1>3, <1>4, <1>13, <1>14, <1>15 DEF IInv, OnlyFor, Others, Moved

-----------------------------------------------------------------------------
(* The invariant. *)

\* It holds where the jobs begin, on any sound tables.
LEMMA InitIsGood ==
  ASSUME Init
  PROVE  IInv
<1>1. PICK d \in Deployments :
        /\ store \in d.before
        /\ nextId = Cardinality(DOMAIN store) + 1
        /\ tx = [p \in Jobs |-> NoWrites]
        /\ job = [p \in Jobs |-> [pc |-> IF p \in d.jobs THEN "idle" ELSE "absent",
                                  at |-> 1, ids |-> Empty,
                                  todo |-> {}, fetched |-> Empty]]
  BY DEF Init
<1>2. /\ store = [i \in DOMAIN store |-> store[i]]
      /\ \A i \in DOMAIN store : IsRow(store[i])
      /\ Orphans(store) = {} /\ UniqueKeys(store)
  BY <1>1, TablesAreSound
<1>3. IsFiniteSet(DOMAIN store) /\ DOMAIN store = 1..Cardinality(DOMAIN store)
  BY <1>1, DeploymentsAreNumbered
<1>4. Storage /\ 1 \in Nat
  <2>1. Cardinality(DOMAIN store) \in Nat
    BY <1>3, FS_CardinalityType
  <2>2. nextId \in Nat \ {0} /\ nextId - 1 = Cardinality(DOMAIN store)
    BY <1>1, <2>1
  <2>. QED  BY <1>2, <1>3, <2>2 DEF Storage, Given
<1>5. \A p \in Jobs :
        /\ tx[p].ins = Empty /\ tx[p].del = {} /\ tx[p].upd = Empty
        /\ tx[p] = [ins |-> tx[p].ins, del |-> tx[p].del, upd |-> tx[p].upd]
        /\ job[p].pc \in {"idle", "absent"} /\ job[p].at = 1 /\ job[p].ids = Empty
        /\ job[p].todo = {} /\ job[p].fetched = Empty
        /\ job[p] = [pc |-> job[p].pc, at |-> job[p].at, ids |-> job[p].ids,
                     todo |-> job[p].todo, fetched |-> job[p].fetched]
  <2>. HIDE DEF Empty
  <2>. QED  BY <1>1 DEF NoWrites
<1>6. ASSUME NEW p \in Jobs
      PROVE  /\ Inserted(p) = {} /\ Changed(p) = {} /\ Written(p) = {}
             /\ Referred(p) = {} /\ Ids(p) = {} /\ DOMAIN job[p].fetched = {}
             /\ DOMAIN job[p].ids = {}
  BY <1>5 DEF Inserted, Changed, Written, Referred, Ids, Empty
<1>7. ASSUME NEW p \in Jobs  PROVE Good(p)
  <2>1. Writes(p)
    <3>1. View(p) = store
      BY <1>2, <1>5, <1>6, EmptyView
    <3>. QED  BY <1>2, <1>5, <1>6, <3>1 DEF Writes
  <2>2. Place(p)
    <3>1. 1 \in 1..(Len(Statements[p]) + 1)
      <4>1. Len(Statements[p]) \in Nat
        BY StatementOrder
      <4>. QED  BY <4>1
    <3>2. ~Inserts(p, Tables)
      BY <1>5 DEF Inserts
    <3>. QED  BY <1>5, <1>6, <3>1, <3>2 DEF Place, Phases, Ingesting, Filling
  <2>3. Naming(p)
    <3>1. \A k \in 1..(job[p].at - 1) : FALSE
      <4>1. job[p].at = 1
        BY <1>5
      <4>2. \A k \in 1..(1 - 1) : FALSE
        OBVIOUS
      <4>. QED  BY <4>1, <4>2
    <3>. QED  BY <1>6, <3>1 DEF Naming
  <2>4. Own(p)
    BY <1>5, <1>6 DEF Own, Inserts
  <2>5. Backfill(p)
    BY <1>5, <1>6 DEF Backfill, Filling
  <2>. QED  BY <2>1, <2>2, <2>3, <2>4, <2>5 DEF Good
<1>8. \A p \in Jobs : \A q \in Others(p) : Apart(p, q)
  BY <1>6 DEF Apart, Others
<1>9. tx = [p \in Jobs |-> tx[p]] /\ job = [p \in Jobs |-> job[p]]
  BY <1>1
<1>. QED  BY <1>2, <1>4, <1>7, <1>8, <1>9 DEF IInv

\* Every step keeps it.
LEMMA NextKeeps ==
  ASSUME IInv, Next
  PROVE  IInv'
<1>1. PICK p \in Jobs : Start(p) \/ Work(p) \/ Crash(p)
  BY DEF Next
<1>2. CASE Start(p)
  BY <1>2, StartKeeps
<1>3. CASE Fail(p)
  BY <1>3, FailKeeps
<1>4. CASE Crash(p)
  BY <1>4, <1>3 DEF Crash
<1>5. CASE InsertRow(p)
  BY <1>5, InsertRowKeeps
<1>6. CASE ParentIsGone(p) \/ IdIsGone(p) \/ RestrictFails(p) \/ EmbedFails(p)
             \/ DeadlockAborts(p)
  <2>1. Fail(p)
    BY <1>6 DEF ParentIsGone, IdIsGone, RestrictFails, EmbedFails, DeadlockAborts
  <2>. QED  BY <1>3, <2>1
<1>7. CASE KeepRow(p)
  BY <1>7, KeepRowKeeps
<1>8. CASE SelectId(p)
  BY <1>8, SelectIdKeeps
<1>9. CASE BeginDelete(p)
  BY <1>9, BeginDeleteKeeps
<1>10. CASE DeleteRow(p)
  BY <1>10, DeleteRowKeeps
<1>11. CASE Cascade(p)
  BY <1>11, CascadeKeeps
<1>12. CASE EndDelete(p)
  BY <1>12, EndDeleteKeeps
<1>13. CASE CommitIngest(p)
  <2>. DEFINE pc == IF p \in Embedding THEN "fetch" ELSE "done"
  <2>1. /\ job[p].pc = "statement" /\ Commit(p) /\ nextId' = nextId
        /\ job' = [job EXCEPT ![p].pc = pc]
    BY <1>13 DEF CommitIngest
  <2>2. pc \in {"fetch", "done"}
    OBVIOUS
  <2>. HIDE DEF pc
  <2>. QED  BY <2>1, <2>2, CommitKeeps
<1>14. CASE FetchRows(p)
  BY <1>14, FetchRowsKeeps
<1>15. CASE EmbedRow(p)
  BY <1>15, EmbedRowKeeps
<1>16. CASE UpdateRow(p)
  BY <1>16, UpdateRowKeeps
<1>17. CASE CommitBackfill(p)
  <2>1. /\ job[p].pc = "embed" /\ job[p].todo = {} /\ Commit(p) /\ nextId' = nextId
        /\ job' = [job EXCEPT ![p].pc = "done"]
    BY <1>17 DEF CommitBackfill
  <2>. QED  BY <2>1, CommitKeeps
<1>. QED  BY <1>1, <1>2, <1>4, <1>5, <1>6, <1>7, <1>8, <1>9, <1>10, <1>11, <1>12,
             <1>13, <1>14, <1>15, <1>16, <1>17 DEF Work

\* Whatever the jobs, their seeds and the order of their steps: what is
\* committed is sound, and so will be what the jobs commit.
THEOREM Inductive == Spec => []IInv
<1>1. Init => IInv
  BY InitIsGood
<1>2. IInv /\ [Next]_vars => IInv'
  <2>. SUFFICES ASSUME IInv, [Next]_vars  PROVE IInv'
    OBVIOUS
  <2>1. CASE Next
    BY <2>1, NextKeeps
  <2>2. CASE UNCHANGED vars
    <3>1. store' = store /\ nextId' = nextId /\ tx' = tx /\ job' = job
      BY <2>2 DEF vars
    <3>2. Storage' /\ Later
      BY <3>1 DEF IInv, Storage, Later, Given
    <3>3. \A p \in Jobs : Good(p)'
      BY <3>1, <3>2, OthersStayGood DEF IInv
    <3>4. \A p \in Jobs : \A q \in Others(p) : Apart(p, q)'
      <4>1. \A p \in Jobs :
              /\ Inserted(p)' = Inserted(p) /\ Written(p)' = Written(p)
              /\ Referred(p)' = Referred(p) /\ Ids(p)' = Ids(p)
        BY <3>1 DEF Inserted, Written, Referred, Ids
      <4>. QED  BY <3>1, <4>1 DEF IInv, Apart, Others
    <3>. QED  BY <3>1, <3>2, <3>3, <3>4 DEF IInv
  <2>. QED  BY <2>1, <2>2
<1>. QED  BY <1>1, <1>2, PTL DEF Spec

-----------------------------------------------------------------------------
(* What follows. *)

\* The committed rows satisfy the constraints of 0001_initial_schema.py at
\* any time, no row has been written by two jobs at once, and an id that a
\* job still has to delete or embed was given out.
THEOREM TypeCorrect == Spec => []TypeOK
<1>1. ASSUME IInv  PROVE TypeOK
  <2>1. /\ Storage
        /\ \A p \in Jobs : Writes(p) /\ Place(p)
        /\ \A p \in Jobs : \A q \in Others(p) : Written(p) \cap Written(q) = {}
    BY <1>1 DEF IInv, Good, Apart
  <2>2. \A i \in DOMAIN store : i < nextId /\ store[i].table \in Tables
    <3>1. \A i \in Given : i < nextId
      BY <2>1 DEF Storage, Given
    <3>. QED  BY <2>1, <3>1 DEF Storage, IsRow
  <2>3. ASSUME NEW p \in Jobs
        PROVE  /\ job[p].pc \in {"absent", "idle", "statement", "lookup", "rows", "fetch",
                                 "embed", "update", "done", "failed"}
               /\ job[p].at \in 1..(Len(Statements[p]) + 1)
               /\ job[p].todo \cup DOMAIN job[p].fetched \subseteq 1..(nextId - 1)
               /\ Written(p) \subseteq DOMAIN store
               /\ DOMAIN tx[p].ins \cap DOMAIN store = {}
               /\ \A q \in Others(p) : Written(p) \cap Written(q) = {}
    <3>1. Writes(p) /\ Place(p)
      BY <2>1
    <3>2. job[p].pc \in {"absent", "idle", "statement", "lookup", "rows", "fetch",
                         "embed", "update", "done", "failed"}
      BY <3>1 DEF Place, Phases, Ingesting, Filling
    <3>3. /\ job[p].at \in 1..(Len(Statements[p]) + 1)
          /\ job[p].todo \cup DOMAIN job[p].fetched \subseteq 1..(nextId - 1)
      BY <3>1 DEF Place, Given
    <3>4. Written(p) \subseteq DOMAIN store /\ DOMAIN tx[p].ins \cap DOMAIN store = {}
      BY <3>1 DEF Writes, Inserted
    <3>. QED  BY <2>1, <3>2, <3>3, <3>4
  <2>4. Orphans(store) = {} /\ UniqueKeys(store)
    BY <2>1 DEF Storage
  <2>. QED  BY <2>2, <2>3, <2>4 DEF TypeOK
<1>. QED  BY <1>1, Inductive, PTL

\* A search never ranks a text by the vector of another one: the backfill
\* may write minutes after it has read, but ids are not given out twice and
\* a row never changes its text.
THEOREM EmbeddingsAreOfTheirTexts == Spec => []EmbeddingIsOfText
<1>1. ASSUME IInv  PROVE EmbeddingIsOfText
  BY <1>1 DEF IInv, Storage, IsRow, EmbeddingIsOfText, In
<1>. QED  BY <1>1, Inductive, PTL

\* A backfill that ends with status 0 has filled every row that it found
\* empty and that is still there.
THEOREM ZeroMeansNoneLeft == Spec => []ZeroMeansFilled
<1>1. ASSUME IInv  PROVE ZeroMeansFilled
  <2>1. \A p \in Jobs : Backfill(p)
    BY <1>1 DEF IInv, Good
  <2>. QED  BY <2>1 DEF ZeroMeansFilled, Backfill
<1>. QED  BY <1>1, Inductive, PTL

-----------------------------------------------------------------------------
(***************************************************************************)
(* Why a commit is the seed and nothing else.  Where the jobs carry the    *)
(* same seed, no job takes away what another one has found or made: a row  *)
(* of the seed is never marked for deletion (Sparing), the ids that two    *)
(* jobs have read for a name are the same, so that a row of one job's seed *)
(* is one of the other's, and what a statement has achieved stays achieved *)
(* whatever the others commit (Achieved).                                  *)
(***************************************************************************)

\* The rows that the job has deleted or is about to delete.
Marked(p) == tx[p].del \cup IF job[p].pc = "rows" THEN job[p].todo ELSE {}

\* With these ids for the names, the row is the one for a fact, or a text.
IsFact(id, e, row) == /\ e.object \in DOMAIN id /\ e.source \in DOMAIN id
                      /\ row.table = "object_properties"
                      /\ row.key = <<id[e.object], e.property, id[e.source]>>
IsText(id, d, row) == /\ d.source \in DOMAIN id
                      /\ row.table = "documents"
                      /\ row.key[1] = d.content
                      /\ row.key[2] = id[d.source]

InSeed(p, id, row) == \/ row.table = "sources" /\ row.key \in Sources(p)
                      \/ row.table = "objects" /\ row.key \in Objects(p)
                      \/ \E e \in Properties(p) : IsFact(id, e, row)
                      \/ \E d \in Documents(p) : IsText(id, d, row)

\* The statement has inserted or found this row.
Provides(id, st, row) == \/ st.op = "object_properties" /\ IsFact(id, st.item, row)
                         \/ st.op = "documents" /\ IsText(id, st.item, row)

\* The statement leaves no row like this one.
Removes(p, id, st, row) ==
  \/ /\ st.op = "sweep_properties" /\ row.table = "object_properties"
     /\ ~InSeed(p, id, row)
  \/ /\ st.op = "sweep_source" /\ row.table = "documents"
     /\ row.key[2] = id[st.item] /\ ~InSeed(p, id, row)
  \/ /\ st.op = "sweep_elsewhere" /\ row.table = "documents"
     /\ \A d \in Documents(p) : row.key[2] # id[d.source]
  \/ st.op = "sweep_objects" /\ row.table = "objects" /\ ~InSeed(p, id, row)
  \/ st.op = "sweep_sources" /\ row.table = "sources" /\ ~InSeed(p, id, row)

\* The rows have what a statement provides, and lack what it removes.
Had(id, st, rows) == st.op \in {"object_properties", "documents"}
                       => \E i \in DOMAIN rows : Provides(id, st, rows[i])
Lacked(p, id, st, rows, todo) ==
  \A i \in DOMAIN rows \ todo : ~Removes(p, id, st, rows[i])
Done(p, id, rows, k) == /\ Had(id, Statements[p][k], rows)
                        /\ Lacked(p, id, Statements[p][k], rows, {})

\* No row of the seed is marked, and none that another job has inserted.
Sparing(p) == /\ \A i \in Marked(p) \cap DOMAIN store : ~InSeed(p, job[p].ids, store[i])
              /\ \A q \in Others(p) : Marked(p) \cap Inserted(q) = {}

\* What the job has read, inserted and removed is still so.
Achieved(p) ==
  /\ Ids(p) \subseteq DOMAIN View(p)
  /\ \A k \in 1..(job[p].at - 1) : Done(p, job[p].ids, View(p), k)
  /\ job[p].pc = "rows" => Lacked(p, job[p].ids, Statement(p), View(p), job[p].todo)

Kept(p) == job[p].pc \in Ingesting => Sparing(p) /\ Achieved(p)

\* A job that has not begun knows nothing, and a text comes without vector.
Fresh(p) == job[p].pc = "idle" => job[p].at = 1 /\ DOMAIN job[p].ids = {}
Plain(p) == \A i \in Inserted(p) :
              tx[p].ins[i].table = "documents" => tx[p].ins[i].rest = Null

CInv == /\ RefersAsDeclared(store)
        /\ \A p \in Jobs : Fresh(p) /\ Plain(p)
        /\ SameSeed => \A p \in Jobs : Kept(p)

\* It is the table and the key that count.
LEMMA SameKey ==
  ASSUME NEW p, NEW id, NEW st, NEW row, NEW r,
         row.table = r.table, row.key = r.key
  PROVE  /\ InSeed(p, id, row) <=> InSeed(p, id, r)
         /\ Provides(id, st, row) <=> Provides(id, st, r)
         /\ Removes(p, id, st, row) <=> Removes(p, id, st, r)
<1>1. /\ \A e : IsFact(id, e, row) <=> IsFact(id, e, r)
      /\ \A d : IsText(id, d, row) <=> IsText(id, d, r)
  BY DEF IsFact, IsText
<1>2. InSeed(p, id, row) <=> InSeed(p, id, r)
  BY <1>1 DEF InSeed
<1>. QED  BY <1>1, <1>2 DEF Provides, Removes

\* No statement removes a row of the seed.
LEMMA SeedIsNotRemoved ==
  ASSUME NEW p \in Jobs, NEW id, NEW st, NEW row, InSeed(p, id, row)
  PROVE  ~Removes(p, id, st, row)
<1>1. row.table = "documents" => \E d \in Documents(p) : row.key[2] = id[d.source]
  BY DEF InSeed, IsFact, IsText
<1>. QED  BY <1>1 DEF Removes

\* A statement that inserts provides rows of the seed, one of the other
\* ones provides none.
LEMMA ProvidedIsInSeed ==
  ASSUME NEW p \in Jobs, NEW k \in 1..Len(Statements[p]), NEW id, NEW row,
         Provides(id, Statements[p][k], row)
  PROVE  InSeed(p, id, row)
<1>1. OfItsTable(p, Statements[p][k])
  BY StatementOrder
<1>. QED  BY <1>1 DEF OfItsTable, Provides, InSeed

\* The row of a name is in every seed with that name.
LEMMA NamedIsInSeed ==
  ASSUME NEW p \in Jobs, NEW q \in Jobs, Seed[p] = Seed[q],
         NEW n \in Sources(p) \cup Objects(p), NEW row, Names(p, n, row), NEW id
  PROVE  InSeed(q, id, row)
BY DEF Names, InSeed, Sources, Objects

\* The last statements are long past the sources and objects: the names are
\* known once a statement of another kind is done, or at hand.
LEMMA KnownBefore ==
  ASSUME NEW p \in Jobs, Place(p), Naming(p), NEW k \in 1..(job[p].at - 1),
         Statements[p][k].op \notin Named
  PROVE  DOMAIN job[p].ids = Sources(p) \cup Objects(p)
<1>1. Len(Statements[p]) \in Nat /\ job[p].at \in 1..(Len(Statements[p]) + 1)
  BY StatementOrder DEF Place
<1>2. k \in 1..Len(Statements[p])
  BY <1>1
<1>3. ASSUME NEW n \in Sources(p) \cup Objects(p)
      PROVE  n \in DOMAIN job[p].ids
  <2>1. PICK j \in 1..(k - 1) : /\ Statements[p][j].op \in Named
                                /\ Statements[p][j].item.name = n
    BY <1>2, StatementOrder
  <2>2. j \in 1..(job[p].at - 1)
    BY <1>1, <1>2
  <2>. QED  BY <2>1, <2>2 DEF Naming
<1>. QED  BY <1>3 DEF Naming

LEMMA LateIsKnown ==
  ASSUME NEW p \in Jobs, Good(p), job[p].pc \in Ingesting, ~Inserts(p, Named)
  PROVE  DOMAIN job[p].ids = Sources(p) \cup Objects(p)
<1>1. /\ Len(Statements[p]) \in Nat /\ job[p].at \in 1..(Len(Statements[p]) + 1)
      /\ Len(Statements[p]) > 0
      /\ Statements[p][Len(Statements[p])].op = "sweep_sources"
  BY StatementOrder DEF Good, Place, LastSweep
<1>2. CASE job[p].at <= Len(Statements[p])
  <2>1. job[p].at \in 1..Len(Statements[p])
    BY <1>1, <1>2
  <2>2. Statement(p).op \notin Named
    BY <1>2 DEF Inserts, Ingesting, Good, Place, Tables, Named
  <2>. QED  BY <2>1, <2>2, AllNamesAreKnown DEF Good
<1>3. CASE ~(job[p].at <= Len(Statements[p]))
  <2>1. Len(Statements[p]) \in 1..(job[p].at - 1)
    BY <1>1, <1>3
  <2>2. Statements[p][Len(Statements[p])].op \notin Named
    BY <1>1 DEF Named
  <2>. QED  BY <2>1, <2>2, KnownBefore DEF Good
<1>. QED  BY <1>2, <1>3

\* A job that deletes knows all names, and so does one that has inserted
\* more than names.
LEMMA MarkedIsKnown ==
  ASSUME NEW p \in Jobs, Good(p), Marked(p) # {}
  PROVE  /\ job[p].pc \in Ingesting
         /\ DOMAIN job[p].ids = Sources(p) \cup Objects(p)
<1>1. job[p].pc = "rows" \/ tx[p].del # {}
  BY DEF Marked
<1>2. job[p].pc \in Ingesting
  BY <1>1 DEF Ingesting, Good, Place
<1>3. ~Inserts(p, Named)
  BY <1>1 DEF Inserts, Named, Tables, Good, Place
<1>. QED  BY <1>2, <1>3, LateIsKnown

LEMMA InsertedIsInSeed ==
  ASSUME NEW p \in Jobs, Good(p), NEW i \in Inserted(p)
  PROVE  /\ job[p].pc \in Ingesting
         /\ InSeed(p, job[p].ids, tx[p].ins[i])
<1>1. job[p].pc \in Ingesting
  BY DEF Good, Place
<1>. DEFINE id == job[p].ids
<1>2. PICK row : row = tx[p].ins[i]
  OBVIOUS
<1>3. OfSeed(p, row)
  BY <1>2 DEF Good, Own
<1>4. InSeed(p, id, row)
  <2>1. CASE row.table \in Named
    <3>1. \/ row.table = "sources" /\ row.key \in Sources(p)
          \/ row.table = "objects" /\ row.key \in Objects(p)
      BY <1>3, <2>1 DEF OfSeed, Named
    <3>. QED  BY <3>1, Zenon DEF InSeed
  <2>2. CASE row.table \notin Named
    <3>1. ~Inserts(p, Named)
      BY <1>2, <2>2 DEF Good, Own
    <3>2. DOMAIN id = Sources(p) \cup Objects(p)
      BY <1>1, <3>1, LateIsKnown
    <3>3. ASSUME NEW e \in Properties(p), row.table = "object_properties",
                 row.key = <<id[e.object], e.property, id[e.source]>>
          PROVE  IsFact(id, e, row)
      <4>1. e.object \in DOMAIN id /\ e.source \in DOMAIN id
        BY <3>2, SeedIsClosed
      <4>. QED  BY <3>3, <4>1, Zenon DEF IsFact
    <3>4. ASSUME NEW d \in Documents(p), row.table = "documents",
                 row.key = <<d.content, id[d.source]>>
          PROVE  IsText(id, d, row)
      <4>1. d.source \in DOMAIN id
        BY <3>2, SeedIsClosed
      <4>. DEFINE x == d.content
                  y == id[d.source]
                  t == row.key
      <4>2. t = <<x, y>>
        BY <3>4
      <4>. HIDE DEF x, y, t
      <4>3. t[1] = x /\ t[2] = y
        BY <4>2, Parts
      <4>. QED  BY <3>4, <4>1, <4>3, Zenon DEF IsText, x, y, t
    <3>5. \/ /\ row.table = "object_properties"
             /\ \E e \in Properties(p) :
                  row.key = <<id[e.object], e.property, id[e.source]>>
          \/ /\ row.table = "documents"
             /\ \E d \in Documents(p) : row.key = <<d.content, id[d.source]>>
      BY <1>3, <2>2 DEF OfSeed, Named
    <3>6. \/ \E e \in Properties(p) : IsFact(id, e, row)
          \/ \E d \in Documents(p) : IsText(id, d, row)
      BY <3>3, <3>4, <3>5, Zenon
    <3>. QED  BY <3>6, Zenon DEF InSeed
  <2>. QED  BY <2>1, <2>2
<1>. QED  BY <1>1, <1>2, <1>4

\* Two jobs with the same seed know the same row by a name.
LEMMA IdsAgree ==
  ASSUME IInv, NEW p \in Jobs, NEW q \in Others(p), Seed[p] = Seed[q],
         Sparing(p), Achieved(p), Sparing(q), Achieved(q),
         NEW n \in DOMAIN job[p].ids \cap DOMAIN job[q].ids
  PROVE  job[p].ids[n] = job[q].ids[n]
<1>. DEFINE i == job[p].ids[n]
            j == job[q].ids[n]
<1>0. q \in Jobs /\ p \in Others(q) /\ Good(p) /\ Good(q) /\ n \in Sources(p) \cup Objects(p)
  BY DEF IInv, Others, Good, Naming
<1>1. ASSUME NEW r \in {p, q}, NEW k, k = job[r].ids[n]
      PROVE  /\ k \in DOMAIN View(r)
             /\ Names(p, n, View(r)[k])
  <2>1. r \in Jobs /\ Good(r) /\ Achieved(r) /\ n \in DOMAIN job[r].ids /\ Seed[r] = Seed[p]
    BY <1>0
  <2>2. k \in DOMAIN View(r)
    BY <1>1, <2>1 DEF Achieved, Ids
  <2>3. Names(r, n, View(r)[k])
    BY <1>1, <2>1, <2>2, Seen DEF Good, Naming
  <2>. QED  BY <2>1, <2>2, <2>3 DEF Names, Sources
<1>2. /\ i \in DOMAIN View(p) /\ Names(p, n, View(p)[i])
      /\ j \in DOMAIN View(q) /\ Names(p, n, View(q)[j])
  BY <1>1
<1>. HIDE DEF i, j
\* A row of the store with that name is in the views of both.
<1>3. ASSUME NEW r \in {p, q}, NEW k \in DOMAIN store, Names(p, n, store[k])
      PROVE  k \in DOMAIN View(r) /\ View(r)[k] = store[k]
  <2>1. r \in Jobs /\ Seed[p] = Seed[r] /\ Sparing(r) /\ Good(r)
    BY <1>0
  <2>2. InSeed(r, job[r].ids, store[k])
    BY <1>0, <1>3, <2>1, NamedIsInSeed
  <2>3. k \notin tx[r].del
    BY <2>1, <2>2 DEF Sparing, Marked
  <2>4. k \notin Inserted(r)
    BY <2>1 DEF Good, Writes
  <2>. QED  BY <2>3, <2>4 DEF View, Inserted
<1>4. ASSUME NEW r \in {p, q}, NEW k \in DOMAIN View(r), NEW l \in DOMAIN View(r),
             Names(p, n, View(r)[k]), Names(p, n, View(r)[l])
      PROVE  k = l
  <2>1. UniqueKeys(View(r))
    BY <1>0 DEF Good, Writes
  <2>2. /\ View(r)[k].table = View(r)[l].table /\ View(r)[k].table # "documents"
        /\ View(r)[k].key = View(r)[l].key
    BY <1>4 DEF Names
  <2>. QED  BY <2>1, <2>2, KeysPairwise
<1>5. CASE i \in DOMAIN store
  <2>1. i \notin Inserted(p)
    BY <1>0, <1>5 DEF Good, Writes
  <2>2. Names(p, n, store[i])
    BY <1>2, <2>1, Seen
  <2>3. i \in DOMAIN View(q) /\ Names(p, n, View(q)[i])
    BY <1>3, <1>5, <2>2
  <2>4. i = j
    BY <1>2, <1>4, <2>3
  <2>. QED  BY <2>4 DEF i, j
<1>6. CASE j \in DOMAIN store
  <2>1. j \notin Inserted(q)
    BY <1>0, <1>6 DEF Good, Writes
  <2>2. Names(p, n, store[j])
    BY <1>0, <1>2, <2>1, Seen
  <2>3. j \in DOMAIN View(p) /\ Names(p, n, View(p)[j])
    BY <1>3, <1>6, <2>2
  <2>4. i = j
    BY <1>2, <1>4, <2>3
  <2>. QED  BY <2>4 DEF i, j
<1>7. CASE i \notin DOMAIN store /\ j \notin DOMAIN store
  <2>1. /\ i \in Inserted(p) /\ Names(p, n, tx[p].ins[i])
        /\ j \in Inserted(q) /\ Names(p, n, tx[q].ins[j])
    BY <1>0, <1>2, <1>7, Seen
  <2>2. Apart(p, q)
    BY DEF IInv
  <2>3. /\ tx[p].ins[i].table # "documents" /\ tx[p].ins[i].table = tx[q].ins[j].table
        /\ tx[p].ins[i].key = tx[q].ins[j].key
    BY <2>1 DEF Names
  <2>. QED  BY <2>1, <2>2, <2>3 DEF Apart
<1>. QED  BY <1>5, <1>6, <1>7

\* A row of the seed of one is one of the other's, once it knows the names.
LEMMA SeedsAgree ==
  ASSUME IInv, NEW p \in Jobs, NEW q \in Others(p), Seed[p] = Seed[q],
         Sparing(p), Achieved(p), Sparing(q), Achieved(q),
         DOMAIN job[p].ids = Sources(p) \cup Objects(p),
         NEW row, InSeed(q, job[q].ids, row)
  PROVE  InSeed(p, job[p].ids, row)
<1>0. /\ Sources(q) = Sources(p) /\ Objects(q) = Objects(p)
      /\ Properties(q) = Properties(p) /\ Documents(q) = Documents(p)
  BY DEF Sources, Objects, Properties, Documents
<1>1. /\ DOMAIN job[q].ids \subseteq DOMAIN job[p].ids
      /\ \A n \in DOMAIN job[q].ids : job[p].ids[n] = job[q].ids[n]
  <2>1. DOMAIN job[q].ids \subseteq Sources(q) \cup Objects(q)
    BY DEF IInv, Good, Naming, Others
  <2>. QED  BY <1>0, <2>1, IdsAgree
<1>2. /\ \A e : IsFact(job[q].ids, e, row) => IsFact(job[p].ids, e, row)
      /\ \A d : IsText(job[q].ids, d, row) => IsText(job[p].ids, d, row)
  BY <1>1 DEF IsFact, IsText
<1>. QED  BY <1>0, <1>2 DEF InSeed

-----------------------------------------------------------------------------
(* What the others do to a job that ingests. *)

\* A step that commits nothing takes nothing away.
LEMMA OthersStayKept ==
  ASSUME IInv, NEW p \in Jobs, OnlyFor(p, tx, tx'), OnlyFor(p, job, job'),
         store' = store, Inserted(p)' \subseteq Inserted(p) \cup {nextId},
         NEW q \in Others(p), Kept(q)
  PROVE  Kept(q)'
<1>1. /\ q \in Jobs /\ tx'[q] = tx[q] /\ job'[q] = job[q]
      /\ \A r \in Others(q) \ {p} : Inserted(r)' = Inserted(r)
  BY DEF OnlyFor, Others, Inserted
<1>. SUFFICES ASSUME job[q].pc \in Ingesting
              PROVE  Sparing(q)' /\ Achieved(q)'
  BY <1>1 DEF Kept
<1>2. /\ Sparing(q) /\ Achieved(q) /\ Good(q) /\ Storage
  BY <1>1 DEF Kept, IInv
<1>3. /\ View(q)' = View(q) /\ Ids(q)' = Ids(q) /\ Statement(q)' = Statement(q)
      /\ Marked(q)' = Marked(q)
  BY <1>1 DEF View, Ids, Statement, Marked
<1>4. nextId \notin Marked(q)
  <2>1. Marked(q) \subseteq Given
    BY <1>2 DEF Marked, Good, Place, Writes, Written, Storage
  <2>. QED  BY <1>2, <2>1 DEF Given, Storage
<1>5. Sparing(q)'
  <2>1. \A r \in Others(q) : Marked(q) \cap Inserted(r)' = {}
    BY <1>1, <1>2, <1>4 DEF Sparing
  <2>. QED  BY <1>1, <1>2, <1>3, <2>1 DEF Sparing
<1>6. Achieved(q)'
  BY <1>1, <1>2, <1>3 DEF Achieved
<1>. QED  BY <1>5, <1>6

\* A commit takes only rows that are not of the seed, and brings only rows
\* that are.
LEMMA CommitStaysKept ==
  ASSUME IInv, NEW p \in Jobs, Commit(p), NEW q \in Others(p), job'[q] = job[q],
         Kept(p), Kept(q),
         job[p].pc \in Ingesting /\ job[q].pc \in Ingesting => Seed[p] = Seed[q]
  PROVE  Kept(q)'
<1>1. /\ q \in Jobs /\ p \in Others(q) /\ tx'[q] = tx[q] /\ Inserted(p)' = {}
      /\ \A r \in Others(q) : Inserted(r)' \subseteq Inserted(r)
  <2>1. tx = [r \in Jobs |-> tx[r]] /\ tx' = [tx EXCEPT ![p] = NoWrites]
    BY DEF IInv, Commit
  <2>2. tx'[p] = NoWrites /\ \A r \in Jobs \ {p} : tx'[r] = tx[r]
    BY <2>1
  <2>. QED  BY <2>2 DEF Others, Inserted, NoWrites, Empty
<1>. DEFINE id == job[q].ids
<1>. SUFFICES ASSUME job[q].pc \in Ingesting
              PROVE  Sparing(q)' /\ Achieved(q)'
  BY <1>1 DEF Kept
<1>2. /\ Sparing(q) /\ Achieved(q) /\ Good(p) /\ Good(q) /\ Storage /\ Writes(p) /\ Writes(q)
  BY <1>1 DEF Kept, IInv, Good
<1>3. /\ DOMAIN store' = (DOMAIN store \cup Inserted(p)) \ tx[p].del
      /\ \A i \in DOMAIN store' :
           /\ i \in Inserted(p) => store'[i] = tx[p].ins[i]
           /\ i \notin Inserted(p) => /\ i \in DOMAIN store
                                      /\ store'[i].table = store[i].table
                                      /\ store'[i].key = store[i].key
  BY <1>2, Committed
<1>4. Ids(q)' = Ids(q) /\ Statement(q)' = Statement(q) /\ Marked(q)' = Marked(q)
  BY <1>1 DEF Ids, Statement, Marked
<1>5. ASSUME NEW i \in tx[p].del
      PROVE  i \in DOMAIN store /\ ~InSeed(q, id, store[i])
  <2>1. i \in DOMAIN store /\ i \in Marked(p)
    BY <1>2 DEF Writes, Written, Marked
  <2>2. job[p].pc \in Ingesting /\ DOMAIN job[p].ids = Sources(p) \cup Objects(p)
    BY <1>2, <2>1, MarkedIsKnown
  <2>3. Sparing(p) /\ Achieved(p) /\ Seed[p] = Seed[q]
    BY <2>2 DEF Kept
  <2>4. ~InSeed(p, job[p].ids, store[i])
    BY <2>1, <2>3 DEF Sparing
  <2>. QED  BY <1>2, <2>1, <2>2, <2>3, <2>4, SeedsAgree
\* What is in the view, before and after.
<1>6. ASSUME NEW i \in DOMAIN View(q), i \notin tx[p].del
      PROVE  /\ i \in DOMAIN View(q)'
             /\ View(q)'[i].table = View(q)[i].table
             /\ View(q)'[i].key = View(q)[i].key
  <2>1. CASE i \in Inserted(q)
    BY <1>1, <2>1 DEF View, Inserted
  <2>2. CASE i \notin Inserted(q)
    <3>1. i \in DOMAIN store /\ i \notin tx[q].del /\ View(q)[i] = store[i]
      BY <1>1, <2>2, Seen
    <3>2. i \in DOMAIN store' /\ i \notin Inserted(p)
      BY <1>2, <1>3, <1>6, <3>1 DEF Writes
    <3>3. i \in DOMAIN View(q)' /\ View(q)'[i] = store'[i]
      BY <1>1, <2>2, <3>1, <3>2 DEF View, Inserted
    <3>. QED  BY <1>3, <3>1, <3>2, <3>3
  <2>. QED  BY <2>1, <2>2
<1>7. ASSUME NEW i \in DOMAIN View(q)', i \notin DOMAIN View(q)
      PROVE  i \in Inserted(p) /\ View(q)'[i] = tx[p].ins[i]
  <2>1. i \notin Inserted(q) /\ i \notin tx[q].del /\ i \in DOMAIN store'
    BY <1>1, <1>7 DEF View, Inserted
  <2>2. View(q)'[i] = store'[i]
    BY <1>1, <2>1 DEF View, Inserted
  <2>3. i \notin DOMAIN store
    BY <1>7, <2>1 DEF View
  <2>. QED  BY <1>3, <2>1, <2>2, <2>3
<1>8. ASSUME NEW i \in DOMAIN View(q), InSeed(q, id, View(q)[i])
      PROVE  /\ i \in DOMAIN View(q)'
             /\ View(q)'[i].table = View(q)[i].table
             /\ View(q)'[i].key = View(q)[i].key
  <2>1. i \notin tx[p].del
    <3>. SUFFICES ASSUME i \in tx[p].del  PROVE FALSE
      OBVIOUS
    <3>1. i \in DOMAIN store /\ ~InSeed(q, id, store[i])
      BY <1>5
    <3>2. i \notin Inserted(q)
      BY <1>2, <3>1 DEF Writes
    <3>. QED  BY <1>1, <1>8, <3>1, <3>2, Seen
  <2>. QED  BY <1>6, <2>1
<1>9. ASSUME NEW st, NEW i \in DOMAIN View(q)', Removes(q, id, st, View(q)'[i]),
             DOMAIN id = Sources(q) \cup Objects(q)
      PROVE  i \in DOMAIN View(q) /\ Removes(q, id, st, View(q)[i])
  <2>1. CASE i \in DOMAIN View(q)
    <3>1. i \notin tx[p].del
      BY <1>1, <1>2, <1>3, <2>1 DEF View, Writes, Written, Inserted
    <3>. QED  BY <1>6, <1>9, <2>1, <3>1, SameKey
  <2>2. CASE i \notin DOMAIN View(q)
    <3>1. i \in Inserted(p) /\ View(q)'[i] = tx[p].ins[i]
      BY <1>7, <2>2
    <3>2. job[p].pc \in Ingesting /\ InSeed(p, job[p].ids, tx[p].ins[i])
      BY <1>2, <3>1, InsertedIsInSeed
    <3>3. Sparing(p) /\ Achieved(p) /\ Seed[p] = Seed[q]
      BY <3>2 DEF Kept
    <3>4. InSeed(q, id, tx[p].ins[i])
      BY <1>1, <1>2, <1>9, <3>2, <3>3, SeedsAgree
    <3>. QED  BY <1>1, <1>9, <3>1, <3>4, SeedIsNotRemoved
  <2>. QED  BY <2>1, <2>2
<1>10. Sparing(q)'
  <2>1. ASSUME NEW i \in Marked(q) \cap DOMAIN store'
        PROVE  ~InSeed(q, id, store'[i])
    <3>1. i \notin Inserted(p)
      BY <1>1, <1>2 DEF Sparing
    <3>2. /\ i \in DOMAIN store /\ store'[i].table = store[i].table
          /\ store'[i].key = store[i].key
      BY <1>3, <3>1
    <3>3. ~InSeed(q, id, store[i])
      BY <1>2, <3>2 DEF Sparing
    <3>. QED  BY <3>2, <3>3, SameKey
  <2>. QED  BY <1>1, <1>2, <1>4, <2>1 DEF Sparing
<1>11. Ids(q) \subseteq DOMAIN View(q)'
  <2>. SUFFICES ASSUME NEW n \in DOMAIN id  PROVE id[n] \in DOMAIN View(q)'
    BY DEF Ids
  <2>1. id[n] \in DOMAIN View(q) /\ n \in Sources(q) \cup Objects(q)
    BY <1>2 DEF Achieved, Ids, Good, Naming
  <2>2. Names(q, n, View(q)[id[n]])
    BY <1>1, <1>2, <2>1, Seen DEF Good, Naming
  <2>3. InSeed(q, id, View(q)[id[n]])
    BY <1>1, <2>1, <2>2, NamedIsInSeed
  <2>. QED  BY <1>8, <2>1, <2>3
<1>12. ASSUME NEW k \in 1..(job[q].at - 1)
       PROVE  Done(q, id, View(q)', k)
  <2>. DEFINE st == Statements[q][k]
  <2>0. k \in 1..Len(Statements[q])
    BY <1>1, <1>2, StatementOrder DEF Good, Place
  <2>1. Done(q, id, View(q), k)
    BY <1>2 DEF Achieved
  <2>2. Had(id, st, View(q)')
    <3>. SUFFICES ASSUME st.op \in {"object_properties", "documents"}
                  PROVE  \E i \in DOMAIN View(q)' : Provides(id, st, View(q)'[i])
      BY DEF Had
    <3>1. PICK i \in DOMAIN View(q) : Provides(id, st, View(q)[i])
      BY <2>1 DEF Done, Had
    <3>2. InSeed(q, id, View(q)[i])
      BY <1>1, <2>0, <3>1, ProvidedIsInSeed
    <3>. QED  BY <1>8, <3>1, <3>2, SameKey
  <2>3. Lacked(q, id, st, View(q)', {})
    <3>. SUFFICES ASSUME NEW i \in DOMAIN View(q)', Removes(q, id, st, View(q)'[i])
                  PROVE  FALSE
      BY DEF Lacked
    <3>1. st.op \notin Named
      BY DEF Removes, Named
    <3>2. DOMAIN id = Sources(q) \cup Objects(q)
      BY <1>1, <1>2, <3>1, KnownBefore DEF Good
    <3>. QED  BY <1>9, <2>1, <3>2 DEF Done, Lacked
  <2>. QED  BY <2>2, <2>3 DEF Done
<1>13. ASSUME job[q].pc = "rows"
       PROVE  Lacked(q, id, Statement(q), View(q)', job[q].todo)
  <2>1. DOMAIN id = Sources(q) \cup Objects(q)
    <3>1. ~Inserts(q, Named)
      BY <1>13 DEF Inserts
    <3>. QED  BY <1>1, <1>2, <3>1, LateIsKnown
  <2>2. Lacked(q, id, Statement(q), View(q), job[q].todo)
    BY <1>2, <1>13 DEF Achieved
  <2>. QED  BY <1>9, <2>1, <2>2 DEF Lacked
<1>14. Achieved(q)'
  BY <1>1, <1>4, <1>11, <1>12, <1>13 DEF Achieved
<1>. QED  BY <1>10, <1>14

-----------------------------------------------------------------------------
(* What a job does itself. *)

\* A step that commits nothing is about the job that takes it.
LEMMA OwnStep ==
  ASSUME IInv, CInv, NEW p \in Jobs, OnlyFor(p, tx, tx'), OnlyFor(p, job, job'),
         store' = store, Inserted(p)' \subseteq Inserted(p) \cup {nextId},
         job[p].pc # "absent", job'[p].pc \notin {"absent", "idle"},
         Plain(p)', SameSeed => Kept(p)'
  PROVE  CInv'
<1>1. SameSeed' <=> SameSeed
  BY DEF SameSeed, OnlyFor, Others
<1>2. \A q \in Jobs : Fresh(q)' /\ Plain(q)'
  BY DEF CInv, Fresh, Plain, Inserted, OnlyFor, Others
<1>3. ASSUME SameSeed  PROVE \A q \in Jobs : Kept(q)'
  <2>1. \A q \in Others(p) : Kept(q)'
    BY <1>3, OthersStayKept DEF CInv, Others
  <2>. QED  BY <1>3, <2>1 DEF Others
<1>. QED  BY <1>1, <1>2, <1>3 DEF CInv

\* A job that is past its ingest, or has failed, has nothing to keep.
LEMMA LeaveKept ==
  ASSUME IInv, CInv, NEW p \in Jobs, OnlyFor(p, tx, tx'), OnlyFor(p, job, job'),
         store' = store, Inserted(p)' = {}, job[p].pc # "absent",
         job'[p].pc \notin Ingesting \cup {"absent", "idle"}
  PROVE  CInv'
<1>1. Plain(p)' /\ Kept(p)'
  BY DEF Plain, Kept
<1>. QED  BY <1>1, OwnStep

\* A job that marks no further row still spares the seed.
LEMMA StillSparing ==
  ASSUME NEW p \in Jobs, Sparing(p), OnlyFor(p, tx, tx'), store' = store,
         Marked(p)' \subseteq Marked(p), job'[p].ids = job[p].ids
  PROVE  Sparing(p)'
BY DEF Sparing, OnlyFor, Inserted, Others

\* One more statement is done.
LEMMA DoneGrows ==
  ASSUME NEW p, NEW id, NEW rows, NEW at \in Nat,
         \A k \in 1..(at - 1) : Done(p, id, rows, k), Done(p, id, rows, at)
  PROVE  \A k \in 1..((at + 1) - 1) : Done(p, id, rows, k)
<1>1. \A k \in 1..((at + 1) - 1) : k \in 1..(at - 1) \/ k = at
  OBVIOUS
<1>. QED  BY <1>1

\* Up to the sweeps nothing is removed, and up to the facts nothing is
\* provided.
LEMMA EarlyIsDone ==
  ASSUME NEW p \in Jobs, NEW n \in 1..Len(Statements[p]), NEW k \in 1..n,
         NEW id, NEW rows
  PROVE  /\ Statements[p][n].op \in Tables => Lacked(p, id, Statements[p][k], rows, {})
         /\ Statements[p][n].op \in Named => Done(p, id, rows, k)
<1>1. /\ Statements[p][n].op \in Tables => Statements[p][k].op \in Tables
      /\ Statements[p][n].op \in Named => Statements[p][k].op \in Named
  BY StatementOrder
<1>2. Statements[p][k].op \in Tables => Lacked(p, id, Statements[p][k], rows, {})
  BY DEF Lacked, Removes, Tables
<1>3. Statements[p][k].op \in Named => Had(id, Statements[p][k], rows)
  BY DEF Had, Named
<1>. QED  BY <1>1, <1>2, <1>3 DEF Done, Named, Tables

\* Where the next statement begins, and the ids are the same.
LEMMA NextMoved ==
  ASSUME IInv, NEW p \in Jobs, Statement(p).op \notin Named, NEW i, NextStatement(p, i)
  PROVE  Moved(p, "statement", job[p].at + 1, job[p].ids, job[p].todo, job[p].fetched)
<1>1. job[p] = [pc |-> job[p].pc, at |-> job[p].at, ids |-> job[p].ids,
                todo |-> job[p].todo, fetched |-> job[p].fetched]
  BY DEF IInv, Good, Place
<1>2. job' = [job EXCEPT ![p].pc = "statement", ![p].at = @ + 1, ![p].ids = @]
  BY DEF NextStatement
<1>. QED  BY <1>1, <1>2 DEF IInv, Moved, OnlyFor, Others

\* A job starts.
LEMMA StartKept ==
  ASSUME IInv, CInv, NEW p \in Jobs, Start(p)
  PROVE  CInv'
<1>1. job[p].pc = "idle" /\ UNCHANGED <<store, nextId, tx>>
      /\ job' = [job EXCEPT ![p].pc = "statement"]
  BY DEF Start
<1>2. Moved(p, "statement", job[p].at, job[p].ids, job[p].todo, job[p].fetched)
  <2>1. job[p] = [pc |-> job[p].pc, at |-> job[p].at, ids |-> job[p].ids,
                  todo |-> job[p].todo, fetched |-> job[p].fetched]
    BY DEF IInv, Good, Place
  <2>. QED  BY <1>1, <2>1 DEF IInv, Moved, OnlyFor, Others
<1>3. /\ job'[p].pc = "statement" /\ job'[p].at = 1 /\ DOMAIN job'[p].ids = {}
      /\ tx'[p].del = {} /\ Inserted(p)' = {} /\ Inserted(p) = {}
  BY <1>1, <1>2, MovedFields DEF CInv, Fresh, IInv, Good, Place, Ingesting, Inserted
<1>4. Sparing(p)'
  BY <1>3 DEF Sparing, Marked
<1>5. Achieved(p)'
  BY <1>3 DEF Achieved, Ids
<1>6. Plain(p)' /\ Kept(p)'
  BY <1>3, <1>4, <1>5 DEF Plain, Kept
<1>7. OnlyFor(p, tx, tx')
  BY <1>1 DEF IInv, OnlyFor, Others
<1>. QED  BY <1>1, <1>2, <1>3, <1>6, <1>7, OwnStep DEF Moved

\* A statement that brings no id is followed by the next one.
LEMMA AdvanceKept ==
  ASSUME IInv, CInv, NEW p \in Jobs, UNCHANGED <<store, nextId, tx>>,
         job[p].pc \in {"statement", "rows"}, Statement(p).op \notin Named,
         NextStatement(p, 0),
         SameSeed => Done(p, job[p].ids, View(p), job[p].at)
  PROVE  CInv'
<1>1. Moved(p, "statement", job[p].at + 1, job[p].ids, job[p].todo, job[p].fetched)
  BY NextMoved
<1>2. job'[p].pc = "statement" /\ job'[p].at = job[p].at + 1 /\ job'[p].ids = job[p].ids
  BY <1>1 DEF Moved
<1>3. /\ View(p)' = View(p) /\ Ids(p)' = Ids(p) /\ Inserted(p)' = Inserted(p)
      /\ Marked(p)' \subseteq Marked(p) /\ OnlyFor(p, tx, tx')
  BY <1>2 DEF View, Ids, Inserted, Marked, IInv, OnlyFor, Others
<1>4. Plain(p)'
  BY <1>3 DEF CInv, Plain
<1>5. ASSUME SameSeed  PROVE Kept(p)'
  <2>1. Sparing(p) /\ Achieved(p) /\ job[p].at \in Nat
    <3>1. job[p].at \in 1..(Len(Statements[p]) + 1) /\ Len(Statements[p]) \in Nat
      BY StatementOrder DEF IInv, Good, Place
    <3>. QED  BY <1>5, <3>1 DEF CInv, Kept, Ingesting
  <2>2. Sparing(p)'
    BY <1>2, <1>3, <2>1, StillSparing
  <2>3. \A k \in 1..((job[p].at + 1) - 1) : Done(p, job[p].ids, View(p), k)
    BY <1>5, <2>1, DoneGrows DEF Achieved
  <2>4. Achieved(p)'
    BY <1>2, <1>3, <2>1, <2>3 DEF Achieved
  <2>. QED  BY <2>2, <2>4 DEF Kept
<1>. QED  BY <1>1, <1>2, <1>3, <1>4, <1>5, OwnStep DEF Moved

\* The row of the statement, with the ids that the job has read, is the one
\* for its item.
LEMMA RowProvides ==
  ASSUME NEW p \in Jobs, Naming(p), job[p].at \in 1..Len(Statements[p]),
         Statement(p).op \in Tables \ Named, NEW row,
         row.table = NewRow(p).table, row.key = NewRow(p).key
  PROVE  Provides(job[p].ids, Statement(p), row)
<1>. DEFINE id == job[p].ids
            item == Statement(p).item
<1>1. DOMAIN id = Sources(p) \cup Objects(p)
  BY AllNamesAreKnown
<1>2. OfItsTable(p, Statement(p))
  BY StatementOrder DEF Statement
<1>3. CASE Statement(p).op = "object_properties"
  <2>1. item.object \in DOMAIN id /\ item.source \in DOMAIN id
    BY <1>1, <1>2, <1>3, SeedIsClosed DEF OfItsTable
  <2>2. /\ NewRow(p).table = "object_properties"
        /\ NewRow(p).key = <<id[item.object], item.property, id[item.source]>>
    BY <1>3 DEF NewRow, Row, Named
  <2>. QED  BY <1>3, <2>1, <2>2 DEF Provides, IsFact
<1>4. CASE Statement(p).op = "documents"
  <2>1. item.source \in DOMAIN id
    BY <1>1, <1>2, <1>4, SeedIsClosed DEF OfItsTable
  <2>. DEFINE x == item.content
              y == id[item.source]
              t == NewRow(p).key
  <2>2. t = <<x, y>> /\ NewRow(p).table = "documents"
    BY <1>4 DEF NewRow, Row, Named
  <2>3. t[1] = x /\ t[2] = y
    <3>. HIDE DEF x, y, t
    <3>. QED  BY <2>2, Parts
  <2>. QED  BY <1>4, <2>1, <2>2, <2>3 DEF Provides, IsText
<1>. QED  BY <1>3, <1>4 DEF Tables, Named

\* The row is there; a source or an object is then looked up.
LEMMA KeepRowKept ==
  ASSUME IInv, CInv, NEW p \in Jobs, KeepRow(p)
  PROVE  CInv'
<1>0. Good(p) /\ Place(p) /\ Naming(p) /\ Len(Statements[p]) \in Nat
  BY StatementOrder DEF IInv, Good
<1>1. /\ job[p].pc = "statement" /\ job[p].at \in 1..Len(Statements[p])
      /\ Statement(p).op \in Tables /\ UNCHANGED <<store, nextId, tx>>
  BY <1>0 DEF KeepRow, Upserting, AtStatement, Place
<1>2. CASE Statement(p).op \notin Named
  <2>1. NextStatement(p, 0)
    BY <1>2 DEF KeepRow
  <2>2. PICK i \in DOMAIN View(p) : /\ View(p)[i].table = NewRow(p).table
                                    /\ View(p)[i].key = NewRow(p).key
    BY DEF KeepRow, Matches
  <2>3. Provides(job[p].ids, Statement(p), View(p)[i])
    BY <1>0, <1>1, <1>2, <2>2, RowProvides
  <2>4. Lacked(p, job[p].ids, Statement(p), View(p), {})
    <3>1. job[p].at \in 1..job[p].at
      BY <1>1
    <3>. QED  BY <1>1, <3>1, EarlyIsDone DEF Statement
  <2>5. Done(p, job[p].ids, View(p), job[p].at)
    BY <2>3, <2>4 DEF Done, Had, Statement
  <2>. QED  BY <1>1, <1>2, <2>1, <2>5, AdvanceKept
<1>3. CASE Statement(p).op \in Named
  <2>1. job' = [job EXCEPT ![p].pc = "lookup"]
    BY <1>3 DEF KeepRow
  <2>2. Moved(p, "lookup", job[p].at, job[p].ids, job[p].todo, job[p].fetched)
    <3>1. job[p] = [pc |-> job[p].pc, at |-> job[p].at, ids |-> job[p].ids,
                    todo |-> job[p].todo, fetched |-> job[p].fetched]
      BY <1>0 DEF Place
    <3>. QED  BY <2>1, <3>1 DEF IInv, Moved, OnlyFor, Others
  <2>3. job'[p].pc = "lookup" /\ job'[p].at = job[p].at /\ job'[p].ids = job[p].ids
    BY <2>2 DEF Moved
  <2>4. /\ View(p)' = View(p) /\ Ids(p)' = Ids(p) /\ Inserted(p)' = Inserted(p)
        /\ Marked(p)' \subseteq Marked(p) /\ OnlyFor(p, tx, tx')
    BY <1>1, <2>3 DEF View, Ids, Inserted, Marked, IInv, OnlyFor, Others
  <2>5. Plain(p)'
    BY <1>1, <2>4 DEF CInv, Plain
  <2>6. ASSUME SameSeed  PROVE Kept(p)'
    <3>1. Sparing(p) /\ Achieved(p)
      BY <1>1, <2>6 DEF CInv, Kept, Ingesting
    <3>2. Sparing(p)'
      BY <1>1, <2>3, <2>4, <3>1, StillSparing
    <3>3. Achieved(p)'
      BY <2>3, <2>4, <3>1 DEF Achieved
    <3>. QED  BY <3>2, <3>3 DEF Kept
  <2>. QED  BY <1>1, <2>2, <2>3, <2>4, <2>5, <2>6, OwnStep DEF Moved
<1>. QED  BY <1>2, <1>3

\* A deletion is over when no row is left that it removes.
LEMMA EndDeleteKept ==
  ASSUME IInv, CInv, NEW p \in Jobs, EndDelete(p)
  PROVE  CInv'
<1>1. /\ job[p].pc = "rows" /\ job[p].todo = {} /\ NextStatement(p, 0)
      /\ UNCHANGED <<store, nextId, tx>>
  BY DEF EndDelete
<1>2. Statement(p).op \notin Tables /\ Statement(p).op \notin Named
  BY <1>1 DEF IInv, Good, Place, Tables, Named
<1>3. ASSUME SameSeed  PROVE Done(p, job[p].ids, View(p), job[p].at)
  <2>1. Lacked(p, job[p].ids, Statement(p), View(p), {})
    BY <1>1, <1>3 DEF CInv, Kept, Ingesting, Achieved
  <2>. QED  BY <1>2, <2>1 DEF Done, Had, Statement, Tables
<1>. QED  BY <1>1, <1>2, <1>3, AdvanceKept

-----------------------------------------------------------------------------
(* The rows that a job inserts or reads. *)

\* Ids after one more has been read.
LEMMA IdsAfter ==
  ASSUME NEW p \in Jobs, NEW n, NEW i, job'[p].ids = With(job[p].ids, n, i)
  PROVE  Ids(p)' \subseteq Ids(p) \cup {i}
<1>1. /\ DOMAIN job'[p].ids = DOMAIN job[p].ids \cup {n}
      /\ job'[p].ids[n] = i
      /\ \A m \in DOMAIN job[p].ids \ {n} : job'[p].ids[m] = job[p].ids[m]
  BY DEF With
<1>. QED  BY <1>1 DEF Ids

\* A new row is one of the seed, and all that was there is still there.
LEMMA InsertRowKept ==
  ASSUME IInv, CInv, NEW p \in Jobs, InsertRow(p)
  PROVE  CInv'
<1>. DEFINE row == NewRow(p)
            op == Statement(p).op
            name == Statement(p).item.name
            ids == IF op \in Named THEN With(job[p].ids, name, nextId) ELSE job[p].ids
<1>0. Good(p) /\ Place(p) /\ Naming(p) /\ Writes(p) /\ Storage /\ Len(Statements[p]) \in Nat
  BY StatementOrder DEF IInv, Good
<1>1. /\ job[p].pc = "statement" /\ job[p].at \in 1..Len(Statements[p])
      /\ op \in Tables /\ store' = store /\ nextId' = nextId + 1
      /\ tx' = [tx EXCEPT ![p].ins = With(@, nextId, row)]
      /\ NextStatement(p, nextId)
  BY <1>0 DEF InsertRow, Upserting, AtStatement, Place
<1>2. Moved(p, "statement", job[p].at + 1, ids, job[p].todo, job[p].fetched)
  <2>1. job[p] = [pc |-> job[p].pc, at |-> job[p].at, ids |-> job[p].ids,
                  todo |-> job[p].todo, fetched |-> job[p].fetched]
    BY <1>0 DEF Place
  <2>2. job' = [job EXCEPT ![p].pc = "statement", ![p].at = @ + 1,
                           ![p].ids = IF op \in Named THEN With(@, name, nextId) ELSE @]
    BY <1>1 DEF NextStatement
  <2>. HIDE DEF op, name
  <2>. QED  BY <2>1, <2>2 DEF IInv, Moved, OnlyFor, Others
<1>3. /\ OnlyFor(p, tx, tx') /\ tx'[p].del = {} /\ tx[p].del = {}
      /\ tx'[p].ins = With(tx[p].ins, nextId, row)
  <2>1. tx[p].del = {}
    BY <1>1 DEF IInv, Good, Place, Inserts
  <2>2. tx[p] = [ins |-> tx[p].ins, del |-> tx[p].del, upd |-> tx[p].upd]
    BY <1>0 DEF Writes
  <2>3. tx'[p] = [tx[p] EXCEPT !.ins = With(tx[p].ins, nextId, row)]
        /\ OnlyFor(p, tx, tx')
    BY <1>1 DEF IInv, OnlyFor, Others
  <2>. HIDE DEF row
  <2>. QED  BY <2>1, <2>2, <2>3
<1>4. nextId \notin DOMAIN store /\ nextId \notin Inserted(p)
  BY <1>0 DEF Storage, Given, Writes
<1>5. /\ Inserted(p)' = Inserted(p) \cup {nextId}
      /\ tx'[p].ins[nextId] = row
      /\ \A i \in Inserted(p) : tx'[p].ins[i] = tx[p].ins[i]
  <2>. HIDE DEF row
  <2>. QED  BY <1>3, <1>4 DEF Inserted, With
<1>6. /\ DOMAIN View(p)' = DOMAIN View(p) \cup {nextId}
      /\ View(p)'[nextId] = row
      /\ \A i \in DOMAIN View(p) : View(p)'[i] = View(p)[i]
  <2>. HIDE DEF row
  <2>1. DOMAIN View(p)' = DOMAIN View(p) \cup {nextId}
    BY <1>1, <1>3, <1>5 DEF View, Inserted
  <2>2. View(p)'[nextId] = row
    BY <1>1, <1>3, <1>5 DEF View, Inserted
  <2>3. ASSUME NEW i \in DOMAIN View(p)  PROVE View(p)'[i] = View(p)[i]
    <3>1. i # nextId
      BY <1>4, Seen
    <3>2. i \in Inserted(p) <=> i \in Inserted(p)'
      BY <1>5, <3>1
    <3>. QED  BY <1>1, <1>3, <1>5, <3>2 DEF View, Inserted
  <2>. QED  BY <2>1, <2>2, <2>3
<1>7. Plain(p)'
  <2>1. row.table = "documents" => row.rest = Null
    <3>1. row.table = op
      BY <1>0, <1>1, NextRow
    <3>. QED  BY <3>1 DEF NewRow, Row, Named
  <2>. HIDE DEF row
  <2>. QED  BY <1>5, <2>1 DEF CInv, Plain
<1>8. job'[p].pc = "statement" /\ job'[p].at = job[p].at + 1 /\ job'[p].ids = ids
  BY <1>2 DEF Moved
<1>9. ASSUME SameSeed  PROVE Kept(p)'
  <2>1. Sparing(p) /\ Achieved(p) /\ job[p].at \in Nat
    BY <1>1, <1>9 DEF CInv, Kept, Ingesting
  <2>2. Sparing(p)'
    BY <1>3, <1>8 DEF Sparing, Marked
  <2>3. CASE op \in Named
    <3>1. Ids(p)' \subseteq DOMAIN View(p)'
      <4>. HIDE DEF row, op, name
      <4>1. job'[p].ids = With(job[p].ids, name, nextId)
        BY <1>8, <2>3
      <4>2. Ids(p)' \subseteq Ids(p) \cup {nextId}
        BY <4>1, IdsAfter
      <4>. QED  BY <1>6, <2>1, <4>2 DEF Achieved
    <3>2. \A k \in 1..job[p].at : Done(p, job'[p].ids, View(p)', k)
      BY <1>1, <2>3, EarlyIsDone DEF Statement
    <3>3. Achieved(p)'
      BY <1>8, <2>1, <3>1, <3>2 DEF Achieved
    <3>. QED  BY <2>2, <3>3 DEF Kept
  <2>4. CASE op \notin Named
    <3>1. job'[p].ids = job[p].ids /\ Ids(p)' = Ids(p)
      BY <1>8, <2>4 DEF Ids
    <3>2. ASSUME NEW k \in 1..job[p].at
          PROVE  Lacked(p, job[p].ids, Statements[p][k], View(p)', {})
      BY <1>1, EarlyIsDone DEF Statement
    <3>3. ASSUME NEW k \in 1..(job[p].at - 1)
          PROVE  Had(job[p].ids, Statements[p][k], View(p)')
      <4>1. Had(job[p].ids, Statements[p][k], View(p))
        BY <2>1 DEF Achieved, Done
      <4>. QED  BY <1>6, <4>1 DEF Had
    <3>4. Had(job[p].ids, Statement(p), View(p)')
      <4>1. Provides(job[p].ids, Statement(p), View(p)'[nextId])
        BY <1>0, <1>1, <1>6, <2>4, RowProvides
      <4>. QED  BY <1>6, <4>1 DEF Had
    <3>5. \A k \in 1..((job[p].at + 1) - 1) : Done(p, job[p].ids, View(p)', k)
      <4>1. \A k \in 1..(job[p].at - 1) : k \in 1..job[p].at
        BY <2>1
      <4>2. job[p].at \in 1..job[p].at
        BY <1>1
      <4>3. /\ \A k \in 1..(job[p].at - 1) : Done(p, job[p].ids, View(p)', k)
            /\ Done(p, job[p].ids, View(p)', job[p].at)
        BY <3>2, <3>3, <3>4, <4>1, <4>2 DEF Done, Statement
      <4>. QED  BY <2>1, <4>3, DoneGrows
    <3>6. Achieved(p)'
      BY <1>6, <1>8, <2>1, <3>1, <3>5 DEF Achieved
    <3>. QED  BY <2>2, <3>6 DEF Kept
  <2>. QED  BY <2>3, <2>4
<1>. QED  BY <1>1, <1>2, <1>3, <1>5, <1>7, <1>8, <1>9, OwnStep DEF Moved

\* The id that is read is that of a row in the view.
LEMMA SelectIdKept ==
  ASSUME IInv, CInv, NEW p \in Jobs, SelectId(p)
  PROVE  CInv'
<1>0. Good(p) /\ Place(p) /\ Naming(p) /\ Len(Statements[p]) \in Nat
  BY StatementOrder DEF IInv, Good
<1>1. /\ job[p].pc = "lookup" /\ job[p].at \in 1..Len(Statements[p])
      /\ Statement(p).op \in Named /\ UNCHANGED <<store, nextId, tx>>
  BY <1>0 DEF SelectId, Place
<1>2. PICK i \in DOMAIN View(p) : NextStatement(p, i)
  BY DEF SelectId, Matches
<1>. DEFINE ids == With(job[p].ids, Statement(p).item.name, i)
<1>3. Moved(p, "statement", job[p].at + 1, ids, job[p].todo, job[p].fetched)
  <2>1. job[p] = [pc |-> job[p].pc, at |-> job[p].at, ids |-> job[p].ids,
                  todo |-> job[p].todo, fetched |-> job[p].fetched]
    BY <1>0 DEF Place
  <2>2. job' = [job EXCEPT ![p].pc = "statement", ![p].at = @ + 1,
                           ![p].ids = With(@, Statement(p).item.name, i)]
    BY <1>1, <1>2 DEF NextStatement
  <2>. QED  BY <2>1, <2>2 DEF IInv, Moved, OnlyFor, Others
<1>4. job'[p].pc = "statement" /\ job'[p].at = job[p].at + 1 /\ job'[p].ids = ids
  BY <1>3 DEF Moved
<1>5. /\ View(p)' = View(p) /\ Inserted(p)' = Inserted(p) /\ OnlyFor(p, tx, tx')
      /\ tx'[p].del = {}
  BY <1>0, <1>1, <1>4 DEF View, Inserted, IInv, OnlyFor, Others, Place, Inserts, Tables, Named
<1>6. Plain(p)'
  BY <1>1, <1>5 DEF CInv, Plain
<1>7. ASSUME SameSeed  PROVE Kept(p)'
  <2>1. Achieved(p)
    BY <1>1, <1>7 DEF CInv, Kept, Ingesting
  <2>2. Sparing(p)'
    BY <1>4, <1>5 DEF Sparing, Marked
  <2>3. Ids(p)' \subseteq DOMAIN View(p)'
    BY <1>2, <1>4, <1>5, <2>1, IdsAfter DEF Achieved
  <2>4. \A k \in 1..job[p].at : Done(p, job'[p].ids, View(p)', k)
    BY <1>1, EarlyIsDone DEF Statement
  <2>5. Achieved(p)'
    BY <1>1, <1>4, <2>3, <2>4 DEF Achieved
  <2>. QED  BY <2>2, <2>5 DEF Kept
<1>. QED  BY <1>1, <1>3, <1>4, <1>5, <1>6, <1>7, OwnStep DEF Moved

-----------------------------------------------------------------------------
(* The sweeps. *)

\* A row of the seed refers to rows whose ids the job has read.
LEMMA SeedRefs ==
  ASSUME NEW p \in Jobs, NEW row, IsRow(row), InSeed(p, job[p].ids, row)
  PROVE  row.refs \subseteq Ids(p)
<1>. DEFINE id == job[p].ids
<1>1. CASE row.table \in Named
  BY <1>1 DEF IsRow
<1>2. ASSUME NEW e \in Properties(p), IsFact(id, e, row)
      PROVE  row.refs \subseteq Ids(p)
  <2>1. row.key = <<id[e.object], e.property, id[e.source]>>
    BY <1>2 DEF IsFact
  <2>2. row.refs = {row.key[1], row.key[3]}
    BY <1>2 DEF IsFact, IsRow
  <2>3. row.refs = {id[e.object], id[e.source]}
    <3>. DEFINE x == id[e.object]
                y == e.property
                z == id[e.source]
                t == row.key
    <3>1. t = <<x, y, z>>
      BY <2>1
    <3>. HIDE DEF x, y, z, t
    <3>2. t[1] = x /\ t[3] = z
      BY <3>1
    <3>. QED  BY <2>2, <3>2 DEF x, z, t
  <2>. QED  BY <1>2, <2>3 DEF IsFact, Ids
<1>3. ASSUME NEW d \in Documents(p), IsText(id, d, row)
      PROVE  row.refs \subseteq Ids(p)
  BY <1>3 DEF IsText, IsRow, Ids
<1>. QED  BY <1>1, <1>2, <1>3 DEF InSeed, Named

\* When the statements before number n are done, and it is the last sweep,
\* there are only facts, texts and objects of the seed.
LEMMA SweptIsSeed ==
  ASSUME NEW p \in Jobs, NEW id, NEW n, LastSweep(p, n), NEW rows,
         \A k \in 1..(n - 1) : Done(p, id, rows, k), NEW i \in DOMAIN rows,
         rows[i].table \in {"object_properties", "documents", "objects"}
  PROVE  InSeed(p, id, rows[i])
<1>1. \A k \in 1..(n - 1) : ~Removes(p, id, Statements[p][k], rows[i])
  BY DEF Done, Lacked
<1>2. CASE rows[i].table = "object_properties"
  <2>1. PICK k \in 1..(n - 1) : Statements[p][k].op = "sweep_properties"
    BY DEF LastSweep
  <2>. QED  BY <1>1, <1>2, <2>1 DEF Removes
<1>3. CASE rows[i].table = "objects"
  <2>1. PICK k \in 1..(n - 1) : Statements[p][k].op = "sweep_objects"
    BY DEF LastSweep
  <2>. QED  BY <1>1, <1>3, <2>1 DEF Removes
<1>4. CASE rows[i].table = "documents"
  <2>1. PICK k \in 1..(n - 1) : Statements[p][k].op = "sweep_elsewhere"
    BY DEF LastSweep
  <2>2. PICK d \in Documents(p) : rows[i].key[2] = id[d.source]
    BY <1>1, <1>4, <2>1 DEF Removes
  <2>3. PICK l \in 1..(n - 1) : /\ Statements[p][l].op = "sweep_source"
                                /\ Statements[p][l].item = d.source
    BY DEF LastSweep
  <2>. QED  BY <1>1, <1>4, <2>2, <2>3 DEF Removes
<1>. QED  BY <1>2, <1>3, <1>4

\* A source that is in use when the sources are swept is one of the seed.
LEMMA UsedSources ==
  ASSUME NEW p \in Jobs, Good(p), Storage, Achieved(p),
         job[p].at \in 1..Len(Statements[p]), Statement(p).op = "sweep_sources",
         NEW i \in DOMAIN View(p), View(p)[i].table = "sources",
         NEW j \in DOMAIN View(p), i \in View(p)[j].refs
  PROVE  View(p)[i].key \in Sources(p)
<1>1. Len(Statements[p]) \in Nat /\ LastSweep(p, Len(Statements[p]))
  BY StatementOrder
<1>2. job[p].at = Len(Statements[p])
  <2>1. job[p].at \notin 1..(Len(Statements[p]) - 1)
    BY <1>1 DEF LastSweep, Statement
  <2>. QED  BY <1>1, <2>1
<1>3. IsRow(View(p)[j])
  BY Seen DEF Storage, Good, Writes
<1>4. View(p)[j].table \in {"object_properties", "documents"}
  BY <1>3 DEF IsRow, Tables, Named
<1>5. InSeed(p, job[p].ids, View(p)[j])
  <2>1. \A k \in 1..(Len(Statements[p]) - 1) : Done(p, job[p].ids, View(p), k)
    BY <1>2 DEF Achieved
  <2>. QED  BY <1>1, <1>4, <2>1, SweptIsSeed
<1>6. i \in Ids(p)
  BY <1>3, <1>5, SeedRefs
<1>7. PICK n \in DOMAIN job[p].ids : i = job[p].ids[n]
  BY <1>6 DEF Ids
<1>8. Names(p, n, View(p)[i])
  BY <1>7, Seen DEF Good, Naming
<1>. QED  BY <1>8 DEF Names

\* A sweep finds the rows that are not of the seed, and all that it removes.
LEMMA SweepsFindStale ==
  ASSUME NEW p \in Jobs, Good(p), Storage, Achieved(p),
         job[p].at \in 1..Len(Statements[p]), NEW stale,
         \/ /\ Statement(p).op = "sweep_properties"
            /\ stale = StaleProperties(p)
         \/ /\ Statement(p).op = "sweep_source"
            /\ stale = StaleDocuments(p, Statement(p).item)
         \/ /\ Statement(p).op = "sweep_elsewhere"
            /\ stale = DocumentsElsewhere(p)
         \/ Statement(p).op = "sweep_objects" /\ stale = StaleObjects(p)
         \/ Statement(p).op = "sweep_sources" /\ stale = StaleSources(p)
  PROVE  /\ \A i \in stale : ~InSeed(p, job[p].ids, View(p)[i])
         /\ Lacked(p, job[p].ids, Statement(p), View(p), stale)
<1>. DEFINE id == job[p].ids
<1>1. DOMAIN id = Sources(p) \cup Objects(p)
  <2>1. Statement(p).op \notin Named
    BY DEF Named
  <2>. QED  BY <2>1, AllNamesAreKnown DEF Good
<1>. SUFFICES ASSUME NEW i \in DOMAIN View(p)
              PROVE  /\ i \in stale => ~InSeed(p, id, View(p)[i])
                     /\ i \notin stale => ~Removes(p, id, Statement(p), View(p)[i])
  <2>1. stale \subseteq DOMAIN View(p)
    BY DEF StaleProperties, StaleDocuments, DocumentsElsewhere, StaleObjects,
           StaleSources, In
  <2>. QED  BY <2>1 DEF Lacked
<1>2. PICK row : row = View(p)[i]
  OBVIOUS
<1>3. /\ row.table = "object_properties" =>
           (InSeed(p, id, row) <=>
              \E e \in Properties(p) :
                row.key = <<id[e.object], e.property, id[e.source]>>)
      /\ row.table = "documents" =>
           (InSeed(p, id, row) <=>
              \E d \in Documents(p) : row.key[1] = d.content /\ row.key[2] = id[d.source])
  <2>1. \A e \in Properties(p) : e.object \in DOMAIN id /\ e.source \in DOMAIN id
    BY <1>1, SeedIsClosed
  <2>2. \A d \in Documents(p) : d.source \in DOMAIN id
    BY <1>1, SeedIsClosed
  <2>. HIDE DEF id
  <2>. QED  BY <2>1, <2>2 DEF InSeed, IsFact, IsText
<1>4. CASE Statement(p).op = "sweep_properties" /\ stale = StaleProperties(p)
  <2>1. i \in stale <=> /\ row.table = "object_properties"
                        /\ ~ \E e \in Properties(p) :
                               row.key = <<id[e.object], e.property, id[e.source]>>
    BY <1>2, <1>4 DEF StaleProperties, In
  <2>2. Removes(p, id, Statement(p), row) <=> row.table = "object_properties" /\ ~InSeed(p, id, row)
    BY <1>4 DEF Removes
  <2>. QED  BY <1>2, <1>3, <2>1, <2>2
<1>5. CASE Statement(p).op = "sweep_source" /\ stale = StaleDocuments(p, Statement(p).item)
  <2>. DEFINE s == Statement(p).item
  <2>1. s \in DOMAIN id
    <3>1. OfItsTable(p, Statement(p))
      BY StatementOrder DEF Statement
    <3>. QED  BY <1>1, <1>5, <3>1, SeedIsClosed DEF OfItsTable
  <2>2. i \in stale <=> /\ row.table = "documents" /\ row.key[2] = id[s]
                        /\ \A d \in Documents(p) : d.source = s => d.content # row.key[1]
    BY <1>2, <1>5 DEF StaleDocuments, In
  <2>3. \A d \in Documents(p) : id[d.source] = id[s] => d.source = s
    BY <1>1, <2>1, SeedIsClosed DEF Good, Naming
  <2>4. Removes(p, id, Statement(p), row) <=>
          row.table = "documents" /\ row.key[2] = id[s] /\ ~InSeed(p, id, row)
    BY <1>5 DEF Removes
  <2>. HIDE DEF s
  <2>. QED  BY <1>2, <2>2, <2>3, <2>4, <1>3
<1>6. CASE Statement(p).op = "sweep_elsewhere" /\ stale = DocumentsElsewhere(p)
  <2>1. i \in stale <=> /\ row.table = "documents"
                        /\ \A d \in Documents(p) : row.key[2] # id[d.source]
    BY <1>2, <1>6 DEF DocumentsElsewhere, In
  <2>2. Removes(p, id, Statement(p), row) <=>
          /\ row.table = "documents"
          /\ \A d \in Documents(p) : row.key[2] # id[d.source]
    BY <1>6 DEF Removes
  <2>. QED  BY <1>2, <1>3, <2>1, <2>2
<1>7. CASE Statement(p).op = "sweep_objects" /\ stale = StaleObjects(p)
  <2>1. i \in stale <=> row.table = "objects" /\ row.key \notin Objects(p)
    BY <1>2, <1>7 DEF StaleObjects, In
  <2>2. Removes(p, id, Statement(p), row) <=> row.table = "objects" /\ ~InSeed(p, id, row)
    BY <1>7 DEF Removes
  <2>. QED  BY <1>2, <2>1, <2>2 DEF InSeed, IsFact, IsText
<1>8. CASE Statement(p).op = "sweep_sources" /\ stale = StaleSources(p)
  <2>1. i \in stale <=> /\ row.table = "sources" /\ row.key \notin Sources(p)
                        /\ \A j \in DOMAIN View(p) : i \notin View(p)[j].refs
    BY <1>2, <1>8 DEF StaleSources, In
  <2>2. Removes(p, id, Statement(p), row) <=> row.table = "sources" /\ ~InSeed(p, id, row)
    BY <1>8 DEF Removes
  <2>3. \A j \in DOMAIN View(p) : row.table = "sources" /\ i \in View(p)[j].refs
                                    => row.key \in Sources(p)
    BY <1>2, <1>8, UsedSources
  <2>. QED  BY <1>2, <2>1, <2>2, <2>3 DEF InSeed, IsFact, IsText
<1>. QED  BY <1>4, <1>5, <1>6, <1>7, <1>8

\* A sweep that marks no row of the seed, and all that it removes.
LEMMA SweepKept ==
  ASSUME IInv, CInv, NEW p \in Jobs, UNCHANGED <<store, nextId, tx>>,
         job[p].pc \in {"statement", "rows"}, NEW stale,
         stale \subseteq DOMAIN View(p),
         Moved(p, "rows", job[p].at, job[p].ids, stale, job[p].fetched),
         SameSeed => /\ \A i \in stale : ~InSeed(p, job[p].ids, View(p)[i])
                     /\ Lacked(p, job[p].ids, Statement(p), View(p), stale)
  PROVE  CInv'
<1>1. /\ job'[p].pc = "rows" /\ job'[p].at = job[p].at
      /\ job'[p].ids = job[p].ids /\ job'[p].todo = stale
  BY DEF Moved
<1>2. /\ View(p)' = View(p) /\ Ids(p)' = Ids(p) /\ Statement(p)' = Statement(p)
      /\ \A q \in Jobs : Inserted(q)' = Inserted(q)
      /\ Marked(p)' = tx[p].del \cup stale /\ OnlyFor(p, tx, tx')
  BY <1>1 DEF View, Ids, Statement, Inserted, Marked, IInv, OnlyFor, Others
<1>3. Plain(p)'
  BY <1>2 DEF CInv, Plain
<1>4. ASSUME SameSeed  PROVE Kept(p)'
  <2>1. Sparing(p) /\ Achieved(p) /\ Good(p)
    BY <1>4 DEF CInv, IInv, Kept, Ingesting
  <2>2. ASSUME NEW i \in stale \cap DOMAIN store
        PROVE  ~InSeed(p, job[p].ids, store[i])
    <3>1. i \in DOMAIN View(p) /\ i \notin Inserted(p)
      BY <2>1 DEF Good, Writes
    <3>2. View(p)[i] = store[i]
      BY <3>1, Seen
    <3>. QED  BY <1>4, <3>2
  <2>3. ASSUME NEW q \in Others(p)  PROVE stale \cap Inserted(q) = {}
    <3>1. stale \subseteq DOMAIN store \cup Inserted(p)
      BY Seen
    <3>2. Apart(p, q) /\ Writes(q)
      BY DEF IInv, Good, Others
    <3>. QED  BY <3>1, <3>2 DEF Apart, Writes
  <2>4. Sparing(p)'
    <3>1. \A i \in Marked(p)' \cap DOMAIN store : ~InSeed(p, job[p].ids, store[i])
      BY <1>2, <2>1, <2>2 DEF Sparing, Marked
    <3>2. \A q \in Others(p) : Marked(p)' \cap Inserted(q) = {}
      BY <1>2, <2>1, <2>3 DEF Sparing, Marked
    <3>3. \A q \in Others(p) : Inserted(q)' = Inserted(q)
      BY <1>2 DEF Others
    <3>. QED  BY <1>1, <3>1, <3>2, <3>3 DEF Sparing
  <2>5. Achieved(p)'
    BY <1>1, <1>2, <1>4, <2>1 DEF Achieved
  <2>. QED  BY <2>4, <2>5 DEF Kept
<1>. QED  BY <1>1, <1>2, <1>3, <1>4, OwnStep DEF Moved

\* A deletion begins.
LEMMA BeginDeleteKept ==
  ASSUME IInv, CInv, NEW p \in Jobs, BeginDelete(p)
  PROVE  CInv'
<1>0. Good(p) /\ Place(p) /\ Storage /\ Len(Statements[p]) \in Nat
  BY StatementOrder DEF IInv, Good
<1>1. /\ job[p].pc = "statement" /\ job[p].at \in 1..Len(Statements[p])
      /\ UNCHANGED <<store, nextId, tx>>
  BY <1>0 DEF BeginDelete, AtStatement, Place
<1>2. PICK stale :
        /\ job' = [job EXCEPT ![p].pc = "rows", ![p].todo = stale]
        /\ \/ /\ Statement(p).op = "sweep_properties"
              /\ stale = StaleProperties(p)
           \/ /\ Statement(p).op = "sweep_source"
              /\ stale = StaleDocuments(p, Statement(p).item)
           \/ /\ Statement(p).op = "sweep_elsewhere"
              /\ stale = DocumentsElsewhere(p)
           \/ Statement(p).op = "sweep_objects" /\ stale = StaleObjects(p)
           \/ Statement(p).op = "sweep_sources" /\ stale = StaleSources(p)
  BY DEF BeginDelete, Sweep
<1>3. stale \subseteq DOMAIN View(p)
  BY <1>2 DEF StaleProperties, StaleDocuments, DocumentsElsewhere, StaleObjects,
              StaleSources, In
<1>4. Moved(p, "rows", job[p].at, job[p].ids, stale, job[p].fetched)
  <2>1. job[p] = [pc |-> job[p].pc, at |-> job[p].at, ids |-> job[p].ids,
                  todo |-> job[p].todo, fetched |-> job[p].fetched]
    BY <1>0 DEF Place
  <2>2. job' = [job EXCEPT ![p].pc = "rows", ![p].todo = stale]
    BY <1>2
  <2>. QED  BY <2>1, <2>2 DEF IInv, Moved, OnlyFor, Others
<1>5. ASSUME SameSeed
      PROVE  /\ \A i \in stale : ~InSeed(p, job[p].ids, View(p)[i])
             /\ Lacked(p, job[p].ids, Statement(p), View(p), stale)
  <2>1. Achieved(p)
    BY <1>1, <1>5 DEF CInv, Kept, Ingesting
  <2>. QED  BY <1>0, <1>1, <1>2, <2>1, SweepsFindStale
<1>. QED  BY <1>1, <1>3, <1>4, <1>5, SweepKept

\* What falls with an object is not of the seed: what is refers to rows
\* that the job has read, and they are there.
LEMMA CascadeKept ==
  ASSUME IInv, CInv, NEW p \in Jobs, Cascade(p)
  PROVE  CInv'
<1>. DEFINE stale == Orphans(View(p))
<1>0. Good(p) /\ Place(p) /\ Storage
  BY DEF IInv, Good
<1>1. /\ job[p].pc = "rows" /\ job[p].todo = {} /\ UNCHANGED <<store, nextId, tx>>
      /\ job' = [job EXCEPT ![p].todo = stale]
  BY DEF Cascade
<1>2. stale \subseteq DOMAIN View(p)
  BY DEF Orphans
<1>3. Moved(p, "rows", job[p].at, job[p].ids, stale, job[p].fetched)
  <2>1. job[p] = [pc |-> "rows", at |-> job[p].at, ids |-> job[p].ids,
                  todo |-> job[p].todo, fetched |-> job[p].fetched]
    BY <1>0, <1>1 DEF Place
  <2>. QED  BY <1>1, <2>1 DEF IInv, Moved, OnlyFor, Others
<1>4. ASSUME SameSeed
      PROVE  /\ \A i \in stale : ~InSeed(p, job[p].ids, View(p)[i])
             /\ Lacked(p, job[p].ids, Statement(p), View(p), stale)
  <2>1. Achieved(p)
    BY <1>1, <1>4 DEF CInv, Kept, Ingesting
  <2>2. ASSUME NEW i \in stale, InSeed(p, job[p].ids, View(p)[i])  PROVE FALSE
    <3>1. IsRow(View(p)[i])
      BY <1>0, <1>2, Seen DEF Storage, Good, Writes
    <3>2. View(p)[i].refs \subseteq Ids(p)
      BY <2>2, <3>1, SeedRefs
    <3>. QED  BY <2>1, <3>2 DEF Achieved, Orphans
  <2>3. Lacked(p, job[p].ids, Statement(p), View(p), {})
    BY <1>1, <2>1 DEF Achieved
  <2>. QED  BY <2>2, <2>3 DEF Lacked
<1>. QED  BY <1>1, <1>2, <1>3, <1>4, SweepKept

\* The row that is deleted was marked, so nothing of the seed goes.
LEMMA DeleteRowKept ==
  ASSUME IInv, CInv, NEW p \in Jobs, DeleteRow(p)
  PROVE  CInv'
<1>. DEFINE i == Least(job[p].todo)
            del == IF i \in DOMAIN View(p) THEN tx[p].del \cup {i} ELSE tx[p].del
            todo == job[p].todo \ {i}
<1>0. Good(p) /\ Place(p) /\ Writes(p) /\ Own(p) /\ Naming(p) /\ Storage
  BY DEF IInv, Good
<1>1. /\ job[p].pc = "rows" /\ job[p].todo # {}
      /\ tx' = [tx EXCEPT ![p].del = IF i \in DOMAIN View(p)
                                     THEN @ \cup {i} ELSE @]
      /\ job' = [job EXCEPT ![p].todo = @ \ {i}]
      /\ UNCHANGED <<store, nextId>>
  BY DEF DeleteRow
<1>2. i \in job[p].todo
  <2>1. job[p].todo \subseteq Nat
    BY <1>0 DEF Place, Given
  <2>. QED  BY <1>1, <2>1, LeastNumber
<1>. HIDE DEF i
<1>3. Moved(p, "rows", job[p].at, job[p].ids, todo, job[p].fetched)
  <2>1. job[p] = [pc |-> "rows", at |-> job[p].at, ids |-> job[p].ids,
                  todo |-> job[p].todo, fetched |-> job[p].fetched]
    BY <1>0, <1>1 DEF Place
  <2>. QED  BY <1>1, <2>1 DEF IInv, Moved, OnlyFor, Others
<1>4. OnlyFor(p, tx, tx') /\ tx'[p].ins = tx[p].ins /\ tx'[p].del = del
  <2>1. tx[p] = [ins |-> tx[p].ins, del |-> tx[p].del, upd |-> tx[p].upd]
    BY <1>0 DEF Writes
  <2>2. OnlyFor(p, tx, tx') /\ tx'[p] = [tx[p] EXCEPT !.del = del]
    BY <1>1 DEF IInv, OnlyFor, Others
  <2>. HIDE DEF del
  <2>. QED  BY <2>1, <2>2
<1>5. /\ job'[p].pc = "rows" /\ job'[p].at = job[p].at
      /\ job'[p].ids = job[p].ids /\ job'[p].todo = todo
  BY <1>3 DEF Moved
<1>6. /\ Inserted(p)' = Inserted(p) /\ Ids(p)' = Ids(p)
      /\ Statement(p)' = Statement(p) /\ Marked(p)' \subseteq Marked(p)
  BY <1>1, <1>2, <1>4, <1>5 DEF Inserted, Ids, Statement, Marked
<1>7. /\ DOMAIN View(p)' = DOMAIN View(p) \ {i}
      /\ \A j \in DOMAIN View(p)' : View(p)'[j] = View(p)[j]
  <2>1. \A j : View(p)[j] = View(p)[j]
    OBVIOUS
  <2>. QED  BY <1>1, <1>4 DEF View
<1>8. Plain(p)'
  BY <1>4, <1>6 DEF CInv, Plain
<1>9. ASSUME SameSeed  PROVE Kept(p)'
  <2>1. Sparing(p) /\ Achieved(p)
    BY <1>1, <1>9 DEF CInv, Kept, Ingesting
  <2>2. Sparing(p)'
    BY <1>1, <1>4, <1>5, <1>6, <2>1, StillSparing
  <2>3. i \notin Ids(p) /\ i \notin Inserted(p)
    BY <1>0, <1>1, <1>2 DEF Own
  <2>4. i \in DOMAIN View(p) => ~InSeed(p, job[p].ids, View(p)[i])
    <3>. SUFFICES ASSUME i \in DOMAIN View(p)
                  PROVE  ~InSeed(p, job[p].ids, View(p)[i])
      OBVIOUS
    <3>1. i \in DOMAIN store /\ View(p)[i] = store[i]
      BY <2>3, Seen
    <3>. QED  BY <1>1, <1>2, <2>1, <3>1 DEF Sparing, Marked
  <2>5. ASSUME NEW k \in 1..(job[p].at - 1)
        PROVE  Done(p, job[p].ids, View(p)', k)
    <3>. DEFINE st == Statements[p][k]
    <3>0. k \in 1..Len(Statements[p])
      BY <1>0, StatementOrder DEF Place
    <3>1. Done(p, job[p].ids, View(p), k)
      BY <2>1 DEF Achieved
    <3>2. Had(job[p].ids, st, View(p)')
      <4>. SUFFICES ASSUME st.op \in {"object_properties", "documents"}
                    PROVE  \E j \in DOMAIN View(p)' : Provides(job[p].ids, st, View(p)'[j])
        BY DEF Had
      <4>1. PICK j \in DOMAIN View(p) : Provides(job[p].ids, st, View(p)[j])
        BY <3>1 DEF Done, Had
      <4>2. InSeed(p, job[p].ids, View(p)[j])
        BY <3>0, <4>1, ProvidedIsInSeed
      <4>. QED  BY <1>7, <2>4, <4>1, <4>2
    <3>3. Lacked(p, job[p].ids, st, View(p)', {})
      BY <1>7, <3>1 DEF Done, Lacked
    <3>. QED  BY <3>2, <3>3 DEF Done
  <2>6. Lacked(p, job[p].ids, Statement(p), View(p)', todo)
    <3>1. Lacked(p, job[p].ids, Statement(p), View(p), job[p].todo)
      BY <1>1, <2>1 DEF Achieved
    <3>. QED  BY <1>7, <3>1 DEF Lacked
  <2>7. Ids(p) \subseteq DOMAIN View(p)'
    BY <1>7, <2>1, <2>3 DEF Achieved
  <2>8. Achieved(p)'
    BY <1>5, <1>6, <2>5, <2>6, <2>7 DEF Achieved
  <2>. QED  BY <2>2, <2>8 DEF Kept
<1>. QED  BY <1>1, <1>3, <1>4, <1>5, <1>6, <1>8, <1>9, OwnStep DEF Moved

-----------------------------------------------------------------------------
(* Commits. *)

\* What the job sees of a name is the row that has it.
LEMMA NameSeen ==
  ASSUME NEW p \in Jobs, Naming(p), NEW n \in DOMAIN job[p].ids,
         job[p].ids[n] \in DOMAIN View(p)
  PROVE  Names(p, n, View(p)[job[p].ids[n]])
BY Seen DEF Naming

\* The references that a commit brings are those of the schema.
LEMMA CommitRefers ==
  ASSUME NEW p \in Jobs, Good(p), Storage, RefersAsDeclared(store),
         Commit(p), Orphans(View(p)) = {}
  PROVE  RefersAsDeclared(store')
<1>. DEFINE id == job[p].ids
<1>1. /\ DOMAIN store' = DOMAIN View(p)
      /\ \A i \in DOMAIN store' :
           /\ IsRow(store'[i])
           /\ store'[i].table = View(p)[i].table
           /\ store'[i].key = View(p)[i].key
           /\ store'[i].refs = View(p)[i].refs
           /\ i \in Inserted(p) => store'[i] = tx[p].ins[i]
           /\ i \notin Inserted(p) => /\ i \in DOMAIN store
                                      /\ store'[i].table = store[i].table
                                      /\ store'[i].key = store[i].key
                                      /\ store'[i].refs = store[i].refs
  BY Committed DEF Good
<1>2. \A i \in DOMAIN store' : store'[i].refs \subseteq DOMAIN store'
  BY <1>1 DEF Orphans
\* A reference of an old row is to an old row.
<1>3. ASSUME NEW i \in DOMAIN store', i \notin Inserted(p), NEW t \in store'[i].refs
      PROVE  store'[t].table = store[t].table
  <2>1. t \in DOMAIN store
    BY <1>1, <1>3 DEF Storage, Orphans
  <2>2. t \in DOMAIN store' /\ t \notin Inserted(p)
    BY <1>2, <2>1 DEF Good, Writes
  <2>. QED  BY <1>1, <2>2
\* A reference of a new row is to a row that the job knows by name.
<1>4. ASSUME NEW n \in DOMAIN id, id[n] \in DOMAIN store'
      PROVE  Names(p, n, store'[id[n]])
  BY <1>1, <1>4, NameSeen DEF Good, Names
<1>5. ASSUME NEW i \in In("documents", store')
      PROVE  store'[store'[i].key[2]].table = "sources"
  <2>1. i \in DOMAIN store' /\ store'[i].table = "documents"
    BY DEF In
  <2>2. store'[i].key[2] \in store'[i].refs
    BY <1>1, <2>1 DEF IsRow
  <2>3. CASE i \notin Inserted(p)
    <3>1. i \in In("documents", store) /\ store'[i].key = store[i].key
      BY <1>1, <2>1, <2>3 DEF In
    <3>2. store[store[i].key[2]].table = "sources"
      BY <3>1 DEF RefersAsDeclared
    <3>. QED  BY <1>3, <2>1, <2>2, <2>3, <3>1, <3>2
  <2>4. CASE i \in Inserted(p)
    <3>1. InSeed(p, id, store'[i])
      BY <1>1, <2>1, <2>4, InsertedIsInSeed
    <3>2. PICK d \in Documents(p) : IsText(id, d, store'[i])
      BY <2>1, <3>1 DEF InSeed, IsFact
    <3>3. d.source \in DOMAIN id /\ store'[i].key[2] = id[d.source]
      BY <3>2 DEF IsText
    <3>4. Names(p, d.source, store'[id[d.source]])
      BY <1>2, <1>4, <2>1, <2>2, <3>3
    <3>. QED  BY <3>3, <3>4, SeedIsClosed DEF Names
  <2>. QED  BY <2>3, <2>4
<1>6. ASSUME NEW i \in In("object_properties", store')
      PROVE  /\ store'[store'[i].key[1]].table = "objects"
             /\ store'[store'[i].key[3]].table = "sources"
  <2>1. i \in DOMAIN store' /\ store'[i].table = "object_properties"
    BY DEF In
  <2>2. store'[i].key[1] \in store'[i].refs /\ store'[i].key[3] \in store'[i].refs
    BY <1>1, <2>1 DEF IsRow
  <2>3. CASE i \notin Inserted(p)
    <3>1. i \in In("object_properties", store) /\ store'[i].key = store[i].key
      BY <1>1, <2>1, <2>3 DEF In
    <3>2. /\ store[store[i].key[1]].table = "objects"
          /\ store[store[i].key[3]].table = "sources"
      BY <3>1 DEF RefersAsDeclared
    <3>. QED  BY <1>3, <2>1, <2>2, <2>3, <3>1, <3>2
  <2>4. CASE i \in Inserted(p)
    <3>1. InSeed(p, id, store'[i])
      BY <1>1, <2>1, <2>4, InsertedIsInSeed
    <3>2. PICK e \in Properties(p) : IsFact(id, e, store'[i])
      BY <2>1, <3>1 DEF InSeed, IsText
    <3>. DEFINE x == id[e.object]
                y == e.property
                z == id[e.source]
                t == store'[i].key
    <3>3. e.object \in DOMAIN id /\ e.source \in DOMAIN id /\ t = <<x, y, z>>
      BY <3>2 DEF IsFact
    <3>4. t[1] = x /\ t[3] = z
      <4>1. t = <<x, y, z>>
        BY <3>3
      <4>. HIDE DEF x, y, z, t
      <4>. QED  BY <4>1
    <3>5. Names(p, e.object, store'[x]) /\ Names(p, e.source, store'[z])
      BY <1>2, <1>4, <2>1, <2>2, <3>3, <3>4
    <3>6. e.object \notin Sources(p) /\ e.source \in Sources(p)
      BY SeedIsClosed
    <3>. QED  BY <3>4, <3>5, <3>6 DEF Names
  <2>. QED  BY <2>3, <2>4
<1>. QED  BY <1>5, <1>6 DEF RefersAsDeclared

\* A commit at the end of the ingest, or of the backfill.
LEMMA CommitKept ==
  ASSUME IInv, CInv, NEW p \in Jobs, Commit(p), NEW pc \in {"fetch", "done"},
         job' = [job EXCEPT ![p].pc = pc], job[p].pc \in {"statement", "embed"}
  PROVE  CInv'
<1>1. OnlyFor(p, job, job') /\ job'[p].pc = pc
  <2>1. job[p] = [pc |-> job[p].pc, at |-> job[p].at, ids |-> job[p].ids,
                  todo |-> job[p].todo, fetched |-> job[p].fetched]
    BY DEF IInv, Good, Place
  <2>2. OnlyFor(p, job, job') /\ job'[p] = [job[p] EXCEPT !.pc = pc]
    BY DEF IInv, OnlyFor, Others
  <2>. QED  BY <2>1, <2>2
<1>2. OnlyFor(p, tx, tx') /\ Inserted(p)' = {}
  <2>1. tx' = [tx EXCEPT ![p] = NoWrites] /\ tx = [q \in Jobs |-> tx[q]]
    BY DEF Commit, IInv
  <2>2. OnlyFor(p, tx, tx') /\ tx'[p] = NoWrites
    BY <2>1 DEF OnlyFor, Others
  <2>. QED  BY <2>2 DEF Inserted, NoWrites, Empty
<1>3. SameSeed' <=> SameSeed
  BY <1>1 DEF SameSeed, OnlyFor, Others
<1>4. RefersAsDeclared(store')
  BY CommitRefers DEF CInv, IInv, Good, Writes
<1>5. \A q \in Jobs : Fresh(q)' /\ Plain(q)'
  BY <1>1, <1>2 DEF CInv, Fresh, Plain, Inserted, OnlyFor, Others
<1>6. ASSUME SameSeed, NEW q \in Jobs  PROVE Kept(q)'
  <2>1. CASE q = p
    BY <1>1, <2>1 DEF Kept, Ingesting
  <2>2. CASE q # p
    <3>1. q \in Others(p) /\ job'[q] = job[q]
      BY <1>1, <2>2 DEF OnlyFor, Others
    <3>2. job[p].pc \in Ingesting /\ job[q].pc \in Ingesting => Seed[p] = Seed[q]
      BY <1>6 DEF SameSeed, Ingesting
    <3>. QED  BY <1>6, <3>1, <3>2, CommitStaysKept DEF CInv
  <2>. QED  BY <2>1, <2>2
<1>. QED  BY <1>3, <1>4, <1>5, <1>6 DEF CInv

\* A job that gives up, or goes on without a transaction of the ingest.
LEMMA FailKept ==
  ASSUME IInv, CInv, NEW p \in Jobs, Fail(p), job[p].pc # "absent"
  PROVE  CInv'
<1>1. job[p] = [pc |-> job[p].pc, at |-> job[p].at, ids |-> job[p].ids,
                todo |-> job[p].todo, fetched |-> job[p].fetched]
  BY DEF IInv, Good, Place
<1>2. /\ OnlyFor(p, job, job') /\ job'[p] = [job[p] EXCEPT !.pc = "failed"]
      /\ OnlyFor(p, tx, tx') /\ tx'[p] = NoWrites /\ store' = store
  BY DEF Fail, IInv, OnlyFor, Others
<1>3. job'[p].pc = "failed" /\ Inserted(p)' = {}
  BY <1>1, <1>2 DEF Inserted, NoWrites, Empty
<1>. QED  BY <1>2, <1>3, LeaveKept DEF Ingesting

LEMMA BackfillKept ==
  ASSUME IInv, CInv, NEW p \in Jobs, FetchRows(p) \/ EmbedRow(p) \/ UpdateRow(p)
  PROVE  CInv'
<1>1. job[p] = [pc |-> job[p].pc, at |-> job[p].at, ids |-> job[p].ids,
                todo |-> job[p].todo, fetched |-> job[p].fetched]
  BY DEF IInv, Good, Place
<1>2. /\ job[p].pc \in {"fetch", "embed", "update"} /\ store' = store
  BY DEF FetchRows, EmbedRow, UpdateRow
<1>3. OnlyFor(p, job, job') /\ job'[p].pc \in {"embed", "update"}
  <2>1. CASE FetchRows(p)
    <3>. DEFINE rows == {i \in In("documents", store) : store[i].rest = Null}
                texts == [i \in rows |-> store[i].key[1]]
    <3>1. job' = [job EXCEPT ![p].pc = "embed", ![p].todo = rows, ![p].fetched = texts]
      BY <2>1 DEF FetchRows
    <3>. HIDE DEF rows, texts
    <3>. QED  BY <1>1, <3>1 DEF IInv, OnlyFor, Others
  <2>2. CASE EmbedRow(p)
    <3>1. job' = [job EXCEPT ![p].pc = "update"]
      BY <2>2 DEF EmbedRow
    <3>. QED  BY <1>1, <3>1 DEF IInv, OnlyFor, Others
  <2>3. CASE UpdateRow(p)
    <3>1. job' = [job EXCEPT ![p].pc = "embed", ![p].todo = @ \ {Least(job[p].todo)}]
      BY <2>3 DEF UpdateRow
    <3>. QED  BY <1>1, <3>1 DEF IInv, OnlyFor, Others
  <2>. QED  BY <2>1, <2>2, <2>3
<1>4. /\ OnlyFor(p, tx, tx') /\ tx'[p].ins = tx[p].ins
  <2>1. CASE FetchRows(p) \/ EmbedRow(p)
    BY <2>1 DEF FetchRows, EmbedRow, IInv, OnlyFor, Others
  <2>2. CASE UpdateRow(p)
    <3>. DEFINE i == Least(job[p].todo)
                upd == IF i \in DOMAIN store THEN With(tx[p].upd, i, job[p].fetched[i])
                                             ELSE tx[p].upd
    <3>1. tx' = [tx EXCEPT ![p].upd = IF i \in DOMAIN store
                                      THEN With(@, i, job[p].fetched[i]) ELSE @]
      BY <2>2 DEF UpdateRow
    <3>2. tx[p] = [ins |-> tx[p].ins, del |-> tx[p].del, upd |-> tx[p].upd]
      BY DEF IInv, Good, Writes
    <3>3. OnlyFor(p, tx, tx') /\ tx'[p] = [tx[p] EXCEPT !.upd = upd]
      BY <3>1 DEF IInv, OnlyFor, Others
    <3>. HIDE DEF upd
    <3>. QED  BY <3>2, <3>3
  <2>. QED  BY <2>1, <2>2
<1>5. Inserted(p)' = {}
  <2>1. Inserted(p) = {}
    BY <1>2 DEF IInv, Good, Place, Ingesting
  <2>. QED  BY <1>4, <2>1 DEF Inserted
<1>. QED  BY <1>2, <1>3, <1>4, <1>5, LeaveKept DEF Ingesting

\* It holds where the jobs begin.
LEMMA InitIsKept ==
  ASSUME Init
  PROVE  CInv
<1>1. PICK d \in Deployments :
        /\ store \in d.before
        /\ tx = [p \in Jobs |-> NoWrites]
        /\ job = [p \in Jobs |-> [pc |-> IF p \in d.jobs THEN "idle" ELSE "absent",
                                  at |-> 1, ids |-> Empty,
                                  todo |-> {}, fetched |-> Empty]]
  BY DEF Init
<1>2. RefersAsDeclared(store)
  BY <1>1, TablesAreSound
<1>3. \A p \in Jobs : /\ Inserted(p) = {}
                      /\ job[p].pc \in {"idle", "absent"} /\ job[p].at = 1
                      /\ DOMAIN job[p].ids = {}
  BY <1>1 DEF Inserted, NoWrites, Empty
<1>4. \A p \in Jobs : Fresh(p) /\ Plain(p) /\ Kept(p)
  BY <1>3 DEF Fresh, Plain, Kept, Ingesting
<1>. QED  BY <1>2, <1>4 DEF CInv

\* Every step keeps it.
LEMMA NextIsKept ==
  ASSUME IInv, CInv, Next
  PROVE  CInv'
<1>1. PICK p \in Jobs : Start(p) \/ Work(p) \/ Crash(p)
  BY DEF Next
<1>2. CASE Start(p)
  BY <1>2, StartKept
<1>3. CASE Crash(p)
  BY <1>3, FailKept DEF Crash, Active
<1>4. CASE ParentIsGone(p) \/ IdIsGone(p) \/ RestrictFails(p) \/ EmbedFails(p)
  <2>1. Fail(p) /\ job[p].pc # "absent"
    BY <1>4 DEF ParentIsGone, IdIsGone, RestrictFails, EmbedFails, Upserting, AtStatement
  <2>. QED  BY <2>1, FailKept
<1>5. CASE DeadlockAborts(p)
  <2>1. Fail(p) /\ job[p].pc # "absent"
    BY <1>5 DEF DeadlockAborts, Running, Active
  <2>. QED  BY <2>1, FailKept
<1>6. CASE InsertRow(p)
  BY <1>6, InsertRowKept
<1>7. CASE KeepRow(p)
  BY <1>7, KeepRowKept
<1>8. CASE SelectId(p)
  BY <1>8, SelectIdKept
<1>9. CASE BeginDelete(p)
  BY <1>9, BeginDeleteKept
<1>10. CASE DeleteRow(p)
  BY <1>10, DeleteRowKept
<1>11. CASE Cascade(p)
  BY <1>11, CascadeKept
<1>12. CASE EndDelete(p)
  BY <1>12, EndDeleteKept
<1>13. CASE CommitIngest(p)
  <2>. DEFINE pc == IF p \in Embedding THEN "fetch" ELSE "done"
  <2>1. /\ job[p].pc = "statement" /\ Commit(p) /\ job' = [job EXCEPT ![p].pc = pc]
    BY <1>13 DEF CommitIngest
  <2>2. pc \in {"fetch", "done"}
    OBVIOUS
  <2>. HIDE DEF pc
  <2>. QED  BY <2>1, <2>2, CommitKept
<1>14. CASE FetchRows(p) \/ EmbedRow(p) \/ UpdateRow(p)
  BY <1>14, BackfillKept
<1>15. CASE CommitBackfill(p)
  <2>1. /\ job[p].pc = "embed" /\ Commit(p) /\ job' = [job EXCEPT ![p].pc = "done"]
    BY <1>15 DEF CommitBackfill
  <2>. QED  BY <2>1, CommitKept
<1>. QED  BY <1>1, <1>2, <1>3, <1>4, <1>5, <1>6, <1>7, <1>8, <1>9, <1>10, <1>11,
             <1>12, <1>13, <1>14, <1>15 DEF Work

\* Nothing of the seed is taken away, whatever commits in between.
THEOREM KeptInductive == Spec => []CInv
<1>1. Init => CInv
  BY InitIsKept
<1>2. IInv /\ CInv /\ [Next]_vars => CInv'
  <2>. SUFFICES ASSUME IInv, CInv, [Next]_vars  PROVE CInv'
    OBVIOUS
  <2>1. CASE Next
    BY <2>1, NextIsKept
  <2>2. CASE UNCHANGED vars
    <3>1. store' = store /\ tx' = tx /\ job' = job
      BY <2>2 DEF vars
    <3>2. SameSeed' <=> SameSeed
      BY <3>1 DEF SameSeed
    <3>3. \A p \in Jobs : /\ Inserted(p)' = Inserted(p) /\ Ids(p)' = Ids(p)
                          /\ View(p)' = View(p) /\ Statement(p)' = Statement(p)
                          /\ Marked(p)' = Marked(p)
      BY <3>1 DEF Inserted, Ids, View, Statement, Marked
    <3>4. \A p \in Jobs : Fresh(p)' /\ Plain(p)'
      BY <3>1, <3>3 DEF CInv, Fresh, Plain
    <3>5. ASSUME NEW p \in Jobs, Kept(p)  PROVE Kept(p)'
      <4>1. \A q \in Others(p) : Inserted(q)' = Inserted(q)
        BY <3>3 DEF Others
      <4>2. Sparing(p) => Sparing(p)'
        BY <3>1, <3>3, <4>1 DEF Sparing
      <4>3. Achieved(p) => Achieved(p)'
        BY <3>1, <3>3 DEF Achieved
      <4>. QED  BY <3>1, <3>5, <4>2, <4>3 DEF Kept
    <3>. QED  BY <3>1, <3>2, <3>4, <3>5 DEF CInv
  <2>. QED  BY <2>1, <2>2
<1>. QED  BY <1>1, <1>2, Inductive, PTL DEF Spec

-----------------------------------------------------------------------------
(* What the readers of the tables see. *)

\* The documents that a search can find.
Searchable(rows) == {DocumentIn(rows, i) :
                       i \in {j \in In("documents", rows) : rows[j].rest # Null}}

\* The source of a document is a row of the sources.
LEMMA SourceOf ==
  ASSUME Storage, RefersAsDeclared(store), NEW i \in In("documents", store)
  PROVE  /\ i \in DOMAIN store /\ store[i].table = "documents"
         /\ store[i].key[2] \in DOMAIN store
         /\ store[i].refs = {store[i].key[2]}
         /\ store[store[i].key[2]].table = "sources"
<1>1. i \in DOMAIN store /\ store[i].table = "documents"
  BY DEF In
<1>2. store[i].refs = {store[i].key[2]}
  BY <1>1 DEF Storage, IsRow
<1>3. store[i].key[2] \in DOMAIN store
  BY <1>1, <1>2 DEF Storage, Orphans
<1>. QED  BY <1>1, <1>2, <1>3 DEF RefersAsDeclared

\* An ingest that commits leaves the seed of its image, no more and no
\* less, and no document of the seed loses its vector.
LEMMA CommitIsSeed ==
  ASSUME IInv, CInv, SameSeed, NEW p \in Jobs, CommitIngest(p)
  PROVE  /\ Content(store') = SeedContent(p)
         /\ Searchable(store') = Searchable(store) \cap SeedContent(p).documents
<1>. DEFINE id == job[p].ids
            last == Len(Statements[p])
            texts == {[content |-> d.content, source |-> d.source] : d \in Documents(p)}
            facts == {<<n>> : n \in Sources(p) \cup Objects(p)}
                       \cup {<<e.object, e.property, e.source>> : e \in Properties(p)}
            docs == In("documents", store')
<1>0. /\ Good(p) /\ Storage /\ Writes(p) /\ Place(p) /\ Naming(p)
      /\ job[p].pc = "statement" /\ ~(job[p].at <= last) /\ Commit(p)
      /\ Sparing(p) /\ Achieved(p) /\ Plain(p) /\ RefersAsDeclared(store)
  <2>1. /\ Good(p) /\ Storage /\ Writes(p) /\ Place(p) /\ Naming(p)
    BY DEF IInv, Good
  <2>2. job[p].pc = "statement" /\ job[p].at > last /\ Commit(p)
    BY DEF CommitIngest
  <2>3. ~(job[p].at <= last)
    <3>1. last \in Nat /\ job[p].at \in 1..(last + 1)
      BY <2>1, StatementOrder DEF Place
    <3>. HIDE DEF last
    <3>. QED  BY <2>2, <3>1
  <2>4. Sparing(p) /\ Achieved(p) /\ Plain(p) /\ RefersAsDeclared(store)
    BY <2>2 DEF CInv, Kept, Ingesting
  <2>. QED  BY <2>1, <2>2, <2>3, <2>4
<1>1. /\ last \in Nat /\ last > 0 /\ LastSweep(p, last) /\ AllOfSeed(p)
      /\ job[p].at - 1 = last
  <2>1. last \in Nat /\ LastSweep(p, last) /\ AllOfSeed(p)
    BY StatementOrder
  <2>2. job[p].at \in 1..(last + 1)
    BY <1>0 DEF Place
  <2>. HIDE DEF last
  <2>. QED  BY <1>0, <2>1, <2>2 DEF LastSweep
<1>2. /\ store' = View(p) /\ Orphans(store') = {} /\ UniqueKeys(store')
      /\ \A i \in DOMAIN store' : IsRow(store'[i])
  <2>1. DOMAIN tx[p].upd = {}
    BY <1>0 DEF Place, Filling, Changed
  <2>2. store' = [i \in DOMAIN View(p) |-> View(p)[i]]
    BY <1>0, <2>1 DEF Commit, Merged
  <2>3. store' = View(p)
    BY <2>2 DEF View
  <2>. QED  BY <1>0, <2>3, Seen DEF Writes, Storage
<1>3. DOMAIN id = Sources(p) \cup Objects(p)
  BY <1>0, LateIsKnown DEF Inserts, Ingesting
<1>4. \A n \in DOMAIN id : id[n] \in DOMAIN store' /\ Names(p, n, store'[id[n]])
  BY <1>0, <1>2, NameSeen DEF Achieved, Ids
<1>5. \A k \in 1..last : Done(p, id, store', k)
  BY <1>0, <1>1, <1>2 DEF Achieved
<1>. HIDE DEF last
<1>6. ASSUME NEW i \in DOMAIN store'  PROVE InSeed(p, id, store'[i])
  <2>1. CASE store'[i].table \in {"object_properties", "documents", "objects"}
    <3>1. \A k \in 1..(last - 1) : Done(p, id, store', k)
      BY <1>1, <1>5
    <3>. QED  BY <1>1, <2>1, <3>1, SweptIsSeed
  <2>2. CASE store'[i].table = "sources"
    <3>1. last \in 1..last /\ Statements[p][last].op = "sweep_sources"
      BY <1>1 DEF LastSweep
    <3>. QED  BY <1>5, <2>2, <3>1 DEF Done, Lacked, Removes
  <2>. QED  BY <1>2, <2>1, <2>2 DEF IsRow, Tables
\* Rows of facts and texts, by their names.
<1>7. ASSUME NEW d \in Documents(p), NEW i \in DOMAIN store', IsText(id, d, store'[i])
      PROVE  DocumentIn(store', i) = [content |-> d.content, source |-> d.source]
  <2>1. /\ store'[i].key[1] = d.content /\ store'[i].key[2] = id[d.source]
        /\ store'[id[d.source]].key = d.source
    BY <1>4, <1>7 DEF IsText, Names
  <2>. QED  BY <2>1 DEF DocumentIn
<1>8. ASSUME NEW e \in Properties(p), NEW i \in DOMAIN store', IsFact(id, e, store'[i])
      PROVE  FactIn(store', i) = <<e.object, e.property, e.source>>
  <2>. DEFINE x == id[e.object]
              y == e.property
              z == id[e.source]
              t == store'[i].key
  <2>1. t = <<x, y, z>> /\ store'[x].key = e.object /\ store'[z].key = e.source
    BY <1>4, <1>8 DEF IsFact, Names
  <2>2. t[1] = x /\ t[2] = y /\ t[3] = z
    <3>1. t = <<x, y, z>>
      BY <2>1
    <3>. HIDE DEF x, y, z, t
    <3>. QED  BY <3>1
  <2>3. FactIn(store', i) = <<store'[t[1]].key, t[2], store'[t[3]].key>>
    BY <1>8 DEF FactIn, IsFact, Named
  <2>. QED  BY <2>1, <2>2, <2>3
<1>9. ASSUME NEW d \in Documents(p)
      PROVE  \E i \in docs : IsText(id, d, store'[i])
  <2>1. PICK k \in 1..last : /\ Statements[p][k].op = "documents"
                             /\ Statements[p][k].item = d
    BY <1>1 DEF AllOfSeed, last
  <2>2. PICK i \in DOMAIN store' : Provides(id, Statements[p][k], store'[i])
    BY <1>5, <2>1 DEF Done, Had
  <2>. QED  BY <2>1, <2>2 DEF Provides, IsText, In
<1>10. ASSUME NEW e \in Properties(p)
       PROVE  \E i \in DOMAIN store' \ docs : IsFact(id, e, store'[i])
  <2>1. PICK k \in 1..last : /\ Statements[p][k].op = "object_properties"
                             /\ Statements[p][k].item = e
    BY <1>1 DEF AllOfSeed, last
  <2>2. PICK i \in DOMAIN store' : Provides(id, Statements[p][k], store'[i])
    BY <1>5, <2>1 DEF Done, Had
  <2>. QED  BY <2>1, <2>2 DEF Provides, IsFact, In
<1>11. Content(store').documents = texts
  <2>1. Content(store').documents = {DocumentIn(store', i) : i \in docs}
    BY DEF Content
  <2>2. ASSUME NEW i \in docs  PROVE DocumentIn(store', i) \in texts
    <3>1. i \in DOMAIN store' /\ store'[i].table = "documents"
      BY DEF In
    <3>2. PICK d \in Documents(p) : IsText(id, d, store'[i])
      BY <1>6, <3>1 DEF InSeed, IsFact
    <3>. QED  BY <1>7, <3>1, <3>2
  <2>3. ASSUME NEW d \in Documents(p)
        PROVE  \E i \in docs : DocumentIn(store', i) = [content |-> d.content, source |-> d.source]
    <3>1. PICK i \in docs : IsText(id, d, store'[i])
      BY <1>9
    <3>. QED  BY <1>7, <3>1 DEF In
  <2>. HIDE DEF docs
  <2>. QED  BY <2>1, <2>2, <2>3
<1>12. Content(store').facts = facts
  <2>1. Content(store').facts = {FactIn(store', i) : i \in DOMAIN store' \ docs}
    BY DEF Content
  <2>2. ASSUME NEW i \in DOMAIN store' \ docs  PROVE FactIn(store', i) \in facts
    <3>1. InSeed(p, id, store'[i]) /\ store'[i].table # "documents"
      BY <1>6 DEF In
    <3>2. CASE store'[i].table \in Named
      <4>1. store'[i].key \in Sources(p) \cup Objects(p)
        BY <3>1, <3>2 DEF InSeed, IsFact, IsText, Named
      <4>. QED  BY <3>2, <4>1 DEF FactIn
    <3>3. CASE store'[i].table \notin Named
      <4>1. PICK e \in Properties(p) : IsFact(id, e, store'[i])
        BY <3>1, <3>3 DEF InSeed, IsText, Named
      <4>. QED  BY <1>8, <4>1
    <3>. QED  BY <3>2, <3>3
  <2>3. ASSUME NEW n \in Sources(p) \cup Objects(p)
        PROVE  \E i \in DOMAIN store' \ docs : FactIn(store', i) = <<n>>
    <3>1. id[n] \in DOMAIN store' /\ Names(p, n, store'[id[n]])
      BY <1>3, <1>4
    <3>2. store'[id[n]].table \in Named /\ store'[id[n]].key = n
      BY <3>1 DEF Names, Named
    <3>3. id[n] \notin docs
      BY <3>2 DEF Named, In
    <3>4. FactIn(store', id[n]) = <<n>>
      BY <3>2 DEF FactIn
    <3>. QED  BY <3>1, <3>3, <3>4
  <2>4. ASSUME NEW e \in Properties(p)
        PROVE  \E i \in DOMAIN store' \ docs :
                 FactIn(store', i) = <<e.object, e.property, e.source>>
    <3>1. PICK i \in DOMAIN store' \ docs : IsFact(id, e, store'[i])
      BY <1>10
    <3>. QED  BY <1>8, <3>1
  <2>. HIDE DEF docs
  <2>. QED  BY <2>1, <2>2, <2>3, <2>4
<1>13. Content(store') = SeedContent(p)
  BY <1>11, <1>12 DEF Content, SeedContent
\* A row of the store that the job leaves looks the same afterwards.
<1>14. ASSUME NEW i \in In("documents", store), i \in DOMAIN store'
       PROVE  /\ i \in docs /\ store'[i] = store[i]
              /\ DocumentIn(store', i) = DocumentIn(store, i)
  <2>1. \A j \in DOMAIN store \cap DOMAIN store' : store'[j] = store[j]
    BY <1>0, <1>2, Seen DEF Writes
  <2>2. /\ i \in DOMAIN store /\ store[i].table = "documents"
        /\ store[i].key[2] \in DOMAIN store /\ store[i].refs = {store[i].key[2]}
    BY <1>0, SourceOf
  <2>3. store[i].key[2] \in DOMAIN store'
    BY <1>2, <1>14, <2>1, <2>2 DEF Orphans
  <2>. QED  BY <1>14, <2>1, <2>2, <2>3 DEF DocumentIn, In
<1>15. ASSUME NEW i \in docs, store'[i].rest # Null
       PROVE  /\ i \in In("documents", store) /\ store[i].rest # Null
              /\ DocumentIn(store', i) = DocumentIn(store, i)
  <2>1. i \in DOMAIN store' /\ store'[i].table = "documents"
    BY DEF In
  <2>2. i \notin Inserted(p)
    BY <1>0, <1>2, <1>15, <2>1, Seen DEF Plain
  <2>3. i \in DOMAIN store /\ store'[i] = store[i]
    BY <1>2, <2>1, <2>2, Seen
  <2>4. i \in In("documents", store)
    BY <2>1, <2>3 DEF In
  <2>. QED  BY <1>14, <1>15, <2>1, <2>3, <2>4
<1>16. ASSUME NEW i \in In("documents", store), NEW d \in Documents(p),
              DocumentIn(store, i) = [content |-> d.content, source |-> d.source]
       PROVE  i \in DOMAIN store'
  <2>. DEFINE t == store[i].key[2]
  <2>1. /\ i \in DOMAIN store /\ store[i].table = "documents"
        /\ t \in DOMAIN store /\ store[t].table = "sources"
    BY <1>0, SourceOf
  <2>2. store[i].key[1] = d.content /\ store[t].key = d.source
    BY <1>16 DEF DocumentIn
  <2>3. d.source \in Sources(p)
    BY SeedIsClosed
  <2>4. \A j \in DOMAIN store : InSeed(p, id, store[j]) => /\ j \in DOMAIN store'
                                                          /\ store'[j] = store[j]
    <3>. SUFFICES ASSUME NEW j \in DOMAIN store, InSeed(p, id, store[j])
                  PROVE  j \in DOMAIN store' /\ store'[j] = store[j]
      OBVIOUS
    <3>1. j \notin tx[p].del /\ j \notin Inserted(p)
      BY <1>0 DEF Sparing, Marked, Writes
    <3>2. j \in DOMAIN View(p)
      BY <3>1 DEF View
    <3>. QED  BY <1>2, <3>1, <3>2, Seen
  <2>5. t \in DOMAIN store' /\ store'[t] = store[t]
    <3>1. InSeed(p, id, store[t])
      BY <2>1, <2>2, <2>3 DEF InSeed
    <3>. QED  BY <2>1, <2>4, <3>1
  <2>6. t = id[d.source] /\ d.source \in DOMAIN id
    <3>1. /\ d.source \in DOMAIN id /\ id[d.source] \in DOMAIN store'
          /\ store'[id[d.source]].table = "sources"
          /\ store'[id[d.source]].key = d.source
      BY <1>3, <1>4, <2>3 DEF Names
    <3>. HIDE DEF t
    <3>. QED  BY <1>2, <2>1, <2>2, <2>5, <3>1, KeysPairwise
  <2>7. InSeed(p, id, store[i])
    <3>1. IsText(id, d, store[i])
      BY <2>1, <2>2, <2>6 DEF IsText
    <3>. QED  BY <3>1 DEF InSeed
  <2>. QED  BY <2>1, <2>4, <2>7
<1>17. Searchable(store') = Searchable(store) \cap texts
  <2>1. ASSUME NEW x \in Searchable(store')
        PROVE  x \in Searchable(store) /\ x \in texts
    <3>1. PICK i \in docs : store'[i].rest # Null /\ x = DocumentIn(store', i)
      BY DEF Searchable
    <3>2. x \in Searchable(store)
      BY <1>15, <3>1 DEF Searchable
    <3>3. x \in Content(store').documents
      BY <3>1 DEF Content
    <3>. QED  BY <1>11, <3>2, <3>3
  <2>2. ASSUME NEW x \in Searchable(store), x \in texts
        PROVE  x \in Searchable(store')
    <3>1. PICK i \in In("documents", store) : store[i].rest # Null /\ x = DocumentIn(store, i)
      BY DEF Searchable
    <3>2. PICK d \in Documents(p) : x = [content |-> d.content, source |-> d.source]
      BY <2>2
    <3>3. i \in DOMAIN store'
      BY <1>16, <3>1, <3>2
    <3>4. i \in docs /\ store'[i].rest # Null /\ DocumentIn(store', i) = x
      BY <1>14, <3>1, <3>3
    <3>. QED  BY <3>4 DEF Searchable
  <2>. HIDE DEF texts
  <2>. QED  BY <2>1, <2>2
<1>. QED  BY <1>13, <1>17 DEF SeedContent

\* A backfill changes no text and no fact, and takes no vector away.
LEMMA BackfillFills ==
  ASSUME IInv, CInv, NEW p \in Jobs, CommitBackfill(p)
  PROVE  /\ Content(store') = Content(store)
         /\ Searchable(store) \subseteq Searchable(store')
         /\ Searchable(store') \subseteq Content(store').documents
<1>0. /\ Storage /\ Writes(p) /\ Inserted(p) = {} /\ tx[p].del = {} /\ Commit(p)
      /\ RefersAsDeclared(store)
  BY DEF IInv, CInv, Good, Place, CommitBackfill, Ingesting
<1>1. /\ DOMAIN store' = DOMAIN store
      /\ \A i \in DOMAIN store : /\ store'[i].table = store[i].table
                                 /\ store'[i].key = store[i].key
                                 /\ store[i].rest # Null => store'[i].rest # Null
  BY <1>0, Committed
<1>2. In("documents", store') = In("documents", store)
  BY <1>1 DEF In
<1>3. ASSUME NEW i \in In("documents", store)
      PROVE  DocumentIn(store', i) = DocumentIn(store, i)
  BY <1>0, <1>1, <1>3, SourceOf DEF DocumentIn
<1>4. ASSUME NEW i \in DOMAIN store \ In("documents", store)
      PROVE  FactIn(store', i) = FactIn(store, i)
  <2>1. CASE store[i].table \in Named
    BY <1>1, <2>1 DEF FactIn
  <2>2. CASE store[i].table \notin Named
    <3>1. store[i].table = "object_properties"
      BY <1>0, <2>2 DEF Storage, IsRow, Tables, Named, In
    <3>2. store[i].refs = {store[i].key[1], store[i].key[3]}
      BY <1>0, <3>1 DEF Storage, IsRow
    <3>3. store[i].key[1] \in DOMAIN store /\ store[i].key[3] \in DOMAIN store
      BY <1>0, <3>2 DEF Storage, Orphans
    <3>. QED  BY <1>1, <2>2, <3>3 DEF FactIn
  <2>. QED  BY <2>1, <2>2
<1>5. Content(store') = Content(store)
  <2>. DEFINE docs == In("documents", store)
  <2>1. {DocumentIn(store', i) : i \in docs} = {DocumentIn(store, i) : i \in docs}
    BY <1>3
  <2>2. {FactIn(store', i) : i \in DOMAIN store \ docs}
          = {FactIn(store, i) : i \in DOMAIN store \ docs}
    <3>. HIDE DEF docs
    <3>. QED  BY <1>4 DEF docs
  <2>. QED  BY <1>1, <1>2, <2>1, <2>2 DEF Content
<1>6. Searchable(store) \subseteq Searchable(store')
  <2>. SUFFICES ASSUME NEW i \in In("documents", store), store[i].rest # Null
                PROVE  DocumentIn(store, i) \in Searchable(store')
    BY DEF Searchable
  <2>1. store'[i].rest # Null
    BY <1>1 DEF In
  <2>. QED  BY <1>2, <1>3, <2>1 DEF Searchable
<1>7. Searchable(store') \subseteq Content(store').documents
  BY DEF Searchable, Content
<1>. QED  BY <1>5, <1>6, <1>7

\* No other step changes the tables.
LEMMA OnlyCommits ==
  ASSUME NEW p \in Jobs, Start(p) \/ Work(p) \/ Crash(p),
         ~CommitIngest(p), ~CommitBackfill(p)
  PROVE  store' = store
BY DEF Start, Work, Crash, InsertRow, ParentIsGone, KeepRow, SelectId, IdIsGone,
       BeginDelete, DeleteRow, Cascade, RestrictFails, EndDelete, FetchRows,
       EmbedRow, EmbedFails, UpdateRow, DeadlockAborts, Fail

\* Each step is of one job, and only a commit leads past the ingest.
AfterIngest == {"fetch", "done"} \cup Filling

LEMMA StepIsOwn ==
  ASSUME IInv, NEW p \in Jobs, Start(p) \/ Work(p) \/ Crash(p)
  PROVE  /\ job[p].pc # "absent" /\ job'[p].pc # "absent"
         /\ \A q \in Others(p) : job'[q] = job[q] /\ tx'[q] = tx[q]
         /\ job'[p].pc \in AfterIngest => job[p].pc \in AfterIngest \/ CommitIngest(p)
         /\ job'[p].pc \in Filling => FetchRows(p) \/ EmbedRow(p) \/ UpdateRow(p)
<1>. DEFINE Stays == /\ job'[p].pc # "absent"
                     /\ \A q \in Others(p) : job'[q] = job[q]
                     /\ job'[p].pc \in AfterIngest
                          => job[p].pc \in AfterIngest \/ CommitIngest(p)
                     /\ job'[p].pc \in Filling
                          => FetchRows(p) \/ EmbedRow(p) \/ UpdateRow(p)
<1>1. job[p].pc # "absent"
  BY DEF Start, Work, Crash, Active, Running, Upserting, AtStatement, InsertRow,
         ParentIsGone, KeepRow, SelectId, IdIsGone, BeginDelete, DeleteRow,
         Cascade, RestrictFails, EndDelete, CommitIngest, FetchRows, EmbedRow,
         EmbedFails, UpdateRow, CommitBackfill, DeadlockAborts
<1>2. /\ job[p] = [pc |-> job[p].pc, at |-> job[p].at, ids |-> job[p].ids,
                   todo |-> job[p].todo, fetched |-> job[p].fetched]
      /\ tx[p] = [ins |-> tx[p].ins, del |-> tx[p].del, upd |-> tx[p].upd]
      /\ job = [q \in Jobs |-> job[q]] /\ tx = [q \in Jobs |-> tx[q]]
  BY DEF IInv, Good, Place, Writes
<1>3. Fail(p) \/ ~(ParentIsGone(p) \/ IdIsGone(p) \/ RestrictFails(p) \/ EmbedFails(p)
                    \/ DeadlockAborts(p) \/ Crash(p))
  BY DEF ParentIsGone, IdIsGone, RestrictFails, EmbedFails, DeadlockAborts, Crash
<1>4. Stays
  <2>1. ASSUME NEW i, NextStatement(p, i)  PROVE Stays
    <3>1. PICK ids : ids = IF Statement(p).op \in Named
                           THEN With(job[p].ids, Statement(p).item.name, i) ELSE job[p].ids
      OBVIOUS
    <3>2. job' = [job EXCEPT ![p].pc = "statement", ![p].at = @ + 1, ![p].ids = ids]
      BY <2>1, <3>1 DEF NextStatement
    <3>. QED  BY <1>2, <3>2 DEF Others, AfterIngest, Filling
  <2>2. CASE Fail(p)
    BY <1>2, <2>2 DEF Fail, Others, AfterIngest, Filling
  <2>3. CASE Start(p) \/ EmbedRow(p) \/ CommitBackfill(p)
    <3>1. EmbedRow(p) \/ job'[p].pc \in {"statement", "done"}
      BY <1>2, <2>3 DEF Start, CommitBackfill
    <3>. QED  BY <1>2, <2>3, <3>1 DEF Start, EmbedRow, CommitBackfill, Others, AfterIngest,
                                     Filling
  <2>4. CASE CommitIngest(p)
    <3>1. PICK pc \in {"fetch", "done"} : job' = [job EXCEPT ![p].pc = pc]
      BY <2>4 DEF CommitIngest
    <3>. QED  BY <1>2, <2>4, <3>1 DEF Others, Filling
  <2>5. CASE InsertRow(p) \/ SelectId(p) \/ EndDelete(p)
    <3>1. \E i : NextStatement(p, i)
      BY <2>5 DEF InsertRow, SelectId, EndDelete
    <3>. HIDE DEF Stays
    <3>. QED  BY <2>1, <3>1
  <2>6. CASE KeepRow(p)
    <3>1. CASE job' = [job EXCEPT ![p].pc = "lookup"]
      BY <1>2, <3>1 DEF Others, AfterIngest, Filling
    <3>2. CASE NextStatement(p, 0)
      BY <2>1, <3>2
    <3>. QED  BY <2>6, <3>1, <3>2 DEF KeepRow
  <2>7. CASE BeginDelete(p)
    <3>1. PICK todo : job' = [job EXCEPT ![p].pc = "rows", ![p].todo = todo]
      BY <2>7 DEF BeginDelete, Sweep
    <3>. QED  BY <1>2, <3>1 DEF Others, AfterIngest, Filling
  <2>8. CASE DeleteRow(p) \/ Cascade(p)
    <3>1. PICK todo : job' = [job EXCEPT ![p].todo = todo]
      BY <2>8 DEF DeleteRow, Cascade
    <3>2. job[p].pc = "rows"
      BY <2>8 DEF DeleteRow, Cascade
    <3>. QED  BY <1>2, <3>1, <3>2 DEF Others, AfterIngest, Filling
  <2>9. CASE UpdateRow(p)
    <3>1. PICK todo : job' = [job EXCEPT ![p].pc = "embed", ![p].todo = todo]
      BY <2>9 DEF UpdateRow
    <3>2. job[p].pc = "update"
      BY <2>9 DEF UpdateRow
    <3>. QED  BY <1>2, <2>9, <3>1, <3>2 DEF Others, AfterIngest, Filling
  <2>10. CASE FetchRows(p)
    <3>1. PICK todo, fetched : job' = [job EXCEPT ![p].pc = "embed", ![p].todo = todo,
                                                 ![p].fetched = fetched]
      BY <2>10 DEF FetchRows
    <3>2. job[p].pc = "fetch"
      BY <2>10 DEF FetchRows
    <3>. QED  BY <1>2, <2>10, <3>1, <3>2 DEF Others, AfterIngest, Filling
  <2>. HIDE DEF Stays
  <2>. QED  BY <1>3, <2>2, <2>3, <2>4, <2>5, <2>6, <2>7, <2>8, <2>9, <2>10 DEF Work
<1>5. \A q \in Others(p) : tx'[q] = tx[q]
  <2>1. CASE Fail(p) \/ CommitIngest(p) \/ CommitBackfill(p)
    BY <1>2, <2>1 DEF Fail, CommitIngest, CommitBackfill, Commit, Others
  <2>2. CASE InsertRow(p)
    <3>1. PICK ins : tx' = [tx EXCEPT ![p].ins = ins]
      BY <2>2 DEF InsertRow
    <3>. QED  BY <1>2, <3>1 DEF Others
  <2>3. CASE DeleteRow(p)
    <3>1. PICK del : tx' = [tx EXCEPT ![p].del = del]
      BY <2>3 DEF DeleteRow
    <3>. QED  BY <1>2, <3>1 DEF Others
  <2>4. CASE UpdateRow(p)
    <3>1. PICK upd : tx' = [tx EXCEPT ![p].upd = upd]
      BY <2>4 DEF UpdateRow
    <3>. QED  BY <1>2, <3>1 DEF Others
  <2>5. CASE tx' = tx
    BY <2>5
  <2>6. Start(p) \/ KeepRow(p) \/ SelectId(p) \/ BeginDelete(p) \/ Cascade(p)
          \/ EndDelete(p) \/ FetchRows(p) \/ EmbedRow(p) => tx' = tx
    BY DEF Start, KeepRow, SelectId, BeginDelete, Cascade, EndDelete, FetchRows, EmbedRow
  <2>. QED  BY <1>3, <2>1, <2>2, <2>3, <2>4, <2>5, <2>6 DEF Work
<1>. HIDE DEF Stays
<1>. QED  BY <1>1, <1>4, <1>5 DEF Stays

\* Jobs are there from the beginning or not at all.
LEMMA SameSeedStays ==
  ASSUME IInv, Next
  PROVE  SameSeed' <=> SameSeed
<1>1. PICK p \in Jobs : Start(p) \/ Work(p) \/ Crash(p)
  BY DEF Next
<1>. QED  BY <1>1, StepIsOwn DEF SameSeed, Others

\* Where the jobs carry the same seed, those who read the tables see one
\* corpus or the other and never a mixture, and no document that stays
\* loses its vector: every step is one of Corpus, or changes nothing there.
THEOREM CorpusIsImplemented == Spec => ImplementsCorpus
<1>. DEFINE docs == IF SameSeed THEN Content(store).documents ELSE {}
            facts == IF SameSeed THEN Content(store).facts ELSE {}
            found == IF SameSeed THEN Searchable(store) ELSE {}
<1>1. Init => C!Init
  BY DEF C!Init, Content
<1>2. IInv /\ CInv /\ [Next]_vars => [C!Next]_C!vars
  <2>. SUFFICES ASSUME IInv, CInv, [Next]_vars
                PROVE  C!Next \/ UNCHANGED <<docs, found, facts>>
    BY DEF C!vars, Searchable
  <2>1. CASE UNCHANGED vars
    BY <2>1 DEF vars, SameSeed
  <2>2. CASE Next
    <3>1. PICK p \in Jobs : Start(p) \/ Work(p) \/ Crash(p)
      BY <2>2 DEF Next
    <3>2. SameSeed' <=> SameSeed
      BY <2>2, SameSeedStays
    <3>3. CASE ~SameSeed
      BY <3>2, <3>3
    <3>4. CASE SameSeed /\ CommitIngest(p)
      <4>1. /\ Content(store') = SeedContent(p)
            /\ Searchable(store') = Searchable(store) \cap SeedContent(p).documents
        BY <3>4, CommitIsSeed
      <4>2. C!Sync(SeedContent(p))
        BY <3>2, <3>4, <4>1 DEF C!Sync, Searchable
      <4>. QED  BY <4>2 DEF C!Next
    <3>5. CASE SameSeed /\ CommitBackfill(p)
      <4>1. /\ Content(store') = Content(store)
            /\ Searchable(store) \subseteq Searchable(store')
            /\ Searchable(store') \subseteq Content(store').documents
        BY <3>5, BackfillFills
      <4>2. PICK new : new = Searchable(store') \ Searchable(store)
        OBVIOUS
      <4>3. C!Fill(new)
        BY <3>2, <3>5, <4>1, <4>2 DEF C!Fill, Searchable
      <4>4. new \in SUBSET (docs \ found)
        BY <3>5, <4>1, <4>2
      <4>. HIDE DEF docs, found, facts
      <4>. QED  BY <4>3, <4>4 DEF C!Next, Searchable, docs, found
    <3>6. CASE ~CommitIngest(p) /\ ~CommitBackfill(p)
      <4>1. store' = store
        BY <3>1, <3>6, OnlyCommits
      <4>. QED  BY <3>2, <4>1
    <3>. QED  BY <3>3, <3>4, <3>5, <3>6
  <2>. QED  BY <2>1, <2>2
<1>. QED  BY <1>1, <1>2, Inductive, KeptInductive, PTL DEF Spec, ImplementsCorpus, C!Spec

-----------------------------------------------------------------------------
(***************************************************************************)
(* Why jobs of one seed cannot deadlock.  A job that waits in its ingest   *)
(* waits for one that is further: at a later statement, or at the same one *)
(* and a higher id (InTurn).  It never waits for a backfill, nor a         *)
(* backfill for an ingest, because after the first commit the rows of the  *)
(* seed are there to stay (Settled); and of two backfills one waits for    *)
(* the other at a lower id than that one is at (Rising).                   *)
(***************************************************************************)

\* The statement makes this row.
Makes(id, st, row) ==
  \/ st.op \in Named /\ row.table = st.op /\ row.key = st.item.name
  \/ Provides(id, st, row)

\* A row that the job has inserted is that of a statement it is past.
Traced(p) == \A i \in Inserted(p) : \E k \in 1..(job[p].at - 1) :
               Makes(job[p].ids, Statements[p][k], tx[p].ins[i])

\* It deletes in the order of its statements, and in each by id.
InTurn(p) ==
  /\ \A i \in tx[p].del : \E k \in 1..job[p].at :
       /\ Removes(p, job[p].ids, Statements[p][k], store[i])
       /\ k = job[p].at => job[p].pc = "rows" /\ \A j \in job[p].todo : i < j
  /\ job[p].pc = "rows" => \A i \in job[p].todo \cap DOMAIN store :
       Removes(p, job[p].ids, Statement(p), store[i])

\* The backfill updates by id.
Rising(p) == job[p].pc \in Filling => \A i \in Changed(p), j \in job[p].todo : i < j

\* Once a job has committed, the content is that of the seed.
Settled(p) == job[p].pc \in AfterIngest => Content(store) = SeedContent(p)

OInv == /\ \A p \in Jobs : Traced(p) /\ Rising(p)
        /\ SameSeed => \A p \in Jobs : InTurn(p) /\ Settled(p)

\* Jobs of one seed execute the same statements, for the same content.
LEMMA SameStatements ==
  ASSUME NEW p \in Jobs, NEW q \in Jobs, Seed[p] = Seed[q]
  PROVE  /\ Statements[p] = Statements[q]
         /\ SeedContent(p) = SeedContent(q)
         /\ Sources(p) = Sources(q) /\ Objects(p) = Objects(q)
         /\ Documents(p) = Documents(q)
<1>1. /\ Sources(p) = Sources(q) /\ Objects(p) = Objects(q)
      /\ Documents(p) = Documents(q) /\ Properties(p) = Properties(q)
  BY DEF Sources, Objects, Documents, Properties
<1>2. DocumentSources(p) = DocumentSources(q)
  BY DEF DocumentSources
<1>3. Statements[p] = Statements[q]
  BY <1>2 DEF Statements
<1>. QED  BY <1>1, <1>3 DEF SeedContent

\* What a statement has made is its row whatever ids are read after it.
LEMMA MadeStays ==
  ASSUME NEW p \in Jobs, job[p].at \in 1..(Len(Statements[p]) + 1), NEW ids,
         \/ ids = job[p].ids
         \/ job[p].at <= Len(Statements[p]) /\ Statement(p).op \in Named,
         NEW k \in 1..(job[p].at - 1), NEW row,
         Makes(job[p].ids, Statements[p][k], row)
  PROVE  Makes(ids, Statements[p][k], row)
<1>1. CASE ids = job[p].ids
  BY <1>1
<1>2. CASE job[p].at <= Len(Statements[p]) /\ Statement(p).op \in Named
  <2>1. /\ Len(Statements[p]) \in Nat /\ job[p].at \in 1..Len(Statements[p])
        /\ k \in 1..job[p].at
    BY <1>2, StatementOrder
  <2>2. Statements[p][k].op \in Named
    BY <1>2, <2>1, StatementOrder DEF Statement
  <2>. QED  BY <2>2 DEF Makes, Provides, Named
<1>. QED  BY <1>1, <1>2

\* A step that inserts nothing keeps the rows traced.
LEMMA TracedStays ==
  ASSUME NEW p \in Jobs, Place(p), Traced(p), tx'[p].ins = tx[p].ins,
         job'[p].at \in {job[p].at, job[p].at + 1},
         \/ job'[p].ids = job[p].ids
         \/ job[p].at <= Len(Statements[p]) /\ Statement(p).op \in Named
  PROVE  Traced(p)'
<1>. SUFFICES ASSUME NEW i \in Inserted(p)
              PROVE  \E k \in 1..(job'[p].at - 1) :
                       Makes(job'[p].ids, Statements[p][k], tx[p].ins[i])
  BY DEF Traced, Inserted
<1>1. PICK k \in 1..(job[p].at - 1) : Makes(job[p].ids, Statements[p][k], tx[p].ins[i])
  BY DEF Traced
<1>2. job[p].at \in 1..(Len(Statements[p]) + 1) /\ job[p].at \in Nat
  BY StatementOrder DEF Place
<1>3. k \in 1..(job'[p].at - 1)
  BY <1>2
<1>4. PICK row : row = tx[p].ins[i]
  OBVIOUS
<1>5. PICK ids : ids = job'[p].ids
  OBVIOUS
<1>6. Makes(ids, Statements[p][k], row)
  BY <1>1, <1>2, <1>4, <1>5, MadeStays
<1>. QED  BY <1>3, <1>4, <1>5, <1>6

\* What a job has made and deleted is forgotten when it is past its ingest.
LEMMA LeaveInTurn ==
  ASSUME NEW p \in Jobs, Place(p)', job'[p].pc \notin Ingesting
  PROVE  Traced(p)' /\ InTurn(p)'
<1>1. Inserted(p)' = {} /\ tx'[p].del = {}
  BY DEF Place
<1>. QED  BY <1>1 DEF Traced, InTurn, Ingesting

\* Where the next statement begins.
LEMMA NextFields ==
  ASSUME IInv, NEW p \in Jobs, NEW i, NextStatement(p, i)
  PROVE  /\ job'[p].pc = "statement" /\ job'[p].at = job[p].at + 1
         /\ job'[p].ids = IF Statement(p).op \in Named
                          THEN With(job[p].ids, Statement(p).item.name, i)
                          ELSE job[p].ids
<1>1. job[p] = [pc |-> job[p].pc, at |-> job[p].at, ids |-> job[p].ids,
                todo |-> job[p].todo, fetched |-> job[p].fetched]
  BY DEF IInv, Good, Place
<1>2. PICK ids : ids = IF Statement(p).op \in Named
                       THEN With(job[p].ids, Statement(p).item.name, i) ELSE job[p].ids
  OBVIOUS
<1>3. job' = [job EXCEPT ![p].pc = "statement", ![p].at = @ + 1, ![p].ids = ids]
  BY <1>2 DEF NextStatement
<1>. QED  BY <1>1, <1>2, <1>3 DEF IInv

-----------------------------------------------------------------------------
(* What a step means for the job that takes it. *)

\* A new row is that of the statement at hand.
LEMMA InsertRowTraced ==
  ASSUME IInv, NEW p \in Jobs, InsertRow(p), Traced(p)
  PROVE  Traced(p)'
<1>. DEFINE row == NewRow(p)
<1>0. /\ Place(p) /\ Naming(p) /\ Writes(p) /\ Storage
      /\ job[p].at \in 1..Len(Statements[p]) /\ Len(Statements[p]) \in Nat
      /\ Statement(p).op \in Tables
  BY StatementOrder DEF IInv, Good, InsertRow, Upserting, AtStatement, Place
<1>1. /\ tx' = [tx EXCEPT ![p].ins = With(@, nextId, row)]
      /\ NextStatement(p, nextId)
  BY DEF InsertRow
<1>2. tx'[p].ins = With(tx[p].ins, nextId, row)
  <2>1. tx[p] = [ins |-> tx[p].ins, del |-> tx[p].del, upd |-> tx[p].upd]
    BY <1>0 DEF Writes
  <2>2. tx'[p] = [tx[p] EXCEPT !.ins = With(tx[p].ins, nextId, row)]
    BY <1>1 DEF IInv
  <2>. HIDE DEF row
  <2>. QED  BY <2>1, <2>2
<1>3. PICK ids : /\ job'[p].at = job[p].at + 1 /\ job'[p].ids = ids
                 /\ Statement(p).op \notin Named => ids = job[p].ids
  BY <1>1, NextFields
<1>4. ASSUME NEW i \in Inserted(p)', i \in Inserted(p), i # nextId
      PROVE  \E k \in 1..(job'[p].at - 1) : Makes(ids, Statements[p][k], tx'[p].ins[i])
  <2>. HIDE DEF row
  <2>1. PICK old : old = tx'[p].ins[i] /\ old = tx[p].ins[i]
    BY <1>2, <1>4 DEF With, Inserted
  <2>2. PICK k \in 1..(job[p].at - 1) : Makes(job[p].ids, Statements[p][k], old)
    BY <1>4, <2>1 DEF Traced
  <2>3. Makes(ids, Statements[p][k], old)
    <3>1. job[p].at \in 1..(Len(Statements[p]) + 1) /\ job[p].at <= Len(Statements[p])
      BY <1>0
    <3>. QED  BY <1>3, <2>2, <3>1, MadeStays
  <2>4. k \in 1..(job'[p].at - 1)
    BY <1>0, <1>3, <2>2
  <2>. QED  BY <2>1, <2>3, <2>4
<1>5. ASSUME NEW i \in Inserted(p)', i = nextId
      PROVE  \E k \in 1..(job'[p].at - 1) : Makes(ids, Statements[p][k], tx'[p].ins[i])
  <2>1. tx'[p].ins[i] = row
    <3>. HIDE DEF row
    <3>. QED  BY <1>2, <1>5 DEF With
  <2>2. Makes(ids, Statement(p), row)
    <3>1. CASE Statement(p).op \in Named
      BY <1>0, <3>1, NextRow DEF Makes
    <3>2. CASE Statement(p).op \notin Named
      <4>1. Provides(job[p].ids, Statement(p), row)
        BY <1>0, <3>2, RowProvides
      <4>. QED  BY <1>3, <3>2, <4>1 DEF Makes
    <3>. QED  BY <3>1, <3>2
  <2>3. job[p].at \in 1..(job'[p].at - 1)
    BY <1>0, <1>3
  <2>. HIDE DEF row
  <2>. QED  BY <2>1, <2>2, <2>3 DEF Statement
<1>6. \A i \in Inserted(p)' : i \in Inserted(p) \/ i = nextId
  <2>. HIDE DEF row
  <2>. QED  BY <1>2 DEF Inserted, With
<1>. QED  BY <1>3, <1>4, <1>5, <1>6 DEF Traced

\* What a sweep marks it removes.
LEMMA StaleIsRemoved ==
  ASSUME NEW p \in Jobs, Good(p), Storage, Achieved(p),
         job[p].at \in 1..Len(Statements[p]), NEW stale,
         \/ /\ Statement(p).op = "sweep_properties"
            /\ stale = StaleProperties(p)
         \/ /\ Statement(p).op = "sweep_source"
            /\ stale = StaleDocuments(p, Statement(p).item)
         \/ /\ Statement(p).op = "sweep_elsewhere"
            /\ stale = DocumentsElsewhere(p)
         \/ Statement(p).op = "sweep_objects" /\ stale = StaleObjects(p)
         \/ Statement(p).op = "sweep_sources" /\ stale = StaleSources(p),
         NEW i \in stale
  PROVE  /\ i \in DOMAIN View(p)
         /\ Removes(p, job[p].ids, Statement(p), View(p)[i])
<1>1. ~InSeed(p, job[p].ids, View(p)[i])
  BY SweepsFindStale
<1>2. CASE Statement(p).op = "sweep_properties" /\ stale = StaleProperties(p)
  BY <1>1, <1>2 DEF StaleProperties, Removes, In
<1>3. CASE /\ Statement(p).op = "sweep_source"
           /\ stale = StaleDocuments(p, Statement(p).item)
  BY <1>1, <1>3 DEF StaleDocuments, Removes, In
<1>4. CASE Statement(p).op = "sweep_elsewhere" /\ stale = DocumentsElsewhere(p)
  BY <1>4 DEF DocumentsElsewhere, Removes, In
<1>5. CASE Statement(p).op = "sweep_objects" /\ stale = StaleObjects(p)
  BY <1>1, <1>5 DEF StaleObjects, Removes, In
<1>6. CASE Statement(p).op = "sweep_sources" /\ stale = StaleSources(p)
  BY <1>1, <1>6 DEF StaleSources, Removes, In
<1>. QED  BY <1>2, <1>3, <1>4, <1>5, <1>6

\* A deletion begins after all that the job has deleted.
LEMMA BeginDeleteInTurn ==
  ASSUME IInv, NEW p \in Jobs, BeginDelete(p), Achieved(p), InTurn(p)
  PROVE  InTurn(p)'
<1>0. Good(p) /\ Place(p) /\ Writes(p) /\ Storage /\ Len(Statements[p]) \in Nat
  BY StatementOrder DEF IInv, Good
<1>1. /\ job[p].pc = "statement" /\ job[p].at \in 1..Len(Statements[p])
      /\ UNCHANGED <<store, nextId, tx>>
  BY <1>0 DEF BeginDelete, AtStatement, Place
<1>2. PICK stale :
        /\ job' = [job EXCEPT ![p].pc = "rows", ![p].todo = stale]
        /\ \/ /\ Statement(p).op = "sweep_properties"
              /\ stale = StaleProperties(p)
           \/ /\ Statement(p).op = "sweep_source"
              /\ stale = StaleDocuments(p, Statement(p).item)
           \/ /\ Statement(p).op = "sweep_elsewhere"
              /\ stale = DocumentsElsewhere(p)
           \/ Statement(p).op = "sweep_objects" /\ stale = StaleObjects(p)
           \/ Statement(p).op = "sweep_sources" /\ stale = StaleSources(p)
  BY DEF BeginDelete, Sweep
<1>3. /\ job'[p].at = job[p].at /\ job'[p].ids = job[p].ids
      /\ job'[p].pc = "rows" /\ job'[p].todo = stale
  BY <1>0, <1>2 DEF Place, IInv
<1>4. \A i \in tx[p].del : \E k \in 1..job[p].at :
        Removes(p, job[p].ids, Statements[p][k], store[i]) /\ k # job[p].at
  BY <1>1 DEF InTurn
<1>5. ASSUME NEW i \in stale \cap DOMAIN store
      PROVE  Removes(p, job[p].ids, Statement(p), store[i])
  <2>1. /\ i \in DOMAIN View(p)
        /\ Removes(p, job[p].ids, Statement(p), View(p)[i])
    BY <1>0, <1>1, <1>2, StaleIsRemoved
  <2>2. View(p)[i] = store[i]
    BY <1>0, <2>1, Seen DEF Writes
  <2>. QED  BY <2>1, <2>2
<1>6. Statement(p)' = Statement(p)
  BY <1>3 DEF Statement
<1>. QED  BY <1>1, <1>3, <1>4, <1>5, <1>6 DEF InTurn

\* Among jobs of one seed nothing is left to fall with an object.
LEMMA NothingCascades ==
  ASSUME IInv, CInv, NEW p \in Jobs, Achieved(p), InTurn(p), Cascade(p)
  PROVE  FALSE
<1>0. /\ Good(p) /\ Place(p) /\ Writes(p) /\ Storage /\ RefersAsDeclared(store)
      /\ Statement(p).op = "sweep_objects"
  BY DEF IInv, CInv, Good, Cascade
<1>1. PICK n : n = Len(Statements[p])
  OBVIOUS
<1>2. /\ n \in Nat /\ LastSweep(p, n) /\ job[p].at \in 1..n
  BY <1>0, <1>1, StatementOrder DEF Cascade, Place
<1>3. job[p].at = n - 1
  BY <1>0, <1>2 DEF LastSweep, Statement
<1>4. PICK i \in DOMAIN View(p) : ~(View(p)[i].refs \subseteq DOMAIN View(p))
  BY DEF Cascade, Orphans
<1>5. PICK row : row = View(p)[i]
  OBVIOUS
<1>6. i \in DOMAIN store /\ row = store[i] /\ IsRow(row) /\ row.refs \subseteq DOMAIN store
  <2>1. i \notin Inserted(p)
    BY <1>0, <1>4, Seen DEF Writes
  <2>2. i \in DOMAIN store /\ View(p)[i] = store[i]
    BY <2>1, Seen
  <2>. QED  BY <1>0, <1>5, <2>2 DEF Storage, Orphans
<1>7. PICK r \in row.refs : r \in tx[p].del /\ r \in DOMAIN store
  BY <1>4, <1>5, <1>6 DEF View
<1>8. PICK k \in 1..job[p].at : Removes(p, job[p].ids, Statements[p][k], store[r])
  BY <1>7 DEF InTurn
<1>9. store[r].table # "sources"
  <2>1. k \in 1..(n - 1)
    BY <1>2, <1>3
  <2>2. Statements[p][k].op # "sweep_sources"
    BY <1>2, <2>1 DEF LastSweep
  <2>. QED  BY <1>8, <2>2 DEF Removes
<1>10. CASE row.table \in Named
  BY <1>6, <1>7, <1>10 DEF IsRow
<1>11. CASE row.table = "documents"
  <2>1. i \in In("documents", store) /\ row.refs = {row.key[2]}
    BY <1>6, <1>11 DEF In, IsRow
  <2>2. store[row.key[2]].table = "sources"
    BY <1>0, <1>6, <2>1 DEF RefersAsDeclared
  <2>. QED  BY <1>7, <1>9, <2>1, <2>2
<1>12. CASE row.table = "object_properties"
  <2>1. PICK j \in 1..(n - 1) : Statements[p][j].op = "sweep_properties"
    BY <1>2 DEF LastSweep
  <2>2. j \in 1..(job[p].at - 1)
    <3>1. j # job[p].at
      BY <1>0, <2>1 DEF Statement
    <3>. QED  BY <1>2, <1>3, <2>1, <3>1
  <2>3. ~Removes(p, job[p].ids, Statements[p][j], View(p)[i])
    BY <1>4, <2>2 DEF Achieved, Done, Lacked
  <2>4. InSeed(p, job[p].ids, row)
    BY <1>5, <1>12, <2>1, <2>3 DEF Removes
  <2>5. row.refs \subseteq Ids(p)
    BY <1>6, <2>4, SeedRefs
  <2>. QED  BY <1>4, <1>5, <2>5 DEF Achieved
<1>. QED  BY <1>6, <1>10, <1>11, <1>12 DEF IsRow, Tables, Named

\* The least row that is left is deleted next.
LEMMA DeleteRowInTurn ==
  ASSUME IInv, NEW p \in Jobs, DeleteRow(p), InTurn(p)
  PROVE  InTurn(p)'
<1>. DEFINE del == IF Least(job[p].todo) \in DOMAIN View(p)
                   THEN tx[p].del \cup {Least(job[p].todo)} ELSE tx[p].del
<1>0. Place(p) /\ Writes(p) /\ Own(p)
  BY DEF IInv, Good
<1>1. /\ job[p].pc = "rows" /\ job[p].todo # {} /\ store' = store
      /\ tx' = [tx EXCEPT ![p].del = del]
      /\ job' = [job EXCEPT ![p].todo = @ \ {Least(job[p].todo)}]
  BY DEF DeleteRow
<1>2. PICK i : i = Least(job[p].todo)
  OBVIOUS
<1>3. job[p].todo \subseteq Nat /\ i \in job[p].todo /\ \A j \in job[p].todo : i <= j
  <2>1. job[p].todo \subseteq Nat
    BY <1>0 DEF Place, Given
  <2>. QED  BY <1>1, <1>2, <2>1, LeastNumber
<1>4. /\ job'[p].pc = "rows" /\ job'[p].at = job[p].at /\ job'[p].ids = job[p].ids
      /\ job'[p].todo = job[p].todo \ {i}
  BY <1>0, <1>1, <1>2 DEF Place, IInv
<1>5. tx'[p].del = IF i \in DOMAIN View(p) THEN tx[p].del \cup {i} ELSE tx[p].del
  <2>1. tx[p] = [ins |-> tx[p].ins, del |-> tx[p].del, upd |-> tx[p].upd]
    BY <1>0 DEF Writes
  <2>2. tx'[p] = [tx[p] EXCEPT !.del = del]
    BY <1>1 DEF IInv
  <2>3. tx'[p].del = del
    <3>. HIDE DEF del
    <3>. QED  BY <2>1, <2>2
  <2>. QED  BY <1>2, <2>3
<1>6. job[p].at \in 1..job[p].at /\ Statement(p)' = Statement(p)
      /\ Statement(p) = Statements[p][job[p].at]
  BY <1>0, <1>4 DEF Place, Statement
<1>7. ASSUME NEW j \in tx'[p].del
      PROVE  \E k \in 1..job[p].at :
               /\ Removes(p, job[p].ids, Statements[p][k], store[j])
               /\ k = job[p].at => \A l \in job'[p].todo : j < l
  <2>1. CASE j \in tx[p].del
    BY <1>4, <2>1 DEF InTurn
  <2>2. CASE j = i /\ i \in DOMAIN View(p)
    <3>1. i \in DOMAIN store
      BY <1>0, <1>1, <1>3, <2>2, Seen DEF Own
    <3>2. Removes(p, job[p].ids, Statement(p), store[i])
      BY <1>1, <1>3, <3>1 DEF InTurn
    <3>3. \A l \in job'[p].todo : i < l
      BY <1>3, <1>4
    <3>. QED  BY <1>6, <2>2, <3>2, <3>3
  <2>. QED  BY <1>5, <2>1, <2>2
<1>8. \A j \in job'[p].todo \cap DOMAIN store' :
        Removes(p, job[p].ids, Statement(p), store'[j])
  BY <1>1, <1>4 DEF InTurn
<1>. QED  BY <1>1, <1>4, <1>6, <1>7, <1>8 DEF InTurn

\* At the next statement all rows are those of statements before it.
LEMMA NextInTurn ==
  ASSUME IInv, NEW p \in Jobs, InTurn(p), NEW i, NextStatement(p, i),
         store' = store, tx' = tx, Statement(p).op \notin Named
  PROVE  InTurn(p)'
<1>1. /\ job'[p].pc = "statement" /\ job'[p].at = job[p].at + 1
      /\ job'[p].ids = job[p].ids
  BY NextFields
<1>2. job[p].at \in 1..(Len(Statements[p]) + 1) /\ Len(Statements[p]) \in Nat
  BY StatementOrder DEF IInv, Good, Place
<1>3. \A k \in 1..job[p].at : k \in 1..(job[p].at + 1) /\ k # job[p].at + 1
  BY <1>2
<1>. QED  BY <1>1, <1>3 DEF InTurn

\* A step keeps the order of the job that takes it.
LEMMA OwnTurn ==
  ASSUME IInv, CInv, IInv', NEW p \in Jobs, Start(p) \/ Work(p) \/ Crash(p),
         Traced(p), SameSeed => InTurn(p)
  PROVE  Traced(p)' /\ (SameSeed => InTurn(p)')
<1>0. /\ Place(p) /\ Writes(p) /\ Place(p)' /\ Good(p) /\ Storage
      /\ job[p].at \in 1..(Len(Statements[p]) + 1) /\ Len(Statements[p]) \in Nat
  BY StatementOrder DEF IInv, Good, Place
<1>1. CASE job'[p].pc \notin Ingesting
  BY <1>0, <1>1, LeaveInTurn
<1>2. job[p] = [pc |-> job[p].pc, at |-> job[p].at, ids |-> job[p].ids,
                todo |-> job[p].todo, fetched |-> job[p].fetched]
      /\ job = [q \in Jobs |-> job[q]]
  BY <1>0 DEF IInv, Place
<1>3. CASE Start(p)
  <2>1. /\ job'[p].pc = "statement" /\ job'[p].at = job[p].at /\ job'[p].ids = job[p].ids
        /\ tx'[p] = tx[p] /\ Inserted(p) = {} /\ tx[p].del = {}
    BY <1>0, <1>2, <1>3 DEF Start, Place, Ingesting
  <2>. QED  BY <2>1 DEF Traced, InTurn, Inserted
<1>4. CASE InsertRow(p)
  <2>1. Traced(p)'
    BY <1>4, InsertRowTraced
  <2>2. job'[p].pc = "statement"
    BY <1>4, NextFields DEF InsertRow
  <2>3. tx'[p].del = {}
    <3>1. tx[p].del = {}
      BY <1>0, <1>4 DEF InsertRow, Upserting, AtStatement, Place, Inserts
    <3>2. PICK ins : tx' = [tx EXCEPT ![p].ins = ins]
      BY <1>4 DEF InsertRow
    <3>3. tx[p] = [ins |-> tx[p].ins, del |-> tx[p].del, upd |-> tx[p].upd]
      BY <1>0 DEF Writes
    <3>. QED  BY <3>1, <3>2, <3>3 DEF IInv
  <2>. QED  BY <2>1, <2>2, <2>3 DEF InTurn
<1>5. CASE KeepRow(p) \/ SelectId(p)
  <2>1. /\ tx' = tx /\ job[p].at <= Len(Statements[p]) /\ Statement(p).op \in Tables
        /\ job[p].pc \in {"statement", "lookup"}
    BY <1>0, <1>5 DEF KeepRow, SelectId, Upserting, AtStatement, Place, Named, Tables
  <2>2. tx'[p].del = {}
    BY <1>0, <2>1 DEF Place, Inserts
  <2>3. /\ job'[p].pc # "rows" /\ job'[p].at \in {job[p].at, job[p].at + 1}
        /\ job'[p].ids = job[p].ids \/ Statement(p).op \in Named
    <3>1. CASE \E i : NextStatement(p, i)
      BY <3>1, NextFields
    <3>2. CASE job' = [job EXCEPT ![p].pc = "lookup"]
      BY <1>2, <3>2
    <3>. QED  BY <1>5, <3>1, <3>2 DEF KeepRow, SelectId
  <2>4. Traced(p)'
    BY <1>0, <2>1, <2>3, TracedStays
  <2>. QED  BY <2>2, <2>3, <2>4 DEF InTurn
<1>6. CASE BeginDelete(p)
  <2>1. tx' = tx /\ job'[p].at = job[p].at /\ job'[p].ids = job[p].ids
    <3>1. PICK stale : job' = [job EXCEPT ![p].pc = "rows", ![p].todo = stale]
      BY <1>6 DEF BeginDelete, Sweep
    <3>. QED  BY <1>2, <1>6, <3>1 DEF BeginDelete
  <2>2. Traced(p)'
    BY <1>0, <2>1, TracedStays
  <2>3. SameSeed => Achieved(p)
    BY <1>6 DEF CInv, Kept, BeginDelete, AtStatement, Ingesting
  <2>. QED  BY <1>6, <2>2, <2>3, BeginDeleteInTurn
<1>7. CASE DeleteRow(p)
  <2>1. /\ tx'[p].ins = tx[p].ins
        /\ job'[p].at = job[p].at /\ job'[p].ids = job[p].ids
    <3>1. PICK del, todo : /\ tx' = [tx EXCEPT ![p].del = del]
                           /\ job' = [job EXCEPT ![p].todo = todo]
      BY <1>7 DEF DeleteRow
    <3>2. tx[p] = [ins |-> tx[p].ins, del |-> tx[p].del, upd |-> tx[p].upd]
      BY <1>0 DEF Writes
    <3>. QED  BY <1>2, <3>1, <3>2 DEF IInv
  <2>2. Traced(p)'
    BY <1>0, <2>1, TracedStays
  <2>. QED  BY <1>7, <2>2, DeleteRowInTurn
<1>8. CASE Cascade(p)
  <2>1. tx' = tx /\ job'[p].at = job[p].at /\ job'[p].ids = job[p].ids
    <3>1. PICK todo : job' = [job EXCEPT ![p].todo = todo]
      BY <1>8 DEF Cascade
    <3>. QED  BY <1>2, <1>8, <3>1 DEF Cascade
  <2>2. Traced(p)'
    BY <1>0, <2>1, TracedStays
  <2>3. SameSeed => Achieved(p)
    BY <1>8 DEF CInv, Kept, Cascade, Ingesting
  <2>. QED  BY <1>8, <2>2, <2>3, NothingCascades
<1>9. CASE EndDelete(p)
  <2>1. /\ store' = store /\ tx' = tx /\ NextStatement(p, 0)
        /\ Statement(p).op \notin Named
    BY <1>0, <1>9 DEF EndDelete, Place, Tables, Named
  <2>2. job'[p].at = job[p].at + 1 /\ job'[p].ids = job[p].ids
    BY <2>1, NextFields
  <2>3. Traced(p)'
    BY <1>0, <2>1, <2>2, TracedStays
  <2>. QED  BY <2>1, <2>3, NextInTurn
<1>10. CASE Fail(p) \/ CommitIngest(p) \/ FetchRows(p) \/ EmbedRow(p) \/ UpdateRow(p)
            \/ CommitBackfill(p)
  <2>1. CASE Fail(p) \/ EmbedRow(p) \/ CommitBackfill(p)
    BY <1>1, <1>2, <2>1 DEF Fail, EmbedRow, CommitBackfill, Ingesting
  <2>2. CASE CommitIngest(p)
    <3>1. PICK pc \in {"fetch", "done"} : job' = [job EXCEPT ![p].pc = pc]
      BY <2>2 DEF CommitIngest
    <3>. QED  BY <1>1, <1>2, <3>1 DEF Ingesting
  <2>3. CASE FetchRows(p) \/ UpdateRow(p)
    <3>1. PICK todo, fetched : job' = [job EXCEPT ![p].pc = "embed", ![p].todo = todo,
                                                 ![p].fetched = fetched]
      <4>1. CASE FetchRows(p)
        BY <4>1 DEF FetchRows
      <4>2. CASE UpdateRow(p)
        <5>1. PICK todo : job' = [job EXCEPT ![p].pc = "embed", ![p].todo = todo]
          BY <4>2 DEF UpdateRow
        <5>2. job' = [job EXCEPT ![p].pc = "embed", ![p].todo = todo,
                                 ![p].fetched = job[p].fetched]
          BY <1>2, <5>1
        <5>. QED  BY <5>2
      <4>. QED  BY <2>3, <4>1, <4>2
    <3>. QED  BY <1>1, <1>2, <3>1 DEF Ingesting
  <2>. QED  BY <1>10, <2>1, <2>2, <2>3
<1>11. Fail(p) \/ ~(ParentIsGone(p) \/ IdIsGone(p) \/ RestrictFails(p) \/ EmbedFails(p)
                    \/ DeadlockAborts(p) \/ Crash(p))
  BY DEF ParentIsGone, IdIsGone, RestrictFails, EmbedFails, DeadlockAborts, Crash
<1>. QED  BY <1>3, <1>4, <1>5, <1>6, <1>7, <1>8, <1>9, <1>10, <1>11 DEF Work

\* The backfill takes the rows by id.
LEMMA OwnRising ==
  ASSUME IInv, NEW p \in Jobs, Start(p) \/ Work(p) \/ Crash(p), Rising(p)
  PROVE  Rising(p)'
<1>. SUFFICES ASSUME job'[p].pc \in Filling
              PROVE  \A i \in Changed(p)', j \in job'[p].todo : i < j
  BY DEF Rising
<1>0. Place(p) /\ Writes(p) /\ Storage
  BY DEF IInv, Good
<1>1. CASE FetchRows(p)
  <2>1. Changed(p)' = {}
    BY <1>0, <1>1 DEF FetchRows, Place, Filling, Changed
  <2>. QED  BY <2>1
<1>2. CASE EmbedRow(p)
  <2>1. /\ tx' = tx /\ job[p].pc \in Filling /\ job'[p].todo = job[p].todo
    BY <1>0, <1>2 DEF EmbedRow, Filling, Place, IInv
  <2>. QED  BY <2>1 DEF Rising, Changed
<1>3. CASE UpdateRow(p)
  <2>1. job[p].pc = "update" /\ job[p].todo # {} /\ job[p].todo \subseteq Nat
    BY <1>0, <1>3 DEF UpdateRow, IInv, Good, Backfill, Place, Given
  <2>2. PICK i : i = Least(job[p].todo)
    OBVIOUS
  <2>3. i \in job[p].todo /\ \A j \in job[p].todo : i <= j
    BY <2>1, <2>2, LeastNumber
  <2>4. job'[p].todo = job[p].todo \ {i}
    BY <1>0, <1>3, <2>2 DEF UpdateRow, Place, IInv
  <2>5. Changed(p)' \subseteq Changed(p) \cup {i}
    <3>1. PICK upd : /\ tx' = [tx EXCEPT ![p].upd = upd]
                     /\ upd = tx[p].upd \/ upd = With(tx[p].upd, i, job[p].fetched[i])
      BY <1>3, <2>2 DEF UpdateRow
    <3>2. tx'[p].upd = upd
      <4>1. tx[p] = [ins |-> tx[p].ins, del |-> tx[p].del, upd |-> tx[p].upd]
        BY <1>0 DEF Writes
      <4>. QED  BY <3>1, <4>1 DEF IInv
    <3>. QED  BY <3>1, <3>2 DEF Changed, With
  <2>6. \A k \in Changed(p), j \in job[p].todo : k < j
    BY <2>1 DEF Rising, Filling
  <2>. QED  BY <2>1, <2>3, <2>4, <2>5, <2>6
<1>. QED  BY <1>1, <1>2, <1>3, StepIsOwn

-----------------------------------------------------------------------------
(* What it means for the others. *)

\* The rows after a step are those before it, and new ones of the job.
LEMMA RowsStay ==
  ASSUME IInv, NEW p \in Jobs, Start(p) \/ Work(p) \/ Crash(p)
  PROVE  \A i \in DOMAIN store' :
           \/ i \in Inserted(p)
           \/ /\ i \in DOMAIN store
              /\ store'[i].table = store[i].table
              /\ store'[i].key = store[i].key
<1>0. Storage /\ Writes(p)
  BY DEF IInv, Good
<1>1. CASE Commit(p)
  BY <1>0, <1>1, Committed
<1>2. CASE ~CommitIngest(p) /\ ~CommitBackfill(p)
  BY <1>2, OnlyCommits
<1>. QED  BY <1>1, <1>2 DEF CommitIngest, CommitBackfill

\* The others do not disturb the order of a job.
LEMMA OthersTurn ==
  ASSUME IInv, IInv', CInv, NEW p \in Jobs, Start(p) \/ Work(p) \/ Crash(p),
         NEW q \in Others(p), SameSeed, InTurn(q)
  PROVE  InTurn(q)'
<1>0. /\ q \in Jobs /\ job'[q] = job[q] /\ tx'[q] = tx[q] /\ p \in Others(q)
  BY StepIsOwn DEF Others
<1>1. /\ Writes(p) /\ Writes(q) /\ Writes(q)' /\ Written(q)' = Written(q)
      /\ Statement(q)' = Statement(q)
  BY <1>0 DEF IInv, Good, Written, Statement
<1>2. ASSUME NEW i \in DOMAIN store', i \notin Inserted(p)
      PROVE  /\ i \in DOMAIN store
             /\ \A st : Removes(q, job[q].ids, st, store[i])
                          => Removes(q, job[q].ids, st, store'[i])
  <2>1. PICK old, new : old = store[i] /\ new = store'[i]
    OBVIOUS
  <2>2. i \in DOMAIN store /\ new.table = old.table /\ new.key = old.key
    BY <1>2, <2>1, RowsStay
  <2>3. \A st : Removes(q, job[q].ids, st, old) => Removes(q, job[q].ids, st, new)
    BY <2>2, SameKey
  <2>. QED  BY <2>1, <2>2, <2>3
<1>3. ASSUME NEW i \in tx[q].del  PROVE i \in DOMAIN store' /\ i \notin Inserted(p)
  BY <1>1 DEF Writes, Written
<1>4. ASSUME job[q].pc = "rows", NEW i \in job[q].todo  PROVE i \notin Inserted(p)
  <2>1. Sparing(q)
    BY <1>0, <1>4 DEF CInv, Kept, Ingesting
  <2>. QED  BY <1>0, <1>4, <2>1 DEF Sparing, Marked
<1>. QED  BY <1>0, <1>1, <1>2, <1>3, <1>4 DEF InTurn

\* After the first commit the content is that of the seed.
LEMMA ContentIsSettled ==
  ASSUME IInv, CInv, NEW p \in Jobs, Start(p) \/ Work(p) \/ Crash(p), SameSeed,
         SameSeed', \A q \in Jobs : Settled(q)
  PROVE  \A q \in Jobs : Settled(q)'
<1>0. /\ job[p].pc # "absent" /\ job'[p].pc # "absent"
      /\ \A q \in Others(p) : job'[q] = job[q]
      /\ job'[p].pc \in AfterIngest => job[p].pc \in AfterIngest \/ CommitIngest(p)
  BY StepIsOwn
<1>1. CASE CommitIngest(p)
  <2>1. Content(store') = SeedContent(p)
    BY <1>1, CommitIsSeed
  <2>2. ASSUME NEW q \in Jobs, job'[q].pc \in AfterIngest
        PROVE  SeedContent(q) = SeedContent(p)
    <3>1. Seed[q] = Seed[p]
      BY <1>0, <2>2 DEF SameSeed, AfterIngest, Filling
    <3>. QED  BY <3>1, SameStatements
  <2>. QED  BY <2>1, <2>2 DEF Settled
<1>2. CASE ~CommitIngest(p)
  <2>1. Content(store') = Content(store)
    <3>1. CASE CommitBackfill(p)
      BY <3>1, BackfillFills
    <3>2. CASE ~CommitBackfill(p)
      BY <1>2, <3>2, OnlyCommits
    <3>. QED  BY <3>1, <3>2
  <2>2. \A q \in Jobs : job'[q].pc \in AfterIngest => job[q].pc \in AfterIngest
    BY <1>0, <1>2 DEF Others
  <2>. QED  BY <2>1, <2>2 DEF Settled
<1>. QED  BY <1>1, <1>2

\* The order is there from the beginning, and every step keeps it.
THEOREM OrderInductive == Spec => []OInv
<1>1. Init => OInv
  <2>. SUFFICES ASSUME Init  PROVE OInv
    OBVIOUS
  <2>1. \A p \in Jobs : /\ Inserted(p) = {} /\ tx[p].del = {}
                        /\ job[p].pc \in {"idle", "absent"}
    BY DEF Init, Inserted, NoWrites, Empty
  <2>. QED  BY <2>1 DEF OInv, Traced, Rising, InTurn, Settled, AfterIngest, Filling
<1>2. IInv /\ IInv' /\ CInv /\ OInv /\ [Next]_vars => OInv'
  <2>. SUFFICES ASSUME IInv, IInv', CInv, OInv, [Next]_vars  PROVE OInv'
    OBVIOUS
  <2>1. CASE Next
    <3>1. PICK p \in Jobs : Start(p) \/ Work(p) \/ Crash(p)
      BY <2>1 DEF Next
    <3>2. SameSeed' <=> SameSeed
      BY <2>1, SameSeedStays
    <3>3. /\ Traced(p)' /\ Rising(p)' /\ (SameSeed => InTurn(p)')
      BY <3>1, OwnTurn, OwnRising DEF OInv
    <3>4. ASSUME NEW q \in Others(p)
          PROVE  /\ Traced(q)' /\ Rising(q)' /\ (SameSeed => InTurn(q)')
      <4>1. q \in Jobs /\ job'[q] = job[q] /\ tx'[q] = tx[q]
        BY <3>1, StepIsOwn DEF Others
      <4>2. Inserted(q)' = Inserted(q) /\ Changed(q)' = Changed(q)
        BY <4>1 DEF Inserted, Changed
      <4>3. Traced(q)' /\ Rising(q)'
        BY <4>1, <4>2 DEF OInv, Traced, Rising
      <4>. QED  BY <3>1, <4>1, <4>3, OthersTurn DEF OInv
    <3>5. SameSeed => \A q \in Jobs : Settled(q)'
      BY <3>1, <3>2, ContentIsSettled DEF OInv
    <3>. QED  BY <3>2, <3>3, <3>4, <3>5 DEF OInv, Others
  <2>2. CASE UNCHANGED vars
    <3>1. store' = store /\ tx' = tx /\ job' = job
      BY <2>2 DEF vars
    <3>2. /\ (SameSeed' <=> SameSeed)
          /\ \A p \in Jobs : /\ Inserted(p)' = Inserted(p) /\ Changed(p)' = Changed(p)
                             /\ Statement(p)' = Statement(p)
      BY <3>1 DEF SameSeed, Inserted, Changed, Statement
    <3>3. \A p \in Jobs : /\ (Traced(p)' <=> Traced(p)) /\ (Rising(p)' <=> Rising(p))
                          /\ (InTurn(p)' <=> InTurn(p)) /\ (Settled(p)' <=> Settled(p))
      BY <3>1, <3>2 DEF Traced, Rising, InTurn, Settled
    <3>. QED  BY <3>2, <3>3 DEF OInv
  <2>. QED  BY <2>1, <2>2
<1>. QED  BY <1>1, <1>2, Inductive, KeptInductive, PTL DEF Spec

-----------------------------------------------------------------------------
(* What is waited for. *)

\* The job q is further than the job p, which waits for it.
Behind(p, q) ==
  \/ /\ job[p].pc \in Ingesting /\ job[q].pc \in Ingesting
     /\ \/ job[p].at < job[q].at
        \/ /\ job[p].at = job[q].at /\ job[p].pc = "rows" /\ job[q].pc = "rows"
           /\ Least(job[p].todo) < Least(job[q].todo)
  \/ /\ job[p].pc = "update" /\ job[q].pc = "update"
     /\ Least(job[p].todo) < Least(job[q].todo)

\* Two jobs of one seed, both in their ingest.
Together(p, q) == /\ q \in Others(p) /\ Seed[p] = Seed[q]
                  /\ job[p].pc \in Ingesting /\ job[q].pc \in Ingesting
                  /\ Sparing(p) /\ Achieved(p) /\ Sparing(q) /\ Achieved(q)

\* The row at hand is one of the seed.
LEMMA NewRowInSeed ==
  ASSUME NEW p \in Jobs, Naming(p), job[p].at \in 1..Len(Statements[p]),
         Statement(p).op \in Tables
  PROVE  InSeed(p, job[p].ids, NewRow(p))
<1>1. CASE Statement(p).op \in Named
  <2>1. /\ Statement(p).item.name \in Sources(p) \cup Objects(p)
        /\ Names(p, Statement(p).item.name, NewRow(p))
    BY <1>1, NextRow, TableOfName
  <2>. QED  BY <2>1, NamedIsInSeed
<1>2. CASE Statement(p).op \notin Named
  <2>1. Provides(job[p].ids, Statement(p), NewRow(p))
    BY <1>2, RowProvides
  <2>. QED  BY <2>1, ProvidedIsInSeed DEF Statement
<1>. QED  BY <1>1, <1>2

\* No job takes away a row whose id another one has read.
LEMMA KnownIsSpared ==
  ASSUME IInv, NEW p \in Jobs, NEW q \in Others(p), Seed[p] = Seed[q],
         Sparing(p), Achieved(q)
  PROVE  Ids(q) \cap Marked(p) = {}
<1>. SUFFICES ASSUME NEW n \in DOMAIN job[q].ids, job[q].ids[n] \in Marked(p)
              PROVE  FALSE
  BY DEF Ids
<1>1. PICK i : i = job[q].ids[n]
  OBVIOUS
<1>2. q \in Jobs /\ Naming(q) /\ n \in Sources(q) \cup Objects(q)
  BY DEF IInv, Good, Naming, Others
<1>3. i \in DOMAIN View(q) /\ i \notin Inserted(q)
  BY <1>1 DEF Achieved, Ids, Sparing
<1>4. i \in DOMAIN store /\ Names(q, n, store[i])
  BY <1>1, <1>2, <1>3, Seen DEF Naming
<1>5. InSeed(p, job[p].ids, store[i])
  BY <1>2, <1>4, NamedIsInSeed
<1>. QED  BY <1>1, <1>4, <1>5 DEF Sparing

\* No job sees a row that has the key of one another job has inserted.
LEMMA NoSecondRow ==
  ASSUME IInv, NEW p \in Jobs, NEW q \in Others(p), Sparing(q),
         NEW i \in Inserted(q), NEW j \in DOMAIN View(p),
         tx[q].ins[i].table # "documents",
         View(p)[j].table = tx[q].ins[i].table, View(p)[j].key = tx[q].ins[i].key
  PROVE  FALSE
<1>0. q \in Jobs /\ Good(q) /\ Writes(q) /\ Writes(p) /\ Apart(p, q)
  BY DEF IInv, Good, Others
<1>1. j \notin Inserted(p)
  BY <1>0, Seen DEF Apart
<1>2. j \in DOMAIN store /\ View(p)[j] = store[j]
  BY <1>1, Seen
<1>3. PICK row, new : row = store[j] /\ new = tx[q].ins[i]
  OBVIOUS
<1>4. InSeed(q, job[q].ids, row)
  <2>1. InSeed(q, job[q].ids, new)
    BY <1>0, <1>3, InsertedIsInSeed
  <2>2. row.table = new.table /\ row.key = new.key
    BY <1>2, <1>3
  <2>. QED  BY <2>1, <2>2, SameKey
<1>5. j \notin tx[q].del
  BY <1>2, <1>3, <1>4 DEF Sparing, Marked
<1>6. /\ j \in DOMAIN View(q) /\ View(q)[j] = row
      /\ i \in DOMAIN View(q) /\ View(q)[i] = new /\ i # j
  BY <1>0, <1>2, <1>3, <1>5 DEF View, Inserted, Writes, Written
<1>7. UniqueKeys(View(q))
  BY <1>0 DEF Writes
<1>8. row.table = new.table /\ row.key = new.key /\ row.table # "documents"
  BY <1>2, <1>3
<1>. QED  BY <1>6, <1>7, <1>8, KeysPairwise

\* What a statement makes for one job it has made for the other.
LEMMA MadeForBoth ==
  ASSUME IInv, NEW p \in Jobs, NEW q \in Jobs, Together(p, q),
         NEW k \in 1..(job[p].at - 1), NEW row, row.table # "documents",
         Makes(job[q].ids, Statements[p][k], row)
  PROVE  \E j \in DOMAIN View(p) : /\ View(p)[j].table = row.table
                                   /\ View(p)[j].key = row.key
<1>. DEFINE st == Statements[p][k]
<1>0. Naming(p) /\ Place(p) /\ k \in 1..Len(Statements[p]) /\ Achieved(p)
  BY StatementOrder DEF IInv, Good, Place, Together
<1>1. OfItsTable(p, st)
  BY <1>0, StatementOrder
<1>2. CASE st.op \in Named /\ row.table = st.op /\ row.key = st.item.name
  <2>1. PICK n : n = st.item.name
    OBVIOUS
  <2>2. n \in DOMAIN job[p].ids
    BY <1>0, <1>2, <2>1 DEF Naming
  <2>3. PICK j : j = job[p].ids[n]
    OBVIOUS
  <2>4. j \in DOMAIN View(p)
    BY <1>0, <2>2, <2>3 DEF Achieved, Ids
  <2>5. Names(p, n, View(p)[j])
    BY <1>0, <2>2, <2>3, <2>4, NameSeen
  <2>6. row.table = IF n \in Sources(p) THEN "sources" ELSE "objects"
    BY <1>1, <1>2, <2>1, SeedIsClosed DEF OfItsTable, Named
  <2>. QED  BY <1>2, <2>1, <2>4, <2>5, <2>6 DEF Names
<1>3. CASE Provides(job[q].ids, st, row)
  <2>1. PICK e : e = st.item
    OBVIOUS
  <2>2. st.op = "object_properties" /\ IsFact(job[q].ids, e, row)
    BY <1>3, <2>1 DEF Provides, IsText
  <2>3. Done(p, job[p].ids, View(p), k)
    BY <1>0 DEF Achieved
  <2>4. PICK j \in DOMAIN View(p) : Provides(job[p].ids, st, View(p)[j])
    BY <2>2, <2>3 DEF Done, Had
  <2>5. IsFact(job[p].ids, e, View(p)[j])
    BY <2>1, <2>2, <2>4 DEF Provides
  <2>6. job[p].ids[e.object] = job[q].ids[e.object]
        /\ job[p].ids[e.source] = job[q].ids[e.source]
    BY <2>2, <2>5, IdsAgree DEF Together, IsFact
  <2>. QED  BY <2>2, <2>5, <2>6 DEF IsFact
<1>. QED  BY <1>2, <1>3 DEF Makes

\* Among jobs that know all names, what one removes the other does.
LEMMA RemovalsAgree ==
  ASSUME IInv, NEW p \in Jobs, NEW q \in Jobs, Together(p, q),
         DOMAIN job[p].ids = Sources(p) \cup Objects(p),
         DOMAIN job[q].ids = Sources(q) \cup Objects(q),
         NEW k \in 1..Len(Statements[q]), NEW row,
         Removes(q, job[q].ids, Statements[q][k], row)
  PROVE  Removes(p, job[p].ids, Statements[p][k], row)
<1>1. /\ Statements[q] = Statements[p] /\ Documents(q) = Documents(p)
      /\ Sources(q) = Sources(p) /\ Objects(q) = Objects(p) /\ p \in Others(q)
  BY SameStatements DEF Together, Others
<1>2. \A n \in Sources(p) \cup Objects(p) : job[q].ids[n] = job[p].ids[n]
  BY <1>1, IdsAgree DEF Together
<1>3. InSeed(p, job[p].ids, row) => InSeed(q, job[q].ids, row)
  BY <1>1, SeedsAgree DEF Together
<1>4. /\ Statements[p][k].op = "sweep_source" => Statements[p][k].item \in Sources(p)
      /\ \A d \in Documents(p) : d.source \in Sources(p)
  BY <1>1, StatementOrder, SeedIsClosed DEF OfItsTable
<1>. QED  BY <1>1, <1>2, <1>3, <1>4 DEF Removes

\* Where the content is that of the seed, every document is one of it for
\* the jobs that know all names.
LEMMA ContentInSeed ==
  ASSUME IInv, CInv, NEW p \in Jobs, Sparing(p), Achieved(p),
         DOMAIN job[p].ids = Sources(p) \cup Objects(p),
         Content(store) = SeedContent(p), NEW i \in In("documents", store)
  PROVE  InSeed(p, job[p].ids, store[i])
<1>0. /\ Storage /\ Good(p) /\ Writes(p) /\ Naming(p) /\ RefersAsDeclared(store)
  BY DEF IInv, CInv, Good
<1>1. PICK s : s = store[i].key[2]
  OBVIOUS
<1>2. /\ store[i].table = "documents" /\ s \in DOMAIN store
      /\ store[s].table = "sources"
  BY <1>0, <1>1, SourceOf
<1>3. PICK d \in Documents(p) : store[i].key[1] = d.content /\ store[s].key = d.source
  <2>1. Content(store).documents = SeedContent(p).documents
    OBVIOUS
  <2>2. DocumentIn(store, i) \in {[content |-> e.content, source |-> e.source] :
                                    e \in Documents(p)}
    BY <2>1 DEF Content, SeedContent
  <2>. QED  BY <1>1, <2>2 DEF DocumentIn
<1>4. d.source \in Sources(p) /\ Names(p, d.source, store[s])
  BY <1>2, <1>3, SeedIsClosed DEF Names
<1>5. s \notin Marked(p)
  BY <1>2, <1>4, NamedIsInSeed DEF Sparing
<1>6. s \in DOMAIN View(p) /\ View(p)[s] = store[s]
  BY <1>0, <1>2, <1>5 DEF View, Writes, Inserted, Marked
<1>7. PICK j : j = job[p].ids[d.source]
  OBVIOUS
<1>8. j \in DOMAIN View(p) /\ Names(p, d.source, View(p)[j])
  BY <1>0, <1>4, <1>7, NameSeen DEF Achieved, Ids
<1>9. s = j
  <2>1. UniqueKeys(View(p))
    BY <1>0 DEF Writes
  <2>2. /\ View(p)[s].table # "documents" /\ View(p)[s].table = View(p)[j].table
        /\ View(p)[s].key = View(p)[j].key
    BY <1>2, <1>4, <1>6, <1>8 DEF Names
  <2>. QED  BY <1>6, <1>8, <2>1, <2>2, KeysPairwise
<1>10. IsText(job[p].ids, d, store[i])
  BY <1>1, <1>2, <1>3, <1>4, <1>7, <1>9 DEF IsText
<1>. QED  BY <1>10 DEF InSeed

\* A job that inserts waits for one that is at a later statement.
LEMMA UpsertWaits ==
  ASSUME IInv, CInv, OInv, SameSeed, NEW p \in Jobs, NEW q \in Blockers(p), Upserting(p)
  PROVE  Behind(p, q)
<1>. DEFINE row == NewRow(p)
<1>0. /\ q \in Others(p) /\ q \in Jobs /\ p \in Others(q)
      /\ \/ Matches(tx[q].ins, row) # {} /\ row.table # "documents"
         \/ Matches(store, row) \cap tx[q].del # {}
         \/ row.refs \cap tx[q].del # {}
  <2>1. q \in Others(p) /\ (Contests(q, row) \/ row.refs \cap tx[q].del # {})
    <3>1. job[p].pc = "statement"
      BY DEF Upserting, AtStatement
    <3>. QED  BY <3>1 DEF Blockers
  <2>. HIDE DEF row
  <2>. QED  BY <2>1 DEF Contests, Others
<1>1. /\ Good(p) /\ Good(q) /\ Naming(p) /\ Place(p) /\ Place(q) /\ Writes(q)
      /\ Len(Statements[p]) \in Nat
      /\ job[p].pc = "statement" /\ job[p].at \in 1..Len(Statements[p])
      /\ Statement(p).op \in Tables /\ job[q].at \in Nat
  BY <1>0, StatementOrder DEF IInv, Good, Place, Upserting, AtStatement
<1>2. Together(p, q) /\ Together(q, p)
  <2>1. job[q].pc \in Ingesting
    BY <1>0, <1>1 DEF Place, Matches, Inserted
  <2>2. Seed[p] = Seed[q] /\ job[p].pc \in Ingesting
    BY <1>0, <1>1, <2>1 DEF SameSeed, Ingesting
  <2>. QED  BY <1>0, <2>1, <2>2 DEF CInv, Kept, Together
<1>3. InSeed(p, job[p].ids, row)
  BY <1>1, NewRowInSeed
<1>4. CASE Matches(tx[q].ins, row) # {} /\ row.table # "documents"
  <2>1. PICK i \in Inserted(q) : /\ tx[q].ins[i].table = row.table
                                 /\ tx[q].ins[i].key = row.key
    BY <1>4 DEF Matches, Inserted
  <2>2. PICK new : new = tx[q].ins[i]
    OBVIOUS
  <2>3. PICK k \in 1..(job[q].at - 1) : Makes(job[q].ids, Statements[q][k], new)
    BY <1>0, <2>2 DEF OInv, Traced
  <2>4. ~(job[q].at <= job[p].at)
    <3>. SUFFICES ASSUME job[q].at <= job[p].at  PROVE FALSE
      OBVIOUS
    <3>1. k \in 1..(job[p].at - 1)
      BY <1>1, <2>3
    <3>2. Statements[q] = Statements[p]
      BY <1>0, <1>2, SameStatements DEF Together
    <3>3. new.table # "documents"
      BY <1>4, <2>1, <2>2
    <3>4. PICK j \in DOMAIN View(p) : View(p)[j].table = new.table /\ View(p)[j].key = new.key
      BY <1>0, <1>2, <2>3, <3>1, <3>2, <3>3, MadeForBoth
    <3>5. Sparing(q)
      BY <1>2 DEF Together
    <3>. QED  BY <1>0, <2>2, <3>3, <3>4, <3>5, NoSecondRow
  <2>. QED  BY <1>1, <1>2, <2>4 DEF Behind, Together
<1>5. CASE Matches(store, row) \cap tx[q].del # {}
  <2>1. PICK i \in tx[q].del : /\ i \in DOMAIN store
                               /\ store[i].table = row.table /\ store[i].key = row.key
    BY <1>5 DEF Matches
  <2>2. i \in Marked(q)
    BY DEF Marked
  <2>3. DOMAIN job[q].ids = Sources(q) \cup Objects(q)
    BY <1>0, <1>1, <2>2, MarkedIsKnown
  <2>4. PICK new, old : new = row /\ old = store[i]
    OBVIOUS
  <2>5. InSeed(q, job[q].ids, new)
    BY <1>0, <1>2, <1>3, <2>3, <2>4, SeedsAgree DEF Together
  <2>6. new.table = old.table /\ new.key = old.key
    BY <2>1, <2>4
  <2>7. InSeed(q, job[q].ids, old)
    BY <2>5, <2>6, SameKey
  <2>. QED  BY <1>2, <2>1, <2>2, <2>4, <2>7 DEF Together, Sparing
<1>6. CASE row.refs \cap tx[q].del # {}
  <2>1. row.refs \subseteq Ids(p)
    BY <1>1, NextRow
  <2>2. Ids(p) \cap Marked(q) = {}
    BY <1>0, <1>2, KnownIsSpared DEF Together
  <2>. QED  BY <1>6, <2>1, <2>2 DEF Marked
<1>. QED  BY <1>0, <1>4, <1>5, <1>6

\* A job that deletes waits for one that deletes, and is further.
LEMMA DeleteWaits ==
  ASSUME IInv, CInv, OInv, SameSeed, NEW p \in Jobs, NEW q \in Blockers(p),
         Blockers(q) # {}, job[p].pc = "rows"
  PROVE  Behind(p, q)
<1>0. /\ q \in Others(p) /\ q \in Jobs /\ p \in Others(q) /\ job[p].todo # {}
      /\ Least(job[p].todo) \in tx[q].del \cup Changed(q) \cup Referred(q)
  BY DEF Blockers, Upserting, AtStatement, Others, Written, Changed
<1>1. /\ Good(p) /\ Good(q) /\ Place(p) /\ Place(q) /\ Writes(p) /\ Writes(q) /\ Own(q)
      /\ job[p].at \in Nat /\ job[q].at \in Nat /\ Apart(p, q)
      /\ Len(Statements[q]) \in Nat /\ Storage
      /\ job[q].at \in 1..(Len(Statements[q]) + 1)
  BY <1>0, StatementOrder DEF IInv, Good, Place
<1>2. PICK i : i = Least(job[p].todo)
  OBVIOUS
<1>3. i \in job[p].todo /\ i \in Marked(p)
  <2>1. job[p].todo \subseteq Nat
    BY <1>1 DEF Place, Given
  <2>. QED  BY <1>0, <1>2, <2>1, LeastNumber DEF Marked
<1>4. DOMAIN job[p].ids = Sources(p) \cup Objects(p)
  BY <1>1, <1>3, MarkedIsKnown
<1>5. Sparing(p) /\ Achieved(p)
  BY DEF CInv, Kept, Ingesting
<1>6. job[q].pc # "absent" => Seed[p] = Seed[q]
  BY <1>0 DEF SameSeed
<1>7. job[q].pc \in Ingesting => Together(p, q) /\ Together(q, p)
  BY <1>0, <1>5, <1>6 DEF CInv, Kept, Together, Ingesting
<1>8. CASE i \in tx[q].del
  <2>1. job[q].pc \in Ingesting
    BY <1>1, <1>8 DEF Place
  <2>2. DOMAIN job[q].ids = Sources(q) \cup Objects(q)
    BY <1>0, <1>1, <1>8, MarkedIsKnown DEF Marked
  <2>3. i \in DOMAIN store /\ i \in DOMAIN View(p) /\ View(p)[i] = store[i]
    BY <1>1, <1>8 DEF Writes, Written, Apart, View, Inserted
  <2>4. PICK k \in 1..job[q].at :
          /\ Removes(q, job[q].ids, Statements[q][k], store[i])
          /\ k = job[q].at => job[q].pc = "rows" /\ \A j \in job[q].todo : i < j
    BY <1>0, <1>8 DEF OInv, InTurn
  <2>5. k \in 1..Len(Statements[q])
    BY <1>1, <2>4 DEF Place
  <2>6. Removes(p, job[p].ids, Statements[p][k], View(p)[i])
    BY <1>0, <1>4, <1>7, <2>1, <2>2, <2>3, <2>4, <2>5, RemovalsAgree
  <2>7. ~(k < job[p].at)
    <3>. SUFFICES ASSUME k < job[p].at  PROVE FALSE
      OBVIOUS
    <3>1. k \in 1..(job[p].at - 1)
      BY <1>1
    <3>. QED  BY <1>5, <2>3, <2>6, <3>1 DEF Achieved, Done, Lacked
  <2>8. CASE job[p].at < job[q].at
    BY <2>1, <2>8 DEF Behind, Ingesting
  <2>9. CASE job[p].at = job[q].at /\ k = job[q].at
    <3>1. job[q].pc = "rows" /\ \A j \in job[q].todo : i < j
      BY <2>4, <2>9
    <3>2. job[q].todo # {} /\ job[q].todo \subseteq Nat
      BY <1>1, <3>1 DEF Blockers, Upserting, AtStatement, Place, Given
    <3>3. i < Least(job[q].todo)
      BY <3>1, <3>2, LeastNumber
    <3>. QED  BY <1>2, <2>9, <3>1, <3>3 DEF Behind, Ingesting
  <2>. QED  BY <1>1, <2>4, <2>7, <2>8, <2>9
<1>9. CASE i \in Changed(q)
  <2>1. /\ i \in In("documents", store) /\ i \in DOMAIN store
        /\ job[q].pc \in Filling
    BY <1>1, <1>9 DEF Writes, Written, Changed, Place, In
  <2>2. Content(store) = SeedContent(p)
    <3>1. Content(store) = SeedContent(q)
      BY <1>0, <2>1 DEF OInv, Settled, AfterIngest
    <3>2. SeedContent(q) = SeedContent(p)
      BY <1>0, <1>6, <2>1, SameStatements DEF Filling
    <3>. QED  BY <3>1, <3>2
  <2>3. InSeed(p, job[p].ids, store[i])
    BY <1>4, <1>5, <2>1, <2>2, ContentInSeed
  <2>. QED  BY <1>3, <1>5, <2>1, <2>3 DEF Sparing
<1>10. CASE i \in Referred(q)
  <2>1. PICK j \in Inserted(q) : i \in tx[q].ins[j].refs
    BY <1>10 DEF Referred, Inserted
  <2>2. i \in Ids(q) /\ job[q].pc \in Ingesting
    BY <1>0, <1>1, <2>1, OwnRefs DEF Place
  <2>3. Ids(q) \cap Marked(p) = {}
    BY <1>0, <1>7, <2>2, KnownIsSpared DEF Together
  <2>. QED  BY <1>3, <2>2, <2>3
<1>. QED  BY <1>0, <1>2, <1>8, <1>9, <1>10

\* A backfill waits for a backfill, and that one for a higher row.
LEMMA UpdateWaits ==
  ASSUME IInv, CInv, OInv, SameSeed, NEW p \in Jobs, NEW q \in Blockers(p),
         Blockers(q) # {}, job[p].pc = "update"
  PROVE  Behind(p, q)
<1>0. /\ q \in Others(p) /\ q \in Jobs
      /\ Least(job[p].todo) \in tx[q].del \cup Changed(q)
  BY DEF Blockers, Upserting, AtStatement, Others, Written, Changed
<1>1. /\ Good(p) /\ Good(q) /\ Place(p) /\ Place(q) /\ Writes(q) /\ Backfill(p) /\ Backfill(q)
  BY <1>0 DEF IInv, Good
<1>2. PICK i : i = Least(job[p].todo)
  OBVIOUS
<1>3. i \in job[p].todo /\ i \in DOMAIN store /\ i \in In("documents", store)
  <2>1. job[p].todo \subseteq Nat /\ job[p].todo # {}
    BY <1>1 DEF Place, Given, Backfill
  <2>2. i \in job[p].todo
    BY <1>2, <2>1, LeastNumber
  <2>3. i \in DOMAIN store
    BY <1>0, <1>1, <1>2 DEF Writes, Written, Changed
  <2>. QED  BY <1>1, <2>2, <2>3 DEF Backfill, Filling, In
<1>4. CASE i \in tx[q].del
  <2>1. job[q].pc \in Ingesting /\ i \in Marked(q)
    BY <1>1, <1>4 DEF Place, Marked
  <2>2. DOMAIN job[q].ids = Sources(q) \cup Objects(q)
    BY <1>0, <1>1, <2>1, MarkedIsKnown
  <2>3. Sparing(q) /\ Achieved(q)
    BY <1>0, <2>1 DEF CInv, Kept
  <2>4. Content(store) = SeedContent(q)
    <3>1. Content(store) = SeedContent(p)
      BY DEF OInv, Settled, AfterIngest, Filling
    <3>2. Seed[p] = Seed[q]
      BY <1>0, <2>1 DEF SameSeed, Ingesting
    <3>3. SeedContent(q) = SeedContent(p)
      BY <1>0, <3>2, SameStatements
    <3>. QED  BY <3>1, <3>3
  <2>5. InSeed(q, job[q].ids, store[i])
    BY <1>0, <1>3, <2>2, <2>3, <2>4, ContentInSeed
  <2>. QED  BY <1>3, <2>1, <2>3, <2>5 DEF Sparing
<1>5. CASE i \in Changed(q)
  <2>1. job[q].pc \in Filling
    BY <1>1, <1>5 DEF Place
  <2>2. job[q].pc = "update"
    BY <2>1 DEF Blockers, Upserting, AtStatement, Filling
  <2>3. job[q].todo # {} /\ job[q].todo \subseteq Nat
    BY <1>1, <2>2 DEF Backfill, Place, Given
  <2>4. i < Least(job[q].todo)
    BY <1>0, <1>5, <2>1, <2>3, LeastNumber DEF OInv, Rising
  <2>. QED  BY <1>2, <2>2, <2>4 DEF Behind
<1>. QED  BY <1>0, <1>2, <1>4, <1>5

\* A job that waits is behind every waiting job it waits for.
LEMMA WaitsBehind ==
  ASSUME IInv, CInv, OInv, SameSeed, NEW p \in Jobs, NEW q \in Blockers(p),
         Blockers(q) # {}
  PROVE  Behind(p, q)
<1>1. Upserting(p) \/ job[p].pc = "rows" \/ job[p].pc = "update"
  BY DEF Blockers
<1>. QED  BY <1>1, UpsertWaits, DeleteWaits, UpdateWaits

\* Bounded numbers have a greatest one.
LEMMA GreatestNumber ==
  ASSUME NEW N \in Nat, NEW T, T \subseteq 0..N, T # {}
  PROVE  \E m \in T : \A k \in T : k <= m
<1>. DEFINE gaps == {N - k : k \in T}
<1>1. gaps \subseteq Nat /\ gaps # {}
  <2>1. \A k \in T : k \in Nat /\ k <= N
    OBVIOUS
  <2>2. \A k \in T : N - k \in Nat
    BY <2>1
  <2>. QED  BY <2>2
<1>2. Least(gaps) \in gaps /\ \A g \in gaps : Least(gaps) <= g
  <2>. HIDE DEF gaps
  <2>. QED  BY <1>1, LeastNumber
<1>3. PICK m \in T : Least(gaps) = N - m
  BY <1>2
<1>4. \A k \in T : N - m <= N - k
  BY <1>2, <1>3
<1>. QED  BY <1>4

\* Jobs of one seed never wait for one another in a cycle: whoever waits
\* waits for one that is further, and one is furthest.
THEOREM NoneWaitInACircle == Spec => []NoLockCycle
<1>1. ASSUME IInv, CInv, OInv, SameSeed, NEW jobs \in SUBSET Running, LockCycle(jobs)
      PROVE  FALSE
  <2>1. jobs # {} /\ jobs \subseteq Jobs
    BY <1>1 DEF LockCycle, Running
  <2>2. ASSUME NEW p \in jobs  PROVE \E q \in jobs : Behind(p, q)
    <3>1. PICK q \in jobs : q \in Blockers(p)
      BY <1>1 DEF LockCycle
    <3>2. Blockers(q) # {}
      BY <1>1 DEF LockCycle
    <3>. QED  BY <1>1, <2>1, <3>1, <3>2, WaitsBehind
  <2>3. nextId \in Nat
    BY <1>1 DEF IInv, Storage
  <2>4. ASSUME NEW p \in jobs, job[p].pc = "update" \/ (job[p].pc = "rows" /\ job[p].todo # {})
        PROVE  Least(job[p].todo) \in 0..nextId
    <3>1. job[p].todo \subseteq Given /\ job[p].todo # {}
      BY <1>1, <2>1, <2>4 DEF IInv, Good, Place, Backfill
    <3>2. job[p].todo \subseteq Nat
      BY <3>1 DEF Given
    <3>3. Least(job[p].todo) \in job[p].todo
      BY <3>1, <3>2, LeastNumber
    <3>. QED  BY <2>3, <3>1, <3>3 DEF Given
  <2>5. ASSUME NEW p \in jobs, job[p].pc = "rows"  PROVE job[p].todo # {}
    BY <1>1, <2>5 DEF LockCycle, Blockers, Upserting, AtStatement
  <2>6. CASE \A p \in jobs : job[p].pc = "update"
    <3>. DEFINE places == {Least(job[p].todo) : p \in jobs}
    <3>1. places \subseteq 0..nextId /\ places # {}
      BY <2>1, <2>4, <2>6
    <3>2. PICK m \in places : \A k \in places : k <= m
      <4>. HIDE DEF places
      <4>. QED  BY <2>3, <3>1, GreatestNumber
    <3>3. PICK p \in jobs : m = Least(job[p].todo)
      BY <3>2
    <3>4. PICK q \in jobs : Behind(p, q)
      BY <2>2
    <3>5. m < Least(job[q].todo)
      BY <2>6, <3>3, <3>4 DEF Behind, Ingesting
    <3>6. Least(job[q].todo) <= m /\ m \in Nat /\ Least(job[q].todo) \in Nat
      BY <3>1, <3>2
    <3>. QED  BY <3>5, <3>6
  <2>7. CASE \E p \in jobs : job[p].pc # "update"
    <3>. DEFINE some == {p \in jobs : job[p].pc \in Ingesting}
                places == {job[p].at : p \in some}
    <3>1. PICK p0 \in jobs : job[p0].pc \in Ingesting
      BY <2>2, <2>7 DEF Behind
    <3>2. PICK N \in Nat : N = Len(Statements[p0]) + 1
      BY <2>1, StatementOrder
    <3>3. \A p \in some : job[p].at \in 0..N
      <4>1. ASSUME NEW p \in some  PROVE job[p].at \in 0..N
        <5>1. /\ job[p].at \in 1..(Len(Statements[p]) + 1)
              /\ Len(Statements[p]) \in Nat
          BY <1>1, <2>1, StatementOrder DEF IInv, Good, Place
        <5>2. Seed[p] = Seed[p0]
          BY <1>1, <2>1, <3>1 DEF SameSeed, Ingesting
        <5>3. Statements[p] = Statements[p0]
          BY <2>1, <5>2, SameStatements
        <5>. QED  BY <3>2, <5>1, <5>3
      <4>. QED  BY <4>1
    <3>4. PICK m \in places : \A k \in places : k <= m
      <4>1. places \subseteq 0..N /\ places # {}
        BY <3>1, <3>3
      <4>. HIDE DEF places
      <4>. QED  BY <4>1, GreatestNumber
    <3>. DEFINE last == {p \in some : job[p].at = m /\ job[p].pc = "rows"}
                rows == {Least(job[p].todo) : p \in last}
    <3>5. ASSUME NEW p \in some, job[p].at = m
          PROVE  \E q \in last : job[p].pc = "rows" /\ Least(job[p].todo) < Least(job[q].todo)
      <4>1. PICK q \in jobs : Behind(p, q)
        BY <2>2
      <4>2. q \in some
        BY <4>1 DEF Behind, Ingesting
      <4>3. job[q].at <= m /\ job[q].at \in Nat /\ m \in Nat
        BY <3>3, <3>4, <4>2
      <4>. QED  BY <3>5, <4>1, <4>2, <4>3 DEF Behind, Ingesting
    <3>6. last # {}
      BY <3>4, <3>5
    <3>7. rows \subseteq 0..nextId /\ rows # {}
      BY <2>4, <2>5, <3>6
    <3>8. PICK r \in rows : \A k \in rows : k <= r
      <4>. HIDE DEF rows
      <4>. QED  BY <2>3, <3>7, GreatestNumber
    <3>9. PICK p \in last : r = Least(job[p].todo)
      BY <3>8
    <3>10. PICK q \in last : r < Least(job[q].todo)
      BY <3>5, <3>9
    <3>11. Least(job[q].todo) <= r /\ r \in Nat /\ Least(job[q].todo) \in Nat
      BY <3>7, <3>8
    <3>. QED  BY <3>10, <3>11
  <2>. QED  BY <2>6, <2>7
<1>2. IInv /\ CInv /\ OInv => NoLockCycle
  BY <1>1 DEF NoLockCycle
<1>. QED  BY <1>2, Inductive, KeptInductive, OrderInductive, PTL
=============================================================================
