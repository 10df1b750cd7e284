------------------------------ MODULE MCIngest ------------------------------
(* Instances of Ingest for TLC. *)
EXTENDS Ingest

CONSTANTS seed, embed, oldEmbed, newSeed, revisedSeed

Item(name) == [name |-> name, rest |-> "v1"]
Fact(o, s, v) == [object |-> o, property |-> "max", source |-> s, rest |-> v]
Text(c, s) == [content |-> c, source |-> s]

\* Two pages, one object with one value, two texts and one.
Current ==
  [sources |-> <<Item("s1"), Item("s2")>>, objects |-> <<Item("o1")>>,
   properties |-> <<Fact("o1", "s1", "v1")>>,
   documents |-> <<Text("t1", "s1"), Text("t2", "s2"), Text("t3", "s1")>>]

\* The next image: the second text is revised, the object is another one,
\* the first page and its texts are gone.
Later ==
  [sources |-> <<Item("s2")>>, objects |-> <<Item("o2")>>,
   properties |-> <<Fact("o2", "s2", "v1")>>,
   documents |-> <<Text("t2b", "s2")>>]

\* The current seed without its third text.
Shorter == [Current EXCEPT !.documents = SubSeq(@, 1, 2)]

\* A correction of the value.
Revised == [Current EXCEPT !.properties = <<Fact("o1", "s1", "v2")>>]

const_Seed == [p \in Jobs |->
  CASE p \in {seed, embed} -> Current
    [] p = oldEmbed -> Shorter
    [] p = newSeed -> Later
    [] p = revisedSeed -> Revised]

-----------------------------------------------------------------------------
(* The tables before the first job. *)

Nothing == Empty

\* The previous theme, with an embedding.
OldTheme ==
  <<Row("sources", "s0", {}, "v1"), Row("objects", "o0", {}, "v1"),
    Row("object_properties", <<2, "max", 1>>, {1, 2}, "v1"),
    Row("documents", <<"t0", 1>>, {1}, "t0")>>

\* The seed before a revision of its texts.
OldTexts ==
  <<Row("sources", "s1", {}, "v1"), Row("sources", "s2", {}, "v1"),
    Row("objects", "o1", {}, "v1"),
    Row("object_properties", <<3, "max", 1>>, {1, 3}, "v1"),
    Row("documents", <<"t1", 1>>, {1}, "t1"),
    Row("documents", <<"t3old", 1>>, {1}, Null),
    Row("documents", <<"t2old", 2>>, {2}, "t2old")>>

\* The seed, one text without an embedding.
Synced ==
  <<Row("sources", "s1", {}, "v1"), Row("sources", "s2", {}, "v1"),
    Row("objects", "o1", {}, "v1"),
    Row("object_properties", <<3, "max", 1>>, {1, 3}, "v1"),
    Row("documents", <<"t1", 1>>, {1}, "t1"),
    Row("documents", <<"t2", 2>>, {2}, Null),
    Row("documents", <<"t3", 1>>, {1}, "t3")>>

\* A seed that only named its pages.
Pages ==
  <<Row("sources", "s1", {}, "v1"), Row("sources", "s2", {}, "v1")>>

-----------------------------------------------------------------------------
(* The jobs that run together, and the tables they meet. *)

Deployed(jobs, before) == [jobs |-> jobs, before |-> before]

\* One image, and an embed job of the old one beside a seed job of the new.
const_Deployments ==
  {Deployed({seed, embed}, {Nothing, OldTheme, Pages, OldTexts, Synced}),
   Deployed({oldEmbed, newSeed}, {Pages, OldTexts})}

TwiceOverOldTexts == {Deployed({seed, embed}, {OldTexts})}
RevisedOverSynced == {Deployed({revisedSeed}, {Synced})}
=============================================================================
