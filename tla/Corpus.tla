------------------------------- MODULE Corpus -------------------------------
(***************************************************************************)
(* What the ingest and the embedding backfill promise to those who read    *)
(* the four tables: the content is that of one seed, and it goes from one  *)
(* seed to the next in one step.  Row ids, transactions and locks are not  *)
(* visible here.                                                           *)
(***************************************************************************)
CONSTANT Seeds          \* the contents that an image can carry

VARIABLES documents,    \* pairs of a text and its source
          embedded,     \* the documents a search can find
          facts         \* the names in the other three tables

vars == <<documents, embedded, facts>>

\* The tables may hold anything before the first ingest.
Init == embedded \subseteq documents

\* The tables become the seed; a document that stays keeps its embedding.
Sync(s) == /\ documents' = s.documents
           /\ facts' = s.facts
           /\ embedded' = embedded \cap s.documents

\* Documents become searchable, and nothing else changes.
Fill(found) == /\ embedded' = embedded \cup found
               /\ UNCHANGED <<documents, facts>>

Next == \/ \E s \in Seeds : Sync(s)
        \/ \E found \in SUBSET (documents \ embedded) : Fill(found)

Spec == Init /\ [][Next]_vars
=============================================================================
