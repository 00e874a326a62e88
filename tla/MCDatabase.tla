----------------------------- MODULE MCDatabase -----------------------------
(***************************************************************************)
(* The database with interchangeable clients and interchangeable workers.  *)
(***************************************************************************)
EXTENDS Database

\* The second write may be older than the one before it, or as old.
MCStamps == <<{2}, {1, 2}, {2}>>

OneStamp == [o \in 1 .. MaxWrites |-> {1}]

Symmetry == Permutations(Clients) \cup Permutations(Workers)
=============================================================================
