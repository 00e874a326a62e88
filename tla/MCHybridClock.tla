--------------------------- MODULE MCHybridClock ---------------------------
(***************************************************************************)
(* Two servers; the first has two threads racing for its word.  Of the     *)
(* readings of the wall clock one fits the packed word and one does not.   *)
(* The counter cannot wrap.                                                *)
(***************************************************************************)
EXTENDS HybridClock

MCNodeOf == [t \in Threads |-> IF t = 3 THEN 2 ELSE 1]

ASSUME CounterSuffices
=============================================================================
