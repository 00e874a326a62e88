------------------------- MODULE MCHybridClockWide -------------------------
(***************************************************************************)
(* The same clock when no reading of the wall clock fits the packed word,  *)
(* as microseconds since 1970 have not fitted 48 bits since December 1978. *)
(* The counter cannot wrap.                                                *)
(***************************************************************************)
EXTENDS HybridClock

MCNodeOf == [t \in Threads |-> t]

=============================================================================
