------------------------------ MODULE MCTempus -------------------------------
(* Values for Tempus: the three processes of main.cpp, with one iteration     *)
(* each: the theorems of TempusProofs have any number.                       *)
EXTENDS Tempus, TLC

Rates == 0 :> 1 @@ 1 :> 1 @@ 2 :> 1
=============================================================================
