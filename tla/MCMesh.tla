------------------------------- MODULE MCMesh --------------------------------
(* Values for Mesh: whom each server is told to join.                        *)
EXTENDS Mesh

\* Every server joins the first.
JoinFirst == [s \in Servers |-> IF s = 1 THEN Nobody ELSE 1]

\* Every server joins the one before it.
JoinPrevious == [s \in Servers |-> s - 1]
=============================================================================
