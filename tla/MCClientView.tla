---------------------------- MODULE MCClientView -----------------------------
(* Values for ClientView: two conversations, one with a user whose id is     *)
(* above that of the window's user and one with a user whose id is below.    *)
EXTENDS ClientView
=============================================================================
