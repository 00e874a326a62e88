---------------------------- MODULE MCWalRecovery ----------------------------
(* Values for WalRecovery: two logs, tables of two records, and three opens *)
(* of the same directory.                                                   *)
EXTENDS WalRecovery
=============================================================================
