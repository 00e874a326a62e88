----------------------------- MODULE MCService -----------------------------
(***************************************************************************)
(* A leader that starts with two users, their conversation and a message.  *)
(***************************************************************************)
EXTENDS Service

MCSeed ==
    [users |-> [u \in 1 .. 2 |-> [name |-> u, is_deleted |-> FALSE]],
     convs |-> 1 :> [is_deleted |-> FALSE],
     members |-> {1} \X (1 .. 2),
     msgs |-> 1 :> [conv |-> 1, from |-> 1, is_read |-> FALSE, is_deleted |-> FALSE]]

\* Names without spaces around them.
MCTrim == [n \in Names |-> n]

Symmetry == Permutations(Handlers) \cup Permutations(Streams)
=============================================================================
