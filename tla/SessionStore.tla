---------------------------- MODULE SessionStore ----------------------------
(***************************************************************************)
(* What a mousedb database promises about restarts, as its source keeps    *)
(* it and no more.  A session that is closed in order leaves exactly its   *)
(* own writes for the next one; a session that dies leaves some of them,   *)
(* perhaps with a garbled record; a session that dies while it is being    *)
(* opened leaves some of what it was reading; a fresh session starts with  *)
(* nothing.  A session never leaves what an earlier one had written:       *)
(* WalRecovery, which implements this, shows that it does not.             *)
(***************************************************************************)
CONSTANTS
    Writes,   \* names of writes
    Garbled   \* what reading half a record gives

VARIABLES
    mode,     \* "down", "starting", "wiping" (a fresh start) or "up"
    session,  \* the writes acknowledged in this session
    kept,     \* what the next session would start with
    restored  \* what this session started with

vars == <<mode, session, kept, restored>>

Init == mode = "down" /\ session = {} /\ kept = {} /\ restored = {}

Start ==
    /\ mode = "down"
    /\ mode' \in {"starting", "wiping"}
    /\ UNCHANGED <<session, kept, restored>>

\* Only a fresh start throws away what was kept.
Wipe ==
    /\ mode = "wiping"
    /\ kept' \in SUBSET kept
    /\ UNCHANGED <<mode, session, restored>>

Serve ==
    /\ mode \in {"starting", "wiping"}
    /\ mode' = "up"
    /\ restored' = IF mode = "starting" THEN kept ELSE {}
    /\ kept' = {}
    /\ UNCHANGED session

Put(w) ==
    /\ mode = "up"
    /\ w \notin session \cup restored
    /\ session' = session \cup {w}
    /\ UNCHANGED <<mode, kept, restored>>

Close ==
    /\ mode = "up"
    /\ mode' = "down"
    /\ kept' = session
    /\ session' = {} /\ restored' = {}

Crash ==
    /\ mode # "down"
    /\ mode' = "down"
    /\ kept' \in SUBSET (IF mode = "up" THEN session \cup {Garbled} ELSE kept)
    /\ session' = {} /\ restored' = {}

Next == Start \/ Wipe \/ Serve \/ (\E w \in Writes : Put(w)) \/ Close \/ Crash

Spec == Init /\ [][Next]_vars
=============================================================================
