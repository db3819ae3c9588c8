---------------------------- MODULE AtomicUpgrade ----------------------------
(***************************************************************************)
(* What the datastore promises to the rest of the server: a start either   *)
(* takes the data to the schema of the running code in one step or leaves  *)
(* it alone; only a start whose data is at the code's schema serves it as  *)
(* current; and a start always ends, one way or the other.                 *)
(* DatastoreMigration is the code that keeps the promise.                  *)
(***************************************************************************)
EXTENDS Naturals

CONSTANTS Schema   \* the versions of the data, and of the code

VARIABLES schema,  \* the version the tables are at
          code,    \* the version the running code was written for
          phase

vars == <<schema, code, phase>>

Phase == {"down", "starting", "current", "refused"}

Init ==
    /\ schema \in Schema
    /\ code \in Schema
    /\ phase = "down"

Start ==
    /\ phase = "down" /\ phase' = "starting"
    /\ code' \in Schema
    /\ UNCHANGED schema

Upgrade ==
    /\ phase = "starting" /\ schema < code
    /\ schema' = code
    /\ UNCHANGED <<code, phase>>

Serve ==
    /\ phase = "starting" /\ schema = code
    /\ phase' = "current"
    /\ UNCHANGED <<schema, code>>

Refuse ==
    /\ phase = "starting" /\ phase' = "refused"
    /\ UNCHANGED <<schema, code>>

Stop ==
    /\ phase # "down" /\ phase' = "down"
    /\ UNCHANGED <<schema, code>>

Next == Start \/ Upgrade \/ Serve \/ Refuse \/ Stop

Safety == Init /\ [][Next]_vars

Liveness == WF_vars(Serve \/ Refuse)

Spec == Safety /\ Liveness
=============================================================================
