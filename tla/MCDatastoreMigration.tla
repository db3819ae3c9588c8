------------------------- MODULE MCDatastoreMigration -------------------------
(* The start of the server over its datastore, on instances small enough for TLC. *)
EXTENDS DatastoreMigration
=============================================================================
