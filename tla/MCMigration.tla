---------------------------- MODULE MCMigration ----------------------------
(***************************************************************************)
(* Instances of Migration for TLC: fetch and digest, two tables, an old    *)
(* row and a new one.                                                      *)
(***************************************************************************)
EXTENDS Migration

CONSTANTS fetch, digest, events, others, old, new, ref
=============================================================================
