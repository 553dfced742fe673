---------------------------- MODULE MigrationsMC ----------------------------
(* The databases of every earlier version, for TLC. *)
EXTENDS Migrations
==============================================================================
