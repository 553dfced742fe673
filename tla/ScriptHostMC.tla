---------------------------- MODULE ScriptHostMC ----------------------------
(* One script with a few versions and timers for TLC. *)
EXTENDS ScriptHost
==============================================================================
