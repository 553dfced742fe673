----------------------------- MODULE PluginBusMC -----------------------------
(* Small instances of PluginBus for TLC. *)
EXTENDS PluginBus
==============================================================================
