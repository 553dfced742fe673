---------------------------- MODULE PluginHostMC ----------------------------
(* Small instances of PluginHost for TLC. *)
EXTENDS PluginHost, TLC

(* Processes and goroutines have no identity of their own. *)
Interchangeable == Permutations(Instances) \union Permutations(Callers)
=============================================================================
