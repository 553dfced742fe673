------------------------------ MODULE ChatLogMC ------------------------------
(* Two nicks of ours, two channels that are alike and a peer for TLC. *)
EXTENDS ChatLog

Alike == Permutations(Channels)
==============================================================================
