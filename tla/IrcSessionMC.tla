----------------------------- MODULE IrcSessionMC -----------------------------
(* A small network for TLC: channels that ask for no key may change places, and *)
(* so may the other users.                                                      *)
EXTENDS IrcSession, TLC

Interchangeable == Permutations(Channels \ Keyed) \union Permutations(Others)
================================================================================
