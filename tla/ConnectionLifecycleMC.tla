------------------------ MODULE ConnectionLifecycleMC ------------------------
(* Small instances of ConnectionLifecycle for TLC. *)
EXTENDS ConnectionLifecycle, TLC

(* Goroutines and client objects have no identity of their own.  A liveness  *)
(* run must not use this.                                                    *)
Interchangeable == Permutations(Goroutines) \union Permutations(Clients)
==============================================================================
