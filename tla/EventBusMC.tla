----------------------------- MODULE EventBusMC -----------------------------
(* Small instances of EventBus for TLC. *)
EXTENDS EventBus, TLC

(* Goroutines of one kind are interchangeable; used by the safety runs only. *)
Interchangeable ==
    Permutations(Emitters) \union Permutations(Updaters) \union Permutations(Keys)
    \union Permutations(Subscribers)
=============================================================================
