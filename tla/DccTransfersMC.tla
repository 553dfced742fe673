--------------------------- MODULE DccTransfersMC ---------------------------
(* Small instances of DccTransfers for TLC. *)
EXTENDS DccTransfers, TLC

(* Goroutines and transfers have no identity of their own. *)
Interchangeable == Permutations(Threads) \union Permutations(Outgoing)

(* Where nothing restarts, nothing reads the rows nor the copies on their way *)
(* to them, so states that differ only in those are one state.                *)
WithoutRows ==
    <<manager, partial, dest, [t \in Threads |-> [thread[t] EXCEPT !.copy = Unknown]], bounds>>
=============================================================================
