---------------------------- MODULE EventDelivery ----------------------------
(***************************************************************************)
(* What the event bus promises the rest of the program, with no goroutine, *)
(* channel or lock in sight: ordinary events are taken in the order they   *)
(* were accepted and never lost while the bus is open, at most Capacity of *)
(* them wait, and every key whose snapshot changed is looked at again.     *)
(* EventBus.tla is shown to implement this module.                         *)
(***************************************************************************)
EXTENDS Naturals

CONSTANTS Keys,      \* the coalescing keys of EmitLatest
          Capacity   \* how many accepted events may wait

VARIABLES accepted,  \* how many ordinary events were accepted so far
          taken,     \* how many of them the dispatcher has taken
          dirty,     \* the keys with a snapshot that was not looked at yet
          open       \* the bus was not closed

delivery == <<accepted, taken, dirty, open>>

Init ==
    /\ accepted = 0
    /\ taken = 0
    /\ dirty = {}
    /\ open = TRUE

(* An ordinary event joins the backlog; a full backlog makes the emitter wait. *)
Accept ==
    /\ accepted - taken < Capacity
    /\ accepted' = accepted + 1
    /\ UNCHANGED <<taken, dirty, open>>

(* The oldest event of the backlog is handed to the subscribers. *)
Take ==
    /\ taken < accepted
    /\ taken' = taken + 1
    /\ UNCHANGED <<accepted, dirty, open>>

(* A snapshot is published; an earlier one with the same key is replaced. *)
Update(k) ==
    /\ open
    /\ dirty' = dirty \union {k}
    /\ UNCHANGED <<accepted, taken, open>>

(* The newest snapshot of a key is handed to the subscribers. *)
Refresh(k) ==
    /\ k \in dirty
    /\ dirty' = dirty \ {k}
    /\ UNCHANGED <<accepted, taken, open>>

Close ==
    /\ open' = FALSE
    /\ UNCHANGED <<accepted, taken, dirty>>

Next ==
    \/ Accept
    \/ Take
    \/ \E k \in Keys : Update(k) \/ Refresh(k)
    \/ Close

(* A closed bus promises nothing about what is still waiting, and a snapshot *)
(* is only promised a turn while no ordinary event waits: the ordinary lane  *)
(* has priority and may starve the other one.                                *)
Fairness ==
    /\ WF_delivery(open /\ Take)
    /\ \A k \in Keys : WF_delivery(open /\ taken = accepted /\ Refresh(k))

(* What can be promised without fairness: order, bound and no lost change. *)
Safety == Init /\ [][Next]_delivery

Spec == Safety /\ Fairness
==============================================================================
