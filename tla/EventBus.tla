------------------------------- MODULE EventBus -------------------------------
(***************************************************************************)
(* The in-process event bus (internal/events/bus.go).                      *)
(*                                                                         *)
(* Two lanes feed one dispatcher goroutine: a bounded FIFO channel for     *)
(* ordinary events (Emit) and a coalescing map for snapshots (EmitLatest), *)
(* whose only wake-up signal is a channel of capacity one.  Every step     *)
(* below is what one goroutine does between two points where another can   *)
(* run: a channel operation, or a critical section of the bus mutex.       *)
(*                                                                         *)
(* Events are abstracted to what order and loss can tell apart: an         *)
(* ordinary event is the ticket it got when the channel accepted it, a     *)
(* snapshot is the version of its key.  Subscriber types are reduced to    *)
(* the two lanes and the wildcard.                                         *)
(***************************************************************************)
EXTENDS Naturals, Sequences, FiniteSets

CONSTANTS
    Emitters,      \* goroutines that call Emit
    Updaters,      \* goroutines that call EmitLatest
    Keys,          \* coalescing keys
    Subscribers,
    QueueSize,     \* eventQueueSize
    MaxTickets,    \* bound: Emit calls that reach the send in a behaviour
    MaxVersion     \* bound: snapshots published per key

ASSUME QueueSizeAssumption == QueueSize \in Nat \ {0}
ASSUME BoundsAssumption == MaxTickets \in Nat /\ MaxVersion \in Nat

VARIABLES
    queue,         \* the ordered lane: tickets waiting in the channel
    latest,        \* the newest pending version of each key, 0 for none
    latestOrder,   \* keys with a pending version, oldest key first
    latestReady,   \* whether the wake-up token is in its channel
    closed,        \* the closed flag; the done channel closes with it
    subscribers,   \* subscriber lists by event type
    emitter,       \* where each Emit call stands
    updater,       \* where each EmitLatest call stands
    dispatcher,    \* where dispatchLoop stands
    current,       \* the event dispatchLoop is delivering
    targets,       \* subscribers deliver has still to call
    \* history
    accepted,      \* how many events the ordered lane accepted
    version,       \* how many snapshots were published per key
    seen,          \* the last ticket each subscriber was called with, 0 on subscribing
    seenVersion,   \* the last version of each key it was called with
    overtakes      \* snapshots taken while the same ordinary event waited

lanes   == <<queue, latest, latestOrder, latestReady, closed>>
loop    == <<dispatcher, current, targets>>
history == <<accepted, version, seen, seenVersion, overtakes>>
vars    == <<lanes, subscribers, emitter, updater, loop, history>>

Lanes == {"ordinary", "snapshot"}
Types == Lanes \union {"*"}

Ordinary(t)    == [lane |-> "ordinary", ticket |-> t]
Snapshot(k, v) == [lane |-> "snapshot", key |-> k, version |-> v]
NoEvent        == [lane |-> "none"]

Elements(s) == {s[i] : i \in DOMAIN s}
Pending     == Elements(latestOrder)

Init ==
    /\ queue = <<>>
    /\ latest = [k \in Keys |-> 0]
    /\ latestOrder = <<>>
    /\ latestReady = FALSE
    /\ closed = FALSE
    /\ subscribers = [t \in Types |-> <<>>]
    /\ emitter = [e \in Emitters |-> "idle"]
    /\ updater = [u \in Updaters |-> "idle"]
    /\ dispatcher = "poll"
    /\ current = NoEvent
    /\ targets = <<>>
    /\ accepted = 0
    /\ version = [k \in Keys |-> 0]
    /\ seen = [s \in Subscribers |-> 0]
    /\ seenVersion = [s \in Subscribers |-> [k \in Keys |-> 0]]
    /\ overtakes = 0

------------------------------------------------------------------------------
(* Subscription.  The program registers a subscriber either for single types *)
(* or for "*", never both and never twice (app.go, plugin/manager.go,        *)
(* extension/router.go); the guard states that use of the bus.               *)

Subscribe(s, t) ==
    /\ s \notin Elements(subscribers[t])
    /\ IF t = "*" THEN \A l \in Lanes : s \notin Elements(subscribers[l])
                  ELSE s \notin Elements(subscribers["*"])
    /\ subscribers' = [subscribers EXCEPT ![t] = Append(@, s)]
    /\ seen' = IF t = "snapshot" THEN seen ELSE [seen EXCEPT ![s] = 0]
    /\ UNCHANGED <<lanes, emitter, updater, loop,
                   accepted, version, seenVersion, overtakes>>

Unsubscribe(s, t) ==
    /\ \E i \in DOMAIN subscribers[t] :
          /\ subscribers[t][i] = s
          /\ subscribers' = [subscribers EXCEPT ![t] =
                               SubSeq(@, 1, i - 1) \o SubSeq(@, i + 1, Len(@))]
    /\ UNCHANGED <<lanes, emitter, updater, loop, history>>

------------------------------------------------------------------------------
(* Emit: read closed under the read lock, release it, then select between    *)
(* the channel send and done.                                                *)

EmitCheck(e) ==
    /\ emitter[e] = "idle"
    /\ ~closed
    /\ accepted + Cardinality({f \in Emitters : emitter[f] = "send"}) < MaxTickets
    /\ emitter' = [emitter EXCEPT ![e] = "send"]
    /\ UNCHANGED <<lanes, subscribers, updater, loop, history>>

(* mutant: the channel has no capacity *)
EmitSendUnbounded(e) ==
    /\ emitter[e] = "send"
    /\ accepted' = accepted + 1
    /\ queue' = Append(queue, accepted')
    /\ emitter' = [emitter EXCEPT ![e] = "idle"]
    /\ UNCHANGED <<latest, latestOrder, latestReady, closed, subscribers, updater, loop,
                   version, seen, seenVersion, overtakes>>

EmitSend(e) ==
    /\ emitter[e] = "send"
    /\ Len(queue) < QueueSize
    /\ accepted' = accepted + 1
    /\ queue' = Append(queue, accepted')
    /\ emitter' = [emitter EXCEPT ![e] = "idle"]
    /\ UNCHANGED <<latest, latestOrder, latestReady, closed, subscribers, updater, loop,
                   version, seen, seenVersion, overtakes>>

EmitReleased(e) ==
    /\ emitter[e] = "send"
    /\ closed
    /\ emitter' = [emitter EXCEPT ![e] = "idle"]
    /\ UNCHANGED <<lanes, subscribers, updater, loop, history>>

------------------------------------------------------------------------------
(* EmitLatest: replace the key's pending snapshot under the lock, then put   *)
(* the wake-up token in its channel unless one is already there.             *)

(* mutant: the order list is appended to without looking the key up *)
EmitLatestStoreTwice(u, k) ==
    /\ updater[u] = "idle"
    /\ ~closed
    /\ version[k] < MaxVersion
    /\ version' = [version EXCEPT ![k] = @ + 1]
    /\ latest' = [latest EXCEPT ![k] = version'[k]]
    /\ latestOrder' = Append(latestOrder, k)
    /\ updater' = [updater EXCEPT ![u] = "signal"]
    /\ UNCHANGED <<queue, latestReady, closed, subscribers, emitter, loop,
                   accepted, seen, seenVersion, overtakes>>

(* mutant: a key that is already pending keeps its first snapshot *)
EmitLatestStoreFirst(u, k) ==
    /\ updater[u] = "idle"
    /\ ~closed
    /\ version[k] < MaxVersion
    /\ version' = [version EXCEPT ![k] = @ + 1]
    /\ IF k \in Pending
         THEN UNCHANGED <<latest, latestOrder>>
         ELSE /\ latest' = [latest EXCEPT ![k] = version'[k]]
              /\ latestOrder' = Append(latestOrder, k)
    /\ updater' = [updater EXCEPT ![u] = "signal"]
    /\ UNCHANGED <<queue, latestReady, closed, subscribers, emitter, loop,
                   accepted, seen, seenVersion, overtakes>>

EmitLatestStore(u, k) ==
    /\ updater[u] = "idle"
    /\ ~closed
    /\ version[k] < MaxVersion
    /\ version' = [version EXCEPT ![k] = @ + 1]
    /\ latest' = [latest EXCEPT ![k] = version'[k]]
    /\ latestOrder' = IF k \in Pending THEN latestOrder ELSE Append(latestOrder, k)
    /\ updater' = [updater EXCEPT ![u] = "signal"]
    /\ UNCHANGED <<queue, latestReady, closed, subscribers, emitter, loop,
                   accepted, seen, seenVersion, overtakes>>

(* mutant: the wake-up channel is unbuffered, so a token nobody waits for is lost *)
EmitLatestSignalUnbuffered(u) ==
    /\ updater[u] = "signal"
    /\ latestReady' = (latestReady \/ dispatcher = "select")
    /\ updater' = [updater EXCEPT ![u] = "idle"]
    /\ UNCHANGED <<queue, latest, latestOrder, closed, subscribers, emitter, loop, history>>

EmitLatestSignal(u) ==
    /\ updater[u] = "signal"
    /\ latestReady' = TRUE
    /\ updater' = [updater EXCEPT ![u] = "idle"]
    /\ UNCHANGED <<queue, latest, latestOrder, closed, subscribers, emitter, loop, history>>

------------------------------------------------------------------------------
Close ==
    /\ ~closed
    /\ closed' = TRUE
    /\ UNCHANGED <<queue, latest, latestOrder, latestReady, subscribers, emitter, updater, loop,
                   accepted, version, seen, seenVersion, overtakes>>

------------------------------------------------------------------------------
(* dispatchLoop *)

(* mutant: the newest waiting event is taken first *)
TakeNewest ==
    /\ queue # <<>>
    /\ current' = Ordinary(queue[Len(queue)])
    /\ queue' = SubSeq(queue, 1, Len(queue) - 1)
    /\ dispatcher' = "snap"
    /\ overtakes' = 0
    /\ UNCHANGED <<latest, latestOrder, latestReady, closed, subscribers, emitter, updater,
                   targets, accepted, version, seen, seenVersion>>

(* mutant: a backlog is collapsed to its last event *)
TakeCoalesced ==
    /\ queue # <<>>
    /\ current' = Ordinary(queue[Len(queue)])
    /\ queue' = <<>>
    /\ dispatcher' = "snap"
    /\ overtakes' = 0
    /\ UNCHANGED <<latest, latestOrder, latestReady, closed, subscribers, emitter, updater,
                   targets, accepted, version, seen, seenVersion>>

TakeOrdinary ==
    /\ queue # <<>>
    /\ current' = Ordinary(Head(queue))
    /\ queue' = Tail(queue)
    /\ dispatcher' = "snap"
    /\ overtakes' = 0
    /\ UNCHANGED <<latest, latestOrder, latestReady, closed, subscribers, emitter, updater,
                   targets, accepted, version, seen, seenVersion>>

(* The first select has a default branch: the ordered lane is looked at     *)
(* alone before the dispatcher waits on both lanes.                         *)
PollReceive ==
    /\ dispatcher = "poll"
    /\ TakeOrdinary

PollEmpty ==
    /\ dispatcher = "poll"
    /\ queue = <<>>
    /\ dispatcher' = "select"
    /\ UNCHANGED <<lanes, subscribers, emitter, updater, current, targets, history>>

(* The second select chooses at random among the ready channels. *)
SelectReceive ==
    /\ dispatcher = "select"
    /\ TakeOrdinary

SelectReady ==
    /\ dispatcher = "select"
    /\ latestReady
    /\ latestReady' = FALSE
    /\ dispatcher' = "pop"
    /\ UNCHANGED <<queue, latest, latestOrder, closed, subscribers, emitter, updater,
                   current, targets, history>>

SelectDone ==
    /\ dispatcher = "select"
    /\ closed
    /\ dispatcher' = "exit"
    /\ UNCHANGED <<lanes, subscribers, emitter, updater, current, targets, history>>

(* popLatest: a token may outlive the snapshots it was sent for. *)
PopNothing ==
    /\ dispatcher = "pop"
    /\ latestOrder = <<>>
    /\ dispatcher' = "poll"
    /\ UNCHANGED <<lanes, subscribers, emitter, updater, current, targets, history>>

(* mutant: the lane is not re-armed when more keys are pending *)
PopLatestNoRearm ==
    /\ dispatcher = "pop"
    /\ latestOrder # <<>>
    /\ LET key == Head(latestOrder)
       IN  /\ current' = Snapshot(key, latest[key])
           /\ latest' = [latest EXCEPT ![key] = 0]
    /\ latestOrder' = Tail(latestOrder)
    /\ dispatcher' = "snap"
    /\ overtakes' = IF queue # <<>> THEN overtakes + 1 ELSE 0
    /\ UNCHANGED <<queue, latestReady, closed, subscribers, emitter, updater, targets,
                   accepted, version, seen, seenVersion>>

PopLatest ==
    /\ dispatcher = "pop"
    /\ latestOrder # <<>>
    /\ LET key == Head(latestOrder)
       IN  /\ current' = Snapshot(key, latest[key])
           /\ latest' = [latest EXCEPT ![key] = 0]
    /\ latestOrder' = Tail(latestOrder)
    /\ dispatcher' = IF latestOrder' # <<>> THEN "rearm" ELSE "snap"
    /\ overtakes' = IF queue # <<>> THEN overtakes + 1 ELSE 0
    /\ UNCHANGED <<queue, latestReady, closed, subscribers, emitter, updater, targets,
                   accepted, version, seen, seenVersion>>

Rearm ==
    /\ dispatcher = "rearm"
    /\ latestReady' = TRUE
    /\ dispatcher' = "snap"
    /\ UNCHANGED <<queue, latest, latestOrder, closed, subscribers, emitter, updater,
                   current, targets, history>>

(* deliver: copy both subscriber lists under the read lock, then call them  *)
(* one after the other.                                                      *)
DeliverSnapshot ==
    /\ dispatcher = "snap"
    /\ targets' = subscribers[current.lane] \o subscribers["*"]
    /\ dispatcher' = "call"
    /\ UNCHANGED <<lanes, subscribers, emitter, updater, current, history>>

Call(s) ==
    /\ dispatcher = "call"
    /\ targets # <<>>
    /\ s = Head(targets)
    /\ targets' = Tail(targets)
    /\ IF current.lane = "ordinary"
         THEN /\ seen' = [seen EXCEPT ![s] = current.ticket]
              /\ UNCHANGED seenVersion
         ELSE /\ seenVersion' = [seenVersion EXCEPT ![s][current.key] = current.version]
              /\ UNCHANGED seen
    /\ UNCHANGED <<lanes, subscribers, emitter, updater, dispatcher, current,
                   accepted, version, overtakes>>

(* mutant: the loop has one select only, and no priority for the ordered lane *)
DeliverDoneNoPoll ==
    /\ dispatcher = "call"
    /\ targets = <<>>
    /\ dispatcher' = "select"
    /\ current' = NoEvent
    /\ UNCHANGED <<lanes, subscribers, emitter, updater, targets, history>>

DeliverDone ==
    /\ dispatcher = "call"
    /\ targets = <<>>
    /\ dispatcher' = "poll"
    /\ current' = NoEvent
    /\ UNCHANGED <<lanes, subscribers, emitter, updater, targets, history>>

Dispatch ==
    \/ PollReceive \/ PollEmpty
    \/ SelectReceive \/ SelectReady \/ SelectDone
    \/ PopNothing \/ PopLatest \/ Rearm
    \/ DeliverSnapshot \/ DeliverDone
    \/ \E s \in Subscribers : Call(s)

EmitStep(e)   == EmitSend(e) \/ EmitReleased(e)

Next ==
    \/ \E s \in Subscribers, t \in Types : Subscribe(s, t) \/ Unsubscribe(s, t)
    \/ \E e \in Emitters : EmitCheck(e) \/ EmitStep(e)
    \/ \E u \in Updaters : EmitLatestSignal(u) \/ \E k \in Keys : EmitLatestStore(u, k)
    \/ Close
    \/ Dispatch

SafetySpec == Init /\ [][Next]_vars

(* Goroutines that can run are run, and OnEvent returns.  Nobody has to call *)
(* Emit, EmitLatest, Subscribe or Close.                                     *)
CallerFairness ==
    /\ \A e \in Emitters : WF_vars(EmitStep(e))
    /\ \A u \in Updaters : WF_vars(EmitLatestSignal(u))

FairSpec == SafetySpec /\ CallerFairness /\ WF_vars(Dispatch)

------------------------------------------------------------------------------
(* Properties *)

Events ==
    {NoEvent} \union [lane : {"ordinary"}, ticket : Nat]
              \union [lane : {"snapshot"}, key : Keys, version : Nat]

(* The type invariant: every channel holds what the code puts into it, the   *)
(* queue never grows past its capacity (bus.go:71), and every program counter *)
(* is one of the places its goroutine can stand at.                          *)
TypeOK ==
    /\ queue \in Seq(Nat) /\ Len(queue) <= QueueSize
    /\ latest \in [Keys -> Nat]
    /\ latestOrder \in Seq(Keys)
    /\ latestReady \in BOOLEAN
    /\ closed \in BOOLEAN
    /\ subscribers \in [Types -> Seq(Subscribers)]
    /\ emitter \in [Emitters -> {"idle", "send"}]
    /\ updater \in [Updaters -> {"idle", "signal"}]
    /\ dispatcher \in {"poll", "select", "pop", "rearm", "snap", "call", "exit"}
    /\ current \in Events
    /\ targets \in Seq(Subscribers)
    /\ accepted \in Nat
    /\ version \in [Keys -> Nat]
    /\ seen \in [Subscribers -> Nat]
    /\ seenVersion \in [Subscribers -> [Keys -> Nat]]
    /\ overtakes \in Nat

(* The wake-up channel holds one token for any number of pending keys, and   *)
(* the sends into it never block, so a token can be dropped or be stale.     *)
(* Still, a pending snapshot always has somebody left to wake the dispatcher *)
(* for it: the token, an EmitLatest call about to send it, or the dispatcher *)
(* itself between taking a token and re-arming it (popLatest).               *)
NoLostWakeup ==
    latestOrder # <<>> =>
        \/ latestReady
        \/ dispatcher \in {"pop", "rearm"}
        \/ \E u \in Updaters : updater[u] = "signal"

(* The map and the order list of the coalescing lane describe the same keys, *)
(* each once: a key missing from the list would be kept and never delivered, *)
(* a key listed twice would deliver a zero event.                            *)
LaneConsistent ==
    /\ \A k \in Keys : latest[k] # 0 <=> k \in Pending
    /\ \A i, j \in DOMAIN latestOrder : latestOrder[i] = latestOrder[j] => i = j

(* Coalescing loses no final value: what is pending for a key is the newest  *)
(* version published for it, whatever the dispatcher did in between.         *)
PendingIsNewest ==
    \A k \in Pending : latest[k] = version[k]

(* No ordinary event is lost, doubled or reordered between Emit and the      *)
(* subscribers: the channel holds exactly the tickets that were accepted and *)
(* not taken, in order, and no subscriber is ahead of the dispatcher.        *)
QueueIsBacklog ==
    /\ \A i \in DOMAIN queue : queue[i] = accepted - Len(queue) + i
    /\ \A s \in Subscribers : seen[s] <= accepted - Len(queue)
    /\ current.lane = "ordinary" => current.ticket = accepted - Len(queue)

(* A control event waits behind at most one snapshot.  The comment in        *)
(* dispatchLoop says ordinary events always win; an event that arrives       *)
(* between the first select and the second can lose one random choice there, *)
(* and never a second one.                                                   *)
AtMostOneOvertake == overtakes <= 1

(* From its first ordinary event after subscribing on, a subscriber gets the *)
(* next one each time: none lost, none twice, none out of order, although    *)
(* lists change while deliver works on its copy.  It never gets an older     *)
(* snapshot of a key after a newer one.                                      *)
InOrder ==
    [][\A s \in Subscribers :
          /\ seen'[s] \in {seen[s], seen[s] + 1} \/ seen[s] = 0 \/ seen'[s] = 0
          /\ \A k \in Keys : seenVersion'[s][k] >= seenVersion[s][k]]_vars

Delivery == INSTANCE EventDelivery WITH
    Capacity <- QueueSize,
    taken    <- accepted - Len(queue),
    dirty    <- Pending,
    open     <- ~closed

(* The bus implements EventDelivery: order, bounded backlog, and every       *)
(* accepted event and every changed key is eventually delivered while the    *)
(* bus stays open.                                                           *)
ImplementsDelivery == Delivery!Spec
==============================================================================
