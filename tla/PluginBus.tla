------------------------------- MODULE PluginBus -------------------------------
(***************************************************************************)
(* The event bus together with the plugin manager's lock                   *)
(* (internal/plugin/manager.go).                                           *)
(*                                                                         *)
(* The manager is on both sides of the bus.  It is a "*" subscriber whose  *)
(* OnEvent takes pm.mu to read the plugin table, on the dispatcher's       *)
(* goroutine; and its load, unload, reload, enable and disable operations  *)
(* hold pm.mu from start to end and emit plugin.lifecycle before they      *)
(* release it.  Here the bus is the one of EventBus, one of the emitters   *)
(* is the goroutine that runs a plugin operation, and one of the           *)
(* subscribers is the manager.                                             *)
(***************************************************************************)
EXTENDS EventBus

CONSTANTS
    Operator,      \* the emitter that runs plugin operations
    Manager        \* the subscriber that is the plugin manager

ASSUME RolesAssumption == Operator \in Emitters /\ Manager \in Subscribers

VARIABLE operation \* where the plugin operation stands; it holds pm.mu unless "none"

busAndPlugin == <<vars, operation>>

(* NewManager subscribes to every event before anything can be emitted. *)
PluginInit ==
    /\ Init
    /\ operation = "none"

SubscribeManager ==
    /\ Subscribe(Manager, "*")
    /\ UNCHANGED operation

(* LoadPlugin, UnloadPlugin, ReloadPlugin, SetPluginEnabled: pm.mu.Lock(). *)
TakeLock ==
    /\ operation = "none"
    /\ operation' = "locked"
    /\ UNCHANGED vars

(* An operation that fails, or finds nothing to do, returns without emitting. *)
FinishSilently ==
    /\ operation = "locked"
    /\ operation' = "none"
    /\ UNCHANGED vars

(* emitLifecycle: Emit with the lock held; a closed bus drops the event. *)
EmitLifecycle ==
    /\ operation = "locked"
    /\ IF closed THEN UNCHANGED vars ELSE EmitCheck(Operator)
    /\ operation' = "emitting"

(* ReloadPlugin emits for the unload and goes on to the load, which emits    *)
(* again: the lock is held over both.                                        *)
EmitSecondLifecycle ==
    /\ operation = "emitting"
    /\ emitter[Operator] = "idle"
    /\ IF closed THEN UNCHANGED vars ELSE EmitCheck(Operator)
    /\ operation' = "reloading"

(* mutant: an operation keeps the lock until its event was delivered *)
ReleaseLockLate ==
    /\ operation \in {"emitting", "reloading"}
    /\ emitter[Operator] = "idle"
    /\ seen[Manager] = accepted
    /\ operation' = "none"
    /\ UNCHANGED vars

ReleaseLock ==
    /\ operation \in {"emitting", "reloading"}
    /\ emitter[Operator] = "idle"
    /\ operation' = "none"
    /\ UNCHANGED vars

(* Manager.OnEvent: RLock waits until no operation holds the lock. *)
OnEvent ==
    /\ operation = "none"
    /\ Call(Manager)
    /\ UNCHANGED operation

(* Every other step of the bus is as in EventBus. *)
BusDispatch ==
    /\ \/ PollReceive \/ PollEmpty
       \/ SelectReceive \/ SelectReady \/ SelectDone
       \/ PopNothing \/ PopLatest \/ Rearm
       \/ DeliverSnapshot \/ DeliverDone
       \/ \E s \in Subscribers \ {Manager} : Call(s)
    /\ UNCHANGED operation

BusCallers ==
    /\ \/ \E e \in Emitters : EmitStep(e)
       \/ \E e \in Emitters \ {Operator} : EmitCheck(e)
       \/ \E u \in Updaters : EmitLatestSignal(u) \/ \E k \in Keys : EmitLatestStore(u, k)
       \/ Close
    /\ UNCHANGED operation

PluginNext ==
    \/ SubscribeManager
    \/ TakeLock \/ FinishSilently \/ EmitLifecycle \/ EmitSecondLifecycle \/ ReleaseLock
    \/ OnEvent
    \/ BusDispatch
    \/ BusCallers

PluginSafetySpec == PluginInit /\ [][PluginNext]_busAndPlugin

(* The goroutines of the bus and of the plugin operation run when they can; *)
(* an operation ends one way or the other, initialize having a timeout.     *)
(* OnEvent gets strong fairness: a sync.RWMutex lets the readers that wait  *)
(* in before the next writer, so operations in a row do not starve it.      *)
PluginFairSpec ==
    /\ PluginSafetySpec
    /\ \A e \in Emitters : WF_busAndPlugin(EmitStep(e) /\ UNCHANGED operation)
    /\ \A u \in Updaters : WF_busAndPlugin(EmitLatestSignal(u) /\ UNCHANGED operation)
    /\ WF_busAndPlugin(FinishSilently \/ EmitLifecycle \/ ReleaseLock)
    /\ WF_busAndPlugin(BusDispatch)
    /\ SF_busAndPlugin(OnEvent)

------------------------------------------------------------------------------
(* emitLifecycle is documented as "safe to call while holding pm.mu because  *)
(* eventBus.Emit is non-blocking": an operation that emits with the lock     *)
(* held never waits for a dispatcher that is itself waiting for the lock.    *)
EmitUnderLockIsSafe ==
    ~ /\ operation # "none"
      /\ emitter[Operator] = "send" /\ Len(queue) = QueueSize
      /\ dispatcher = "call" /\ targets # <<>> /\ Head(targets) = Manager

(* Whatever the bus and the lock do to each other before shutdown, closing   *)
(* the bus ends it: every blocked emitter returns, the operation gives the   *)
(* lock back and the dispatcher leaves, so ServiceShutdown's later steps     *)
(* find none of them stuck.                                                  *)
CloseEndsStandoff ==
    closed ~> /\ \A e \in Emitters : emitter[e] = "idle"
              /\ operation \in {"none", "locked"}
              /\ dispatcher = "exit"
==============================================================================
