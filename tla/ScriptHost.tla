------------------------------ MODULE ScriptHost ------------------------------
(***************************************************************************)
(* The host of one script (internal/script, internal/extension,            *)
(* app_scripts.go): loading, hot reload, enabling and disabling, its timers *)
(* and the watchdog around everything it runs.  Scripts share only the      *)
(* goroutine of the event bus, which delivers to them in turn.              *)
(*                                                                          *)
(* Each version that is loaded has its interpreter and its mutex.  A caller *)
(* is the main goroutine, which starts up and then serves the frontend, or  *)
(* the watcher of the scripts directory.  A step ends at a lock, at a       *)
(* script's code, or at the registry.  Setup is the only place that makes a *)
(* timer, at most one.                                                      *)
(***************************************************************************)
EXTENDS Integers, Sequences, FiniteSets

CONSTANTS
    MaxLoads,    \* bound: versions loaded
    MaxTimers,   \* bound: timers made
    MaxEdits,    \* bound: changes of the directory
    MaxCalls,    \* bound: calls of the frontend
    MaxStrikes,  \* consecutive errors that disable a script
    Overlap      \* callers work at the same time, and a directory comes back before
                 \* its removal was handled

ASSUME BoundsAssumption ==
    /\ MaxLoads \in Nat \ {0} /\ MaxTimers \in Nat \ {0} /\ MaxEdits \in Nat
    /\ MaxCalls \in Nat /\ MaxStrikes \in Nat \ {0}
    /\ Overlap \in BOOLEAN

Versions == 1..MaxLoads
Timers   == 1..MaxTimers
Callers  == {"main", "watcher"}
Bus      == 0
Jobs     == {Bus} \union Timers     \* who waits in the watchdog

VARIABLES
    disk,       \* the directory: there or not, its content, whether that compiles
    changes,    \* events of the watcher not handled yet
    ext,        \* the registry's entry
    script,     \* m.scripts: the version that runs, 0: none
    content,    \* of each version
    mutex,      \* l.mu of each version: free, held by a job, by a job with others left
                \* in line behind it, or by a job that was left behind itself
    sched,      \* timers the scheduler knows
    timer,      \* every timer made
    job,        \* a dispatch and the watchdog's wait for it
    strikes,
    call,       \* what a caller has left to do
    persisted,  \* the stored flag: enabled
    calls

files   == <<disk, changes>>
scripts == <<script, content>>
clock   == <<sched, timer>>
vars    == <<files, ext, scripts, mutex, clock, job, strikes, call, persisted, calls>>

Unregistered == [there |-> FALSE, enabled |-> FALSE, status |-> "none", subscribed |-> FALSE]
NoTimer      == [made |-> FALSE, armed |-> FALSE, stopped |-> FALSE, repeats |-> FALSE, ver |-> 0]
NoJob        == [at |-> "idle", ver |-> 0, failed |-> FALSE]
AtRest       == [op |-> "none", todo |-> <<>>, ver |-> 0, timer |-> 0, stopping |-> {}]

(* The operations, step by step. *)
Loading  == <<"load", "setup", "install", "register">>
Stopping == <<"stop", "stopping">>
Program(op) ==
    CASE op \in {"startup", "load"} -> Loading
      [] op = "reload"  -> Stopping \o Loading
      [] op = "unload"  -> Stopping \o <<"delete", "remove">>
      [] op = "disable" -> Stopping \o <<"disable">>
      [] op = "enable"  -> <<"enable", "clear">> \o Stopping \o <<"find", "setup", "persist">>

Began(op) == [AtRest EXCEPT !.op = op, !.todo = Program(op)]

Init ==
    /\ disk \in [there : BOOLEAN, n : {0}, good : BOOLEAN]
    /\ changes = <<>>
    /\ ext = Unregistered
    /\ script = 0 /\ content = <<>>
    /\ mutex = [v \in Versions |-> "free"]
    /\ sched = {} /\ timer = [t \in Timers |-> NoTimer]
    /\ job = [j \in Jobs |-> NoJob]
    /\ strikes = 0
    /\ persisted \in BOOLEAN
    /\ call = [c \in Callers |-> IF c = "main" /\ disk.there THEN Began("startup") ELSE AtRest]
    /\ calls = 0

------------------------------------------------------------------------------
(* What is called, and when *)

Busy(c)       == call[c].todo # <<>>
Idle          == \A c \in Callers : ~Busy(c)
Does(c, step) == Busy(c) /\ Head(call[c].todo) = step
Rest(c)       == IF Len(call[c].todo) = 1 THEN AtRest ELSE [call[c] EXCEPT !.todo = Tail(@)]
Proceed(c)    == call' = [call EXCEPT ![c] = Rest(c)]
Starting      == call["main"].op = "startup" /\ Busy("main")

(* external: the user writes to the directory, removes it or brings it back; what *)
(* is changed before startup has set up the watch goes unseen                     *)
Edit ==
    /\ ~Starting /\ disk.n < MaxEdits
    /\ \E there, good \in BOOLEAN :
          /\ disk.there \/ (there /\ (Overlap \/ changes = <<>>))
          /\ disk' = [there |-> there, n |-> disk.n + 1, good |-> good]
          /\ changes' = Append(changes, IF ~there THEN "remove" ELSE IF disk.there THEN "write" ELSE "create")
    /\ UNCHANGED <<ext, scripts, mutex, clock, job, strikes, call, persisted, calls>>

Begin(c, op) ==
    /\ IF Overlap THEN ~Busy(c) ELSE Idle
    /\ call' = [call EXCEPT ![c] = Began(op)]

(* handleFSEvent looks at the directory as it is now. *)
HandleFSEvent ==
    /\ changes # <<>> /\ changes' = Tail(changes)
    /\ Begin("watcher", IF ~disk.there THEN "unload"
                        ELSE IF Head(changes) = "create" THEN "load" ELSE "reload")
    /\ UNCHANGED <<disk, ext, scripts, mutex, clock, job, strikes, persisted, calls>>

(* EnableScript, DisableScript, ReloadScript, for a script that is listed *)
FrontendCall(op) ==
    /\ ext.there
    /\ calls < MaxCalls /\ calls' = calls + 1
    /\ Begin("main", op)
    /\ UNCHANGED <<files, ext, scripts, mutex, clock, job, strikes, persisted>>

------------------------------------------------------------------------------
(* The steps of a call *)

(* mutant: the timers of the previous Setup go on *)
StopTimersOfUnloaded(c) ==
    LET mine == IF call[c].op = "enable" THEN {} ELSE sched
    IN  /\ Does(c, "stop")
        /\ sched' = sched \ mine
        /\ call' = [call EXCEPT ![c] = [Rest(c) EXCEPT !.stopping = mine]]
        /\ UNCHANGED <<files, ext, scripts, mutex, timer, job, strikes, persisted, calls>>

(* stopTimers takes the entries under its lock and stops each one outside it. *)
StopTimers(c) ==
    /\ Does(c, "stop")
    /\ sched' = {}
    /\ call' = [call EXCEPT ![c] = [Rest(c) EXCEPT !.stopping = sched]]
    /\ UNCHANGED <<files, ext, scripts, mutex, timer, job, strikes, persisted, calls>>

(* What is forgotten of an idle timer will not be looked at again. *)
Stopped(t) ==
    IF job[t].at = "idle" THEN [NoTimer EXCEPT !.made = TRUE, !.stopped = TRUE]
    ELSE [timer[t] EXCEPT !.stopped = TRUE, !.armed = FALSE]

StopEach(c) ==
    /\ Does(c, "stopping")
    /\ IF call[c].stopping = {}
         THEN Proceed(c) /\ UNCHANGED timer
         ELSE \E t \in call[c].stopping :
                 /\ timer' = [timer EXCEPT ![t] = Stopped(t)]
                 /\ call' = [call EXCEPT ![c].stopping = @ \ {t}]
    /\ UNCHANGED <<files, ext, scripts, mutex, sched, job, strikes, persisted, calls>>

Fail(c) == call' = [call EXCEPT ![c].todo = <<"fail", "registerFailed">>]

(* LoadPackage, of what is on disk now *)
LoadPackage(c) ==
    /\ Does(c, "load")
    /\ IF disk.there /\ disk.good
         THEN /\ Len(content) < MaxLoads
              /\ content' = Append(content, disk.n)
              /\ call' = [call EXCEPT ![c] = [Rest(c) EXCEPT !.ver = Len(content) + 1]]
         ELSE Fail(c) /\ UNCHANGED content
    /\ UNCHANGED <<files, ext, script, mutex, clock, job, strikes, persisted, calls>>

Unmade == {t \in Timers : ~timer[t].made}

(* RunSetup, with neither the mutex nor the watchdog: it may make a timer, and it *)
(* may panic, which Enable passes over.                                           *)
RunSetup(c) ==
    /\ Does(c, "setup")
    /\ \E makes, panics \in BOOLEAN :
          /\ makes => Unmade # {}
          /\ panics => call[c].op # "enable"
          /\ call' = [call EXCEPT ![c].todo =
                (IF makes THEN <<"arm", "add">> ELSE <<>>) \o
                (IF panics THEN <<"panic">> ELSE <<>>) \o Tail(@)]
    /\ UNCHANGED <<files, ext, scripts, mutex, clock, job, strikes, persisted, calls>>

(* scheduleEvery, scheduleAfter: armed first, known to the scheduler then *)
ArmTimer(c) ==
    /\ Does(c, "arm")
    /\ \E t \in Unmade, repeats \in BOOLEAN :
          /\ t - 1 \notin Unmade
          /\ timer' = [timer EXCEPT ![t] =
                [made |-> TRUE, armed |-> TRUE, stopped |-> FALSE, repeats |-> repeats, ver |-> call[c].ver]]
          /\ call' = [call EXCEPT ![c] = [Rest(c) EXCEPT !.timer = t]]
    /\ UNCHANGED <<files, ext, scripts, mutex, sched, job, strikes, persisted, calls>>

AddTimer(c) ==
    /\ Does(c, "add")
    /\ sched' = sched \union {call[c].timer}
    /\ Proceed(c)
    /\ UNCHANGED <<files, ext, scripts, mutex, timer, job, strikes, persisted, calls>>

SetupPanics(c) ==
    /\ Does(c, "panic")
    /\ Fail(c)
    /\ UNCHANGED <<files, ext, scripts, mutex, clock, job, strikes, persisted, calls>>

(* mutant: a version that does not load leaves the one before running *)
SetScriptOfLoaded(c) ==
    /\ \/ Does(c, "install") /\ script' = call[c].ver
       \/ Does(c, "delete") /\ script' = 0
       \/ Does(c, "fail") /\ UNCHANGED script
    /\ Proceed(c)
    /\ UNCHANGED <<files, ext, content, mutex, clock, job, strikes, persisted, calls>>

(* m.scripts under m.mu: install, delete, and what Enable finds *)
SetScript(c) ==
    /\ \/ Does(c, "install") /\ script' = call[c].ver
       \/ (Does(c, "delete") \/ Does(c, "fail")) /\ script' = 0
    /\ Proceed(c)
    /\ UNCHANGED <<files, ext, content, mutex, clock, job, strikes, persisted, calls>>

FindScript(c) ==
    /\ Does(c, "find")
    /\ call' = [call EXCEPT ![c] = [Rest(c) EXCEPT !.ver = script,
                    !.todo = IF script = 0 THEN <<"persist">> ELSE @]]
    /\ UNCHANGED <<files, ext, scripts, mutex, clock, job, strikes, persisted, calls>>

(* LoadAll disables what the last session disabled, once it is loaded. *)
Register(c) ==
    /\ Does(c, "register") \/ Does(c, "registerFailed")
    /\ ext' = IF Does(c, "register")
                THEN [there |-> TRUE, enabled |-> TRUE, status |-> "loaded", subscribed |-> TRUE]
                ELSE [there |-> TRUE, enabled |-> TRUE, status |-> "error", subscribed |-> FALSE]
    /\ IF call[c].op = "startup" /\ ~persisted
         THEN call' = [call EXCEPT ![c].todo = Program("disable")]
         ELSE Proceed(c)
    /\ UNCHANGED <<files, scripts, mutex, clock, job, strikes, persisted, calls>>

(* The registry: SetEnabled, SetStatus, Remove; the first two make no entry. *)
Enabled(e)  == [e EXCEPT !.enabled = e.there, !.status = IF @ = "disabled" THEN "loaded" ELSE @]
Disabled(e) == IF e.there THEN [e EXCEPT !.enabled = FALSE, !.status = "disabled"] ELSE e
SetEntry(c) ==
    /\ \/ Does(c, "enable") /\ ext' = Enabled(ext)
       \/ Does(c, "remove") /\ ext' = Unregistered
    /\ Proceed(c)
    /\ UNCHANGED <<files, scripts, mutex, clock, job, strikes, persisted, calls>>

SetDisabled(c) ==
    /\ Does(c, "disable")
    /\ ext' = Disabled(ext) /\ persisted' = FALSE
    /\ Proceed(c)
    /\ UNCHANGED <<files, scripts, mutex, clock, job, strikes, calls>>

ClearRunaway(c) ==
    /\ Does(c, "clear")
    /\ ext' = IF ext.there THEN [ext EXCEPT !.status = "loaded"] ELSE ext
    /\ strikes' = 0
    /\ Proceed(c)
    /\ UNCHANGED <<files, scripts, mutex, clock, job, persisted, calls>>

PersistEnabled(c) ==
    /\ Does(c, "persist")
    /\ persisted' = TRUE
    /\ Proceed(c)
    /\ UNCHANGED <<files, ext, scripts, mutex, clock, job, strikes, calls>>

CallStep(c) ==
    \/ StopTimers(c) \/ StopEach(c) \/ LoadPackage(c) \/ RunSetup(c) \/ ArmTimer(c) \/ AddTimer(c)
    \/ SetupPanics(c) \/ SetScript(c) \/ FindScript(c) \/ Register(c) \/ SetEntry(c)
    \/ SetDisabled(c) \/ ClearRunaway(c) \/ PersistEnabled(c)

------------------------------------------------------------------------------
(* Dispatches: an event on the bus's goroutine, a tick on one of its own *)

At(j, place)   == job[j].at = place
Goto(j, place) == job' = [job EXCEPT ![j].at = place]
JobOnly == UNCHANGED <<files, scripts, sched, call, persisted, calls>>

(* dispatch, runScriptFn: the version that is loaded now, whichever made the timer *)
Dispatch(j) == job' = [job EXCEPT ![j] = IF script = 0 THEN [NoJob EXCEPT !.at = "return"]
                                         ELSE [NoJob EXCEPT !.at = "lock", !.ver = script]]

OnEvent ==
    /\ At(Bus, "idle") /\ ext.enabled /\ ext.subscribed
    /\ Dispatch(Bus)
    /\ UNCHANGED <<ext, mutex, timer, strikes>> /\ JobOnly

TimerFires(t) ==
    /\ timer[t].armed
    /\ timer' = [timer EXCEPT ![t].armed = FALSE]
    /\ Goto(t, "due")
    /\ UNCHANGED <<ext, mutex, strikes>> /\ JobOnly

(* Only a timer that fires once looks whether it was stopped. *)
Tick(t) ==
    /\ At(t, "due")
    /\ IF timer[t].stopped /\ ~timer[t].repeats THEN Goto(t, "idle") ELSE Dispatch(t)
    /\ UNCHANGED <<ext, mutex, timer, strikes>> /\ JobOnly

Acquire(j) ==
    /\ At(j, "lock") /\ mutex[job[j].ver] = "free"
    /\ mutex' = [mutex EXCEPT ![job[j].ver] = "job"]
    /\ Goto(j, "run")
    /\ UNCHANGED <<ext, timer, strikes>> /\ JobOnly

(* The error of a tick goes nowhere. *)
Returns(j, failed) == job' = [job EXCEPT ![j] = [NoJob EXCEPT !.at = "return", !.failed = failed /\ j = Bus]]

Runaway(e) == IF e.there THEN [e EXCEPT !.enabled = FALSE, !.status = "runaway"] ELSE e

(* The handler returns or panics, in time; record counts the panics in a row. *)
Finish(j) ==
    /\ At(j, "run")
    /\ mutex' = [mutex EXCEPT ![job[j].ver] = IF @ = "job" THEN "free" ELSE "late"]
    /\ \E failed \in BOOLEAN :
          LET n == IF failed THEN strikes + 1 ELSE 0
              hit == n >= MaxStrikes
          IN  /\ strikes' = IF hit THEN 0 ELSE n
              /\ ext' = IF hit THEN Runaway(ext) ELSE ext
              /\ Returns(j, failed)
    /\ UNCHANGED timer /\ JobOnly

(* mutant: the deadline starts when the handler does *)
OverrunOfHandler(j) ==
    /\ At(j, "run")
    /\ mutex' = [mutex EXCEPT ![job[j].ver] = "late"]
    /\ ext' = Runaway(ext)
    /\ Returns(j, TRUE)
    /\ UNCHANGED <<timer, strikes>> /\ JobOnly

(* The deadline passes: the goroutine is left behind, holding the mutex or in  *)
(* line for it, and the script is disabled.                                    *)
Overrun(j) ==
    LET v == job[j].ver IN
    /\ \/ At(j, "run") /\ mutex' = [mutex EXCEPT ![v] = "late"]
       \/ At(j, "lock") /\ mutex' = [mutex EXCEPT ![v] = IF @ = "job" THEN "jobAndLate" ELSE @]
    /\ ext' = Runaway(ext)
    /\ Returns(j, TRUE)
    /\ UNCHANGED <<timer, strikes>> /\ JobOnly

(* Those left behind may all be done at last. *)
LateFinish(v) ==
    /\ mutex[v] = "late"
    /\ mutex' = [mutex EXCEPT ![v] = "free"]
    /\ UNCHANGED <<ext, timer, strikes, job>> /\ JobOnly

(* Deliver drops the error of a runaway, the router marks any other. *)
Deliver ==
    /\ At(Bus, "return")
    /\ ext' = IF job[Bus].failed /\ ext.there /\ ext.status # "runaway" THEN [ext EXCEPT !.status = "error"]
              ELSE ext
    /\ job' = [job EXCEPT ![Bus] = NoJob]
    /\ UNCHANGED <<mutex, timer, strikes>> /\ JobOnly

Rearm(t) ==
    /\ At(t, "return")
    /\ timer' = [timer EXCEPT ![t].armed = timer[t].repeats /\ ~timer[t].stopped]
    /\ job' = [job EXCEPT ![t] = NoJob]
    /\ UNCHANGED <<ext, mutex, strikes>> /\ JobOnly

Next ==
    \/ Edit \/ HandleFSEvent
    \/ \E op \in {"enable", "disable", "reload"} : FrontendCall(op)
    \/ \E c \in Callers : CallStep(c)
    \/ OnEvent \/ Deliver
    \/ \E t \in Timers : TimerFires(t) \/ Tick(t) \/ Rearm(t)
    \/ \E j \in Jobs : Acquire(j) \/ Finish(j) \/ Overrun(j)
    \/ \E v \in Versions : LateFinish(v)

Spec == Init /\ [][Next]_vars

------------------------------------------------------------------------------
(* Timers that will tick again *)
Live == {t \in Timers : ~timer[t].stopped /\ (timer[t].armed \/ ~At(t, "idle"))}

(* Reload, Enable and Disable leave no timer of another Setup behind: with no call *)
(* at work the script that runs has at most one, made by its own version, and one   *)
(* the user has disabled has none; a tick in flight does not bring one back.         *)
TimersAreCurrent ==
    /\ \A t \in Timers : timer[t].armed => ~timer[t].stopped
    /\ Idle /\ ~Overlap =>
          /\ script # 0 => Cardinality(Live) <= 1 /\ \A t \in Live : timer[t].ver = script
          /\ ext.status = "disabled" => Live = {}

(* Hot reload converges: with every change handled and no call at work, the version *)
(* that runs is the one on disk, whatever was changed while it was being loaded.      *)
RunsWhatIsOnDisk ==
    Idle /\ ~Overlap /\ changes = <<>> /\ script # 0 =>
        disk.there /\ disk.good /\ content[script] = disk.n

(* A script that hangs, or that one left behind keeps locked, never stops the bus: *)
(* its deadline always ends the dispatch, no handler has to return for that and no  *)
(* lock to become free.                                                             *)
BusGoesOn == At(Bus, "idle") \/ ENABLED (Overrun(Bus) \/ Deliver)
==============================================================================
