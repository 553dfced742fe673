------------------------------ MODULE PluginHost ------------------------------
(***************************************************************************)
(* The plugin table and the conversation with a plugin's process           *)
(* (internal/plugin/manager.go, ipc.go, metadata.go).                      *)
(*                                                                         *)
(* An instance is one IPC value: a process, the read loop on its stdout,   *)
(* the write loop on its stdin and the table of requests that wait for an  *)
(* answer.  A caller is a goroutine of the frontend's calls, of startup or *)
(* of shutdown.  The process is external: it reads when it likes, answers  *)
(* late, twice or never, and exits when it likes.  The lifecycle events    *)
(* emitted under pm.mu are the subject of PluginBus.                       *)
(***************************************************************************)
EXTENDS Integers, Sequences, FiniteSets

CONSTANTS
    Plugins,    \* the names of discovered plugins, which they report as their own
    Instances,  \* bound: processes started in a behaviour
    Callers,
    None,
    MaxId,      \* bound: requests to one instance
    WriteCap,   \* capacity of writeCh
    OutCap,     \* bound: lines a plugin has written that were not read yet
    Talkative   \* bound: whether plugins set metadata and ask for actions

ASSUME NamesAssumption == None \notin Plugins \union Instances \union Callers
ASSUME CapsAssumption ==
    /\ MaxId \in Nat \ {0} /\ WriteCap \in Nat \ {0}
    /\ OutCap \in Nat \ {0} /\ Talkative \in BOOLEAN

VARIABLES
    table,        \* plugins: the instance of each loaded plugin
    lock,         \* who holds pm.mu
    enabledRow,   \* the enabled column of plugin_config
    schemaRow,    \* whether the config schema is cached there
    command,      \* pluginCommands, for a command that every plugin declares
    ipc,          \* the instances
    caller,
    metadata,     \* who set the registry's entry for a key that every plugin sets
    pending,      \* metadataPending: the key has an update to publish
    flushSet,     \* metadataFlushSet
    timer,        \* a timer that will call flushMetadataEvents
    actionsClosed \* Close has closed actionQueue

manager == <<table, lock, enabledRow, schemaRow, command>>
events  == <<metadata, pending, flushSet, timer>>
vars    == <<manager, ipc, caller, events, actionsClosed>>

Ids   == 1..MaxId
Quiet == 0              \* a line to the plugin: a notification
SetLine == -1           \* lines from it: ui_metadata.set, and an action
ActLine == -2
Open == -1              \* a channel that has no answer yet, and a closed one
Shut == -2

NewInstance ==
    [plugin |-> None, up |-> FALSE, closed |-> FALSE, done |-> FALSE,
     reader |-> "none", got |-> None, writer |-> "none", line |-> None, writeCh |-> <<>>,
     requests |-> {}, channel |-> [n \in Ids |-> Shut], nextId |-> 1,
     known |-> {}, out |-> <<>>]

Resting == [op |-> "none", at |-> "idle", plugin |-> None, inst |-> None, id |-> 0,
            previous |-> FALSE, answer |-> None]

Init ==
    /\ table = [p \in Plugins |-> None]
    /\ lock = None
    /\ enabledRow \in [Plugins -> BOOLEAN]
    /\ schemaRow = [p \in Plugins |-> FALSE]
    /\ command = None
    /\ ipc = [i \in Instances |-> NewInstance]
    /\ caller = [c \in Callers |-> Resting]
    /\ metadata = None
    /\ pending = FALSE /\ flushSet = FALSE /\ timer = FALSE
    /\ actionsClosed = FALSE

------------------------------------------------------------------------------
(* The operations of the manager, up to the lock *)

At(c, place)   == caller[c].at = place
Goto(c, place) == caller' = [caller EXCEPT ![c].at = place]
Leave(c)       == caller' = [caller EXCEPT ![c] = Resting]

Begin(c, op, p, place) ==
    /\ At(c, "idle") /\ ~actionsClosed
    /\ caller' = [caller EXCEPT ![c] = [Resting EXCEPT !.op = op, !.plugin = p, !.at = place,
                                                      !.previous = op = "enable" /\ enabledRow[p]]]
    /\ UNCHANGED <<manager, ipc, events, actionsClosed>>

(* DiscoverAndLoad looks at the row first; SetPluginConfig unloads, then loads. *)
Load(c, p)    == enabledRow[p] /\ Begin(c, "load", p, "lock")
Unload(c, p)  == Begin(c, "unload", p, "lock")
Reload(c, p)  == Begin(c, "reload", p, "lock")
Enable(c, p)  == Begin(c, "enable", p, "saveRow")
Disable(c, p) == Begin(c, "disable", p, "saveRow")
Fetch(c, p)   == Begin(c, "fetch", p, "lookup")
Invoke(c, p)  == Begin(c, "invoke", p, "lookup")

(* SetPluginEnabled stores the new state before it takes the lock. *)
SaveRow(c) ==
    /\ At(c, "saveRow")
    /\ enabledRow' = [enabledRow EXCEPT ![caller[c].plugin] = (caller[c].op = "enable")]
    /\ Goto(c, "lock")
    /\ UNCHANGED <<table, lock, schemaRow, command, ipc, events, actionsClosed>>

Unlocked == lock = None

(* GetPluginMetadata and InvokePluginCommand only read the table. *)
Lookup(c) ==
    LET p == caller[c].plugin
    IN  /\ At(c, "lookup") /\ Unlocked
        /\ IF caller[c].op = "invoke" /\ table[p] # None
             THEN caller' = [caller EXCEPT ![c].at = "register", ![c].inst = table[p]]
           ELSE IF caller[c].op = "fetch" /\ table[p] = None /\ ~schemaRow[p]
             THEN Goto(c, "start")
           ELSE Leave(c)
        /\ UNCHANGED <<manager, ipc, events, actionsClosed>>

TakeLock(c) ==
    LET p == caller[c].plugin
        loaded == table[p] # None
        op == caller[c].op
    IN  /\ At(c, "lock") /\ Unlocked
        /\ lock' = c
        /\ CASE op = "shutdown" -> Goto(c, "closeAll")
             [] op \in {"unload", "disable"} /\ ~loaded -> Goto(c, "release")
             [] op \in {"load", "enable"} /\ loaded -> Goto(c, "release")
             [] op \in {"load", "enable"} /\ ~loaded -> Goto(c, "start")
             [] op = "reload" /\ ~loaded -> Goto(c, IF enabledRow[p] THEN "start" ELSE "release")
             [] OTHER -> caller' = [caller EXCEPT ![c].at = "close", ![c].inst = table[p]]
        /\ UNCHANGED <<table, enabledRow, schemaRow, command, ipc, events, actionsClosed>>

Release(c) ==
    /\ At(c, "release")
    /\ lock' = IF lock = c THEN None ELSE lock
    /\ Leave(c)
    /\ UNCHANGED <<table, enabledRow, schemaRow, command, ipc, events, actionsClosed>>

(* NewIPC: validation, pipes or the start of the process may fail. *)
Start(c) ==
    /\ At(c, "start")
    /\ \/ \E i \in Instances :
            /\ ipc[i] = NewInstance
            /\ ipc' = [ipc EXCEPT ![i] = [NewInstance EXCEPT
                  !.plugin = caller[c].plugin, !.up = TRUE, !.reader = "read", !.writer = "wait"]]
            /\ caller' = [caller EXCEPT ![c].inst = i, ![c].at = "register"]
       \/ Goto(c, "failed") /\ UNCHANGED ipc
    /\ UNCHANGED <<manager, events, actionsClosed>>

(* restoreEnabledState puts back what was read before the save. *)
Failed(c) ==
    /\ At(c, "failed")
    /\ enabledRow' = IF caller[c].op = "enable"
                     THEN [enabledRow EXCEPT ![caller[c].plugin] = caller[c].previous] ELSE enabledRow
    /\ Goto(c, "release")
    /\ UNCHANGED <<table, lock, schemaRow, command, ipc, events, actionsClosed>>

------------------------------------------------------------------------------
(* SendRequest *)

Instance(c) == ipc[caller[c].inst]

(* mutant: a load that failed leaves its process running *)
ReturnedUnclosed(c, answer) ==
    caller' = [caller EXCEPT ![c].answer = answer,
                             ![c].at = IF caller[c].op = "invoke" THEN "release"
                                       ELSE IF answer = caller[c].id /\ caller[c].op # "fetch" THEN "install"
                                       ELSE IF caller[c].op = "fetch" THEN "close" ELSE "failed"]

(* The call returned: an initialize installs the plugin or closes it again. *)
Returned(c, answer) ==
    caller' = [caller EXCEPT ![c].answer = answer,
                             ![c].at = IF caller[c].op = "invoke" THEN "release"
                                       ELSE IF answer = caller[c].id /\ caller[c].op # "fetch" THEN "install"
                                       ELSE "close"]

Register(c) ==
    LET i == caller[c].inst
        n == ipc[i].nextId
    IN  /\ At(c, "register")
        /\ IF ipc[i].closed \/ n > MaxId
             THEN Returned(c, None) /\ UNCHANGED ipc
             ELSE /\ ipc' = [ipc EXCEPT ![i].nextId = n + 1, ![i].requests = @ \union {n},
                                        ![i].channel[n] = Open]
                  /\ caller' = [caller EXCEPT ![c].at = "enqueue", ![c].id = n]
        /\ UNCHANGED <<manager, events, actionsClosed>>

(* mutant: an abandoned request stays in the table *)
GiveUpLeaks(c) ==
    /\ ipc' = ipc
    /\ Returned(c, None)

(* The request is forgotten and the call returns an error.  A channel that     *)
(* nobody holds any more is as good as closed.                                 *)
GiveUp(c) ==
    LET i == caller[c].inst
        n == caller[c].id
    IN  /\ ipc' = [ipc EXCEPT ![i].requests = @ \ {n},
                              ![i].channel[n] = IF ipc[i].reader = "answer" /\ ipc[i].got = n THEN @ ELSE Shut]
        /\ Returned(c, None)

(* Waits for room, for the end of the instance or for two seconds. *)
Enqueue(c) ==
    LET i == caller[c].inst
    IN  /\ At(c, "enqueue")
        /\ \/ /\ Len(ipc[i].writeCh) < WriteCap
              /\ ipc' = [ipc EXCEPT ![i].writeCh = Append(@, caller[c].id)]
              /\ Goto(c, "await")
           \/ GiveUp(c)
        /\ UNCHANGED <<manager, events, actionsClosed>>

(* mutant: no timeout on the answer *)
AwaitForever(c) ==
    LET i == caller[c].inst
        there == ipc[i].channel[caller[c].id]
    IN  /\ At(c, "await")
        /\ there # Open
        /\ Returned(c, IF there = Shut THEN None ELSE there)
        /\ ipc' = [ipc EXCEPT ![i].channel[caller[c].id] = Shut]
        /\ UNCHANGED <<manager, events, actionsClosed>>

(* The answer, the end of the read loop, or the timeout. *)
Await(c) ==
    LET i == caller[c].inst
        there == ipc[i].channel[caller[c].id]
    IN  /\ At(c, "await")
        /\ \/ /\ there \in Ids
              /\ Returned(c, there) \/ Returned(c, None)
              /\ ipc' = [ipc EXCEPT ![i].channel[caller[c].id] = Shut]
           \/ there = Shut /\ Returned(c, None) /\ UNCHANGED ipc
           \/ GiveUp(c)
        /\ UNCHANGED <<manager, events, actionsClosed>>

------------------------------------------------------------------------------
(* Installing and closing *)

(* The command goes to the first plugin that declares it. *)
Install(c) ==
    LET p == caller[c].plugin
    IN  /\ At(c, "install")
        /\ command' = IF command = None THEN p ELSE command
        /\ table' = [table EXCEPT ![p] = caller[c].inst]
        /\ schemaRow' = [schemaRow EXCEPT ![p] = TRUE]
        /\ Goto(c, "release")
        /\ UNCHANGED <<lock, enabledRow, ipc, events, actionsClosed>>

(* The first half of IPC.Close; one that is closed already returns at once. *)
MarkClosed(c) ==
    LET i == caller[c].inst
    IN  /\ At(c, "close")
        /\ ipc' = [ipc EXCEPT ![i].closed = TRUE]
        /\ Goto(c, IF ipc[i].closed THEN "closed" ELSE "kill")
        /\ UNCHANGED <<manager, events, actionsClosed>>

(* Stops the writer, closes stdin and kills the process. *)
Kill(c) ==
    LET i == caller[c].inst
    IN  /\ At(c, "kill")
        /\ ipc' = [ipc EXCEPT ![i].done = TRUE, ![i].up = FALSE]
        /\ Goto(c, "closed")
        /\ UNCHANGED <<manager, events, actionsClosed>>

(* ClearPluginMetadata *)
Cleared(p) == IF metadata = p THEN None ELSE metadata

(* mutant: an unloaded plugin keeps its commands *)
UnloadedKeepsCommands(c) ==
    LET p == caller[c].plugin
        op == caller[c].op
    IN  /\ At(c, "closed")
        /\ IF op \in {"unload", "disable", "reload"} /\ table[p] = caller[c].inst
             THEN /\ table' = [table EXCEPT ![p] = None]
                  /\ metadata' = Cleared(p)
                  /\ UNCHANGED <<command, schemaRow>>
                  /\ caller' = [caller EXCEPT ![c].inst = None,
                         ![c].at = IF op = "reload" /\ enabledRow[p] THEN "start" ELSE "release"]
             ELSE /\ schemaRow' = IF op = "fetch" /\ caller[c].answer # None
                                  THEN [schemaRow EXCEPT ![p] = TRUE] ELSE schemaRow
                  /\ Goto(c, IF op = "fetch" THEN "release" ELSE "failed")
                  /\ UNCHANGED <<table, command, metadata>>
        /\ UNCHANGED <<lock, enabledRow, ipc, pending, flushSet, timer, actionsClosed>>

(* After Close: an unload clears what the plugin owned and a reload goes on    *)
(* with the new process; a failed load or a fetch leaves the table alone.      *)
Unloaded(c) ==
    LET p == caller[c].plugin
        op == caller[c].op
    IN  /\ At(c, "closed")
        /\ IF op \in {"unload", "disable", "reload"} /\ table[p] = caller[c].inst
             THEN /\ table' = [table EXCEPT ![p] = None]
                  /\ metadata' = Cleared(p)
                  /\ command' = IF command = p THEN None ELSE command
                  /\ UNCHANGED schemaRow
                  /\ caller' = [caller EXCEPT ![c].inst = None,
                         ![c].at = IF op = "reload" /\ enabledRow[p] THEN "start" ELSE "release"]
             ELSE /\ schemaRow' = IF op = "fetch" /\ caller[c].answer # None
                                  THEN [schemaRow EXCEPT ![p] = TRUE] ELSE schemaRow
                  /\ Goto(c, IF op = "fetch" THEN "release" ELSE "failed")
                  /\ UNCHANGED <<table, command, metadata>>
        /\ UNCHANGED <<lock, enabledRow, ipc, pending, flushSet, timer, actionsClosed>>

(* Manager.Close: every instance, then the action queue; the table stays. *)
Shutdown(c) ==
    /\ At(c, "idle") /\ ~actionsClosed
    /\ \A d \in Callers : caller[d].op # "shutdown"
    /\ caller' = [caller EXCEPT ![c] = [Resting EXCEPT !.op = "shutdown", !.at = "lock"]]
    /\ UNCHANGED <<manager, ipc, events, actionsClosed>>

CloseAll(c) ==
    /\ At(c, "closeAll")
    /\ LET open == {i \in Instances : \E p \in Plugins : table[p] = i /\ ~ipc[i].closed}
       IN  ipc' = [i \in Instances |-> IF i \in open
                      THEN [ipc[i] EXCEPT !.closed = TRUE, !.done = TRUE, !.up = FALSE] ELSE ipc[i]]
    /\ metadata' = IF metadata # None /\ table[metadata] # None THEN None ELSE metadata
    /\ Goto(c, "closeQueue")
    /\ UNCHANGED <<manager, pending, flushSet, timer, actionsClosed>>

CloseQueue(c) ==
    /\ At(c, "closeQueue")
    /\ actionsClosed' = TRUE
    /\ Goto(c, "release")
    /\ UNCHANGED <<manager, ipc, events>>

CallerStep(c) ==
    \/ SaveRow(c) \/ Lookup(c) \/ Release(c) \/ Start(c) \/ Failed(c)
    \/ Register(c) \/ Enqueue(c) \/ Await(c)
    \/ Install(c) \/ MarkClosed(c) \/ Kill(c) \/ Unloaded(c) \/ CloseAll(c) \/ CloseQueue(c)

------------------------------------------------------------------------------
(* The write loop and the process *)

(* SendNotification on the bus's dispatcher: a full queue drops the line. *)
Notify(p) ==
    LET i == table[p]
    IN  /\ Unlocked /\ i # None
        /\ ~ipc[i].closed
        /\ Len(ipc[i].writeCh) < WriteCap
        /\ ipc' = [ipc EXCEPT ![i].writeCh = Append(@, Quiet)]
        /\ UNCHANGED <<manager, caller, events, actionsClosed>>

WriterTakes(i) ==
    /\ ipc[i].writer = "wait" /\ ipc[i].writeCh # <<>>
    /\ ipc' = [ipc EXCEPT ![i].writer = "write", ![i].line = Head(ipc[i].writeCh),
                          ![i].writeCh = Tail(@)]
    /\ UNCHANGED <<manager, caller, events, actionsClosed>>

(* A write fails once stdin is closed or the process is gone. *)
WriterStops(i) ==
    /\ \/ ipc[i].writer = "wait" /\ ipc[i].done
       \/ ipc[i].writer = "write" /\ ~ipc[i].up
    /\ ipc' = [ipc EXCEPT ![i].writer = "end", ![i].line = None]
    /\ UNCHANGED <<manager, caller, events, actionsClosed>>

(* external: the plugin reads the line the writer is blocked on *)
PluginReads(i) ==
    /\ ipc[i].writer = "write" /\ ipc[i].up
    /\ ipc' = [ipc EXCEPT ![i].writer = "wait", ![i].line = None,
                          ![i].known = @ \union ({ipc[i].line} \ {Quiet})]
    /\ UNCHANGED <<manager, caller, events, actionsClosed>>

(* external: it writes an answer to any request it has read, metadata or an action *)
PluginWrites(i) ==
    /\ ipc[i].up /\ Len(ipc[i].out) < OutCap
    /\ \E line \in ipc[i].known \union (IF Talkative THEN {SetLine, ActLine} ELSE {}) :
         ipc' = [ipc EXCEPT ![i].out = Append(@, line)]
    /\ UNCHANGED <<manager, caller, events, actionsClosed>>

(* external *)
PluginExits(i) ==
    /\ ipc[i].up
    /\ ipc' = [ipc EXCEPT ![i].up = FALSE]
    /\ UNCHANGED <<manager, caller, events, actionsClosed>>

------------------------------------------------------------------------------
(* The read loop *)

(* mutant: a request stays in the table after its answer *)
ReadLineKeeps(i) ==
    LET line == Head(ipc[i].out)
    IN  /\ ipc[i].reader = "read" /\ ipc[i].out # <<>> /\ line \in Ids
        /\ ipc' = [ipc EXCEPT ![i].out = Tail(@),
               ![i].got = IF line \in ipc[i].requests THEN line ELSE None,
               ![i].reader = IF line \in ipc[i].requests THEN "answer" ELSE "read"]
        /\ UNCHANGED <<manager, caller, events, actionsClosed>>

(* An answer is taken out of the table under the lock and passed on later. *)
ReadLine(i) ==
    LET line == Head(ipc[i].out)
    IN  /\ ipc[i].reader = "read" /\ ipc[i].out # <<>> /\ line \in Ids
        /\ ipc' = [ipc EXCEPT ![i].out = Tail(@),
               ![i].requests = @ \ {line},
               ![i].got = IF line \in ipc[i].requests THEN line ELSE None,
               ![i].reader = IF line \in ipc[i].requests THEN "answer" ELSE "read"]
        /\ UNCHANGED <<manager, caller, events, actionsClosed>>

(* mutant: an answer goes to whoever asked last *)
PassToLatest(i) ==
    LET n == ipc[i].nextId - 1
    IN  /\ ipc[i].reader = "answer"
        /\ ipc[i].channel[n] = Open
        /\ ipc' = [ipc EXCEPT ![i].channel[n] = ipc[i].got, ![i].reader = "read"]
        /\ UNCHANGED <<manager, caller, events, actionsClosed>>

(* The channel has room for one answer. *)
PassAnswer(i) ==
    /\ ipc[i].reader = "answer"
    /\ ipc[i].channel[ipc[i].got] = Open
    /\ ipc' = [ipc EXCEPT ![i].channel[ipc[i].got] = ipc[i].got, ![i].reader = "read",
                          ![i].got = None]
    /\ UNCHANGED <<manager, caller, events, actionsClosed>>

Reads(i, line) == ipc[i].reader = "read" /\ ipc[i].out # <<>> /\ Head(ipc[i].out) = line

(* setMetadataLocked refuses a lower priority, and an equal one that is not    *)
(* later by the clock.  queueMetadataEvents publishes the update either way;   *)
(* the first one starts the timer.                                             *)
SetMetadata(i) ==
    /\ Reads(i, SetLine)
    /\ \/ metadata' = ipc[i].plugin
       \/ metadata # None /\ UNCHANGED metadata
    /\ pending' = TRUE
    /\ flushSet' = TRUE
    /\ timer' = (timer \/ ~flushSet)
    /\ ipc' = [ipc EXCEPT ![i].out = Tail(@)]
    /\ UNCHANGED <<manager, caller, actionsClosed>>

(* The action is queued for ProcessActions, or dropped.  Sending to the closed queue panics *)
(* and ends the program, which is not followed any further.                  *)
EnqueueAction(i) ==
    /\ Reads(i, ActLine)
    /\ ~actionsClosed
    /\ ipc' = [ipc EXCEPT ![i].out = Tail(@)]
    /\ UNCHANGED <<manager, caller, events, actionsClosed>>

(* The end of stdout.  cmd.Wait closes the pipe, so lines may be lost. *)
ReadEnd(i) ==
    /\ ipc[i].reader = "read" /\ ~ipc[i].up
    /\ ipc' = [ipc EXCEPT ![i].reader = "end", ![i].out = <<>>, ![i].closed = TRUE,
                          ![i].requests = {}, ![i].known = {}, ![i].nextId = 1,
                          ![i].channel = [n \in Ids |-> IF n \in ipc[i].requests THEN Shut ELSE @[n]]]
    /\ UNCHANGED <<manager, caller, events, actionsClosed>>

ReaderStep(i) ==
    \/ ReadLine(i) \/ PassAnswer(i) \/ SetMetadata(i) \/ EnqueueAction(i) \/ ReadEnd(i)

------------------------------------------------------------------------------
(* flushMetadataEvents: again later while updates keep coming, else all of them. *)
Flush ==
    /\ timer
    /\ \/ UNCHANGED <<pending, flushSet, timer>>
       \/ pending' = FALSE /\ flushSet' = FALSE /\ timer' = FALSE
    /\ UNCHANGED <<manager, ipc, caller, metadata, actionsClosed>>

Next ==
    \/ \E c \in Callers :
          \/ \E p \in Plugins :
                \/ Load(c, p) \/ Unload(c, p) \/ Reload(c, p) \/ Enable(c, p) \/ Disable(c, p)
                \/ Fetch(c, p) \/ Invoke(c, p)
          \/ Shutdown(c) \/ TakeLock(c) \/ CallerStep(c)
    \/ \E p \in Plugins : Notify(p)
    \/ \E i \in Instances :
          \/ WriterTakes(i) \/ WriterStops(i) \/ ReaderStep(i)
          \/ PluginReads(i) \/ PluginWrites(i) \/ PluginExits(i)
    \/ Flush

Spec == Init /\ [][Next]_vars

------------------------------------------------------------------------------
(* What the read loop has taken out of the request table has room for its answer *)
(* (cap 1, or closed), however late, repeated or unasked for it is: the goroutine   *)
(* that reads never stops at the channel of a call.                                 *)
AnswerHasRoom ==
    \A i \in Instances : ipc[i].reader = "answer" => ipc[i].channel[ipc[i].got] = Open

(* An answer reaches the call that asked for it or none: one that comes after *)
(* its call gave up is not taken for the answer to a later request.           *)
AnswerIsMine == \A c \in Callers : caller[c].answer \in {None, caller[c].id}

(* Every entry of the request table has a call that will remove it. *)
RequestHasCall ==
    \A i \in Instances : \A n \in ipc[i].requests :
        \E c \in Callers : caller[c].inst = i /\ caller[c].id = n /\ caller[c].at \in {"enqueue", "await"}

(* A process that was not closed is in the table or in the hands of the       *)
(* operation that started it: none is forgotten while it runs.                *)
RunningIsOwned ==
    \A i \in Instances :
        ipc[i].up /\ ~ipc[i].closed =>
            \/ \E p \in Plugins : table[p] = i
            \/ \E c \in Callers : caller[c].inst = i

(* A command belongs to a plugin that is loaded, so it can be invoked. *)
CommandIsLoaded == command # None /\ Unlocked => table[command] # None

(* Whatever a process does or does not do, the goroutine that holds pm.mu has  *)
(* a step of its own to take: writing is bounded by a timeout and so is the    *)
(* answer, so a silent, full or dead plugin does not stop the others.          *)
HolderCanMove == lock # None => ENABLED CallerStep(lock)
==============================================================================
