----------------------------- MODULE DccTransfers -----------------------------
(***************************************************************************)
(* Direct file transfers (internal/dcc/manager.go, transport.go) with the  *)
(* rows App keeps of them (app_dcc.go, storage/file_transfers.go).         *)
(*                                                                         *)
(* A thread is a goroutine: a call from the frontend, from an IRC callback *)
(* or from shutdown, or a transfer worker.  A step is a critical section   *)
(* of m.mu, one storage call, one control message or one I/O operation.    *)
(* Where starting a worker is the last thing a goroutine does, its thread  *)
(* goes on as the worker.                                                  *)
(*                                                                         *)
(* A file is the set of its chunks.  Every incoming transfer has a file     *)
(* name of its own.  A worker's context is the flag "canceled" of its      *)
(* thread; the manager's root context is "closed".                         *)
(***************************************************************************)
EXTENDS Integers, Sequences, FiniteSets

CONSTANTS
    Incoming, Outgoing, \* the transfers of a behaviour
    Threads,            \* bound: goroutines at work at one time
    None,
    Size,               \* length of every file
    KeepHistory,        \* the setting historyRetention is not "none"
    MaxCrashes,         \* bound: restarts of the program
    MaxRetries          \* bound: Retry calls

ASSUME DirectionsAssumption == Incoming \intersect Outgoing = {}
ASSUME NoneAssumption == None \notin Incoming \union Outgoing \union Threads
ASSUME SizeAssumption == Size \in Nat \ {0}
ASSUME SettingAssumption == KeepHistory \in BOOLEAN
ASSUME BoundsAssumption == MaxCrashes \in Nat /\ MaxRetries \in Nat

VARIABLES
    enabled,       \* settings.Enabled
    closed,        \* Close has canceled the root context
    item,          \* items, and what the offers map and the token add to one
    queue,         \* outgoingQueue
    active,        \* outgoingActive
    cancels,       \* cancels: the thread whose context a transfer's entry ends
    partial, dest, \* on disk: the partial file and the received one
    row,           \* the file_transfers table
    thread,
    crashes, retries,
    discarded      \* history: transfers whose partial file the user discarded

manager == <<enabled, closed, item, queue, active, cancels>>
disk    == <<partial, dest, row>>
bounds  == <<crashes, retries, discarded>>
vars    == <<manager, disk, thread, bounds>>

Transfers == Incoming \union Outgoing
Active    == {"offered", "queued", "negotiating", "connecting", "transferring"}
Ended     == {"completed", "failed", "canceled", "declined"}
NoFile    == {0}
Whole     == 1..Size

Length(file) == CHOOSE n \in file \union {0} : \A m \in file : m <= n

(* path: LocalPath and PartialPath are chosen; offer: the offers map knows the *)
(* peer's address; token: the peer was sent a token that still matches.        *)
Unknown ==
    [status |-> "absent", resumable |-> FALSE, bytes |-> 0, offset |-> 0,
     finished |-> FALSE, path |-> FALSE, offer |-> FALSE, token |-> FALSE]

Removed == [Unknown EXCEPT !.status = "removed"]
Exists(x) == item[x].status \notin {"absent", "removed"}

Idle ==
    [at |-> "idle", on |-> None, canceled |-> FALSE, pos |-> 0, linked |-> FALSE,
     copy |-> Unknown, next |-> "idle", todo |-> {}]

InitialRows == [x \in Transfers |-> Unknown]

Init ==
    /\ enabled = TRUE /\ closed = FALSE
    /\ item = [x \in Transfers |-> Unknown]
    /\ queue = <<>> /\ active = None
    /\ cancels = [x \in Transfers |-> None]
    /\ partial = [x \in Transfers |-> NoFile]
    /\ dest = [x \in Transfers |-> NoFile]
    /\ row = InitialRows
    /\ thread = [t \in Threads |-> Idle]
    /\ crashes = 0 /\ retries = 0 /\ discarded = {}

------------------------------------------------------------------------------
(* Threads *)

At(t, place) == thread[t].at = place
Free(t)      == At(t, "idle") /\ thread[t].todo = {}

(* The context of the goroutine, a child of the manager's. *)
Canceled(t) == thread[t].canceled \/ closed

Goto(t, place) == thread' = [thread EXCEPT ![t].at = place]

(* The goroutine is done; a CancelAll goes on with its next transfer. *)
Resting(t) == [Idle EXCEPT !.todo = thread[t].todo]
Done(t)    == thread' = [thread EXCEPT ![t] = Resting(t)]

(* changed(): the copy made under the lock is stored after it is released. *)
Saving(t, x, copy, next) ==
    [thread[t] EXCEPT !.at = "save", !.on = x, !.copy = copy, !.next = next]
Save(t, x, next) == thread' = [thread EXCEPT ![t] = Saving(t, x, item'[x], next)]

(* The context behind the transfer's entry in cancels; an entry may outlive *)
(* its worker.                                                              *)
Owner(x) == IF cancels[x] # None /\ thread[cancels[x]].on = x THEN {cancels[x]} ELSE {}

(* That context has ended, and thread t goes on as r. *)
OwnerEnded(t, x, r) ==
    [u \in Threads |-> IF u = t THEN r
                       ELSE IF u \in Owner(x) THEN [thread[u] EXCEPT !.canceled = TRUE]
                       ELSE thread[u]]

(* setCancel and the go statement: the entry's old context ends. *)
Spawn(t, x, place) ==
    \E u \in Threads :
        /\ (u = t /\ thread[t].todo = {}) \/ (u # t /\ Free(u))
        /\ cancels' = [cancels EXCEPT ![x] = u]
        /\ thread' = [v \in Threads |->
               IF v = u THEN [Idle EXCEPT !.at = place, !.on = x]
               ELSE IF v = t THEN Resting(t)
               ELSE IF v \in Owner(x) THEN [thread[v] EXCEPT !.canceled = TRUE]
               ELSE thread[v]]

(* The persist callback of initializeFileTransfers.  Without history an ended  *)
(* transfer's row is deleted, if it is marked finished already (the condition  *)
(* of DeleteFileTransferHistoryEntry).                                         *)
Persisted(x, copy) ==
    IF ~KeepHistory /\ copy.status \notin Active /\ ~copy.resumable
      THEN IF row[x].finished THEN Unknown ELSE row[x]
      ELSE copy

SaveStep(t) ==
    /\ At(t, "save")
    /\ row' = [row EXCEPT ![thread[t].on] = Persisted(thread[t].on, thread[t].copy)]
    /\ IF thread[t].next = "idle" THEN Done(t)
       ELSE thread' = [thread EXCEPT ![t].at = thread[t].next, ![t].copy = Unknown, ![t].next = "idle"]
    /\ UNCHANGED <<manager, partial, dest, bounds>>

------------------------------------------------------------------------------
(* Ending a transfer *)

Advance(t) ==
    /\ At(t, "advance")
    /\ active' = IF active = thread[t].on THEN None ELSE active
    /\ Goto(t, "start")
    /\ UNCHANGED <<enabled, closed, item, queue, cancels, disk, bounds>>

(* A partial file that cannot be resumed is removed: no other goroutine opens *)
(* it once the transfer has ended, so the removal is part of the step.        *)
Cleanup(x) ==
    partial' = IF x \in Incoming /\ ~item'[x].resumable /\ item'[x].path
               THEN [partial EXCEPT ![x] = NoFile] ELSE partial

(* A worker that has the removed file open writes to it unseen. *)
Unlinked(x, threads) ==
    IF partial'[x] = partial[x] THEN threads
    ELSE [u \in Threads |-> IF threads[u].on = x THEN [threads[u] EXCEPT !.linked = FALSE] ELSE threads[u]]

EndWith(t, x, ended) ==
    /\ item' = [item EXCEPT ![x] = ended]
    /\ Cleanup(x)
    /\ cancels' = [cancels EXCEPT ![x] = None]
    /\ thread' = Unlinked(x, OwnerEnded(t, x, Saving(t, x, ended, "advance")))
    /\ UNCHANGED <<enabled, closed, queue, active, dest, row, bounds>>

(* mutant: a canceled worker leaves the result to whoever canceled it *)
FinishUnlessCanceled(t) ==
    LET x == thread[t].on
        i == item[x]
        resume == x \in Incoming /\ i.path /\ i.bytes > 0 /\ partial[x] # NoFile
    IN  /\ At(t, "fail") \/ At(t, "failed")
        /\ IF ~Exists(x) \/ (At(t, "fail") /\ Canceled(t))
             THEN Done(t) /\ UNCHANGED <<manager, disk, bounds>>
             ELSE EndWith(t, x, [i EXCEPT !.status = IF resume THEN "resumable" ELSE "failed",
                                          !.resumable = @ \/ resume, !.finished = @ \/ ~resume])

(* finishWithError looks at nothing but whether the transfer still exists.  *)
(* "failed" is a failure whose context cannot be canceled (fail).           *)
FinishWithError(t) ==
    LET x == thread[t].on
        i == item[x]
        resume == x \in Incoming /\ i.path /\ i.bytes > 0 /\ partial[x] # NoFile
    IN  /\ At(t, "fail") \/ At(t, "failed")
        /\ IF ~Exists(x)
             THEN Done(t) /\ UNCHANGED <<manager, disk, bounds>>
             ELSE EndWith(t, x, [i EXCEPT
                     !.status = IF resume THEN "resumable"
                                ELSE IF At(t, "fail") /\ Canceled(t) THEN "canceled" ELSE "failed",
                     !.resumable = @ \/ resume,
                     !.finished = @ \/ ~resume])

(* mutant: a transfer that is complete does not advance the queue *)
CompleteKeepsSlot(t) ==
    LET x == thread[t].on
    IN  /\ At(t, "complete")
        /\ IF item[x].status # "transferring"
             THEN Done(t) /\ UNCHANGED <<manager, disk, bounds>>
             ELSE /\ item' = [item EXCEPT ![x].status = "completed", ![x].finished = TRUE,
                                          ![x].bytes = Size, ![x].resumable = FALSE]
                  /\ cancels' = [cancels EXCEPT ![x] = None]
                  /\ thread' = OwnerEnded(t, x, Saving(t, x, item'[x], "idle"))
                  /\ UNCHANGED <<enabled, closed, queue, active, disk, bounds>>

Complete(t) ==
    LET x == thread[t].on
    IN  /\ At(t, "complete")
        /\ IF item[x].status # "transferring"
             THEN Done(t) /\ UNCHANGED <<manager, disk, bounds>>
             ELSE /\ item' = [item EXCEPT ![x].status = "completed", ![x].finished = TRUE,
                                          ![x].bytes = Size, ![x].resumable = FALSE]
                  /\ cancels' = [cancels EXCEPT ![x] = None]
                  /\ thread' = OwnerEnded(t, x, Saving(t, x, item'[x], "advance"))
                  /\ UNCHANGED <<enabled, closed, queue, active, disk, bounds>>

RemoveFirst(s, x) ==
    LET hits == {i \in DOMAIN s : s[i] = x}
        i == CHOOSE j \in hits : \A k \in hits : j <= k
    IN  IF hits = {} THEN s ELSE SubSeq(s, 1, i - 1) \o SubSeq(s, i + 1, Len(s))

(* The locked part of Cancel. *)
CancelLocked(t, x) ==
    LET i == item[x]
        resume == x \in Incoming /\ i.path /\ i.bytes > 0
    IN  /\ i.status \in Active \union {"resumable"}
        /\ queue' = RemoveFirst(queue, x)
        /\ item' = [item EXCEPT ![x].status = IF resume THEN "resumable" ELSE "canceled",
                                ![x].resumable = @ \/ resume,
                                ![x].finished = @ \/ ~resume]
        /\ Cleanup(x)
        /\ cancels' = [cancels EXCEPT ![x] = None]
        /\ thread' = Unlinked(x, OwnerEnded(t, x,
               [Saving(t, x, item'[x], "advance") EXCEPT !.todo = thread[t].todo \ {x}]))
        /\ UNCHANGED <<enabled, closed, active, dest, row, bounds>>

Cancel(t, x) == Free(t) /\ CancelLocked(t, x)

Decline(t, x) ==
    /\ Free(t)
    /\ item[x].status = "offered"
    /\ item' = [item EXCEPT ![x].status = "declined", ![x].finished = TRUE]
    /\ Save(t, x, "idle")
    /\ UNCHANGED <<enabled, closed, queue, active, cancels, disk, bounds>>

(* The row goes only if it is marked finished. *)
Forget(x) ==
    /\ item' = [item EXCEPT ![x] = Removed]
    /\ row' = [row EXCEPT ![x] = IF @.finished THEN Unknown ELSE @]

DiscardPartial(t, x) ==
    /\ Free(t)
    /\ x \in Incoming
    /\ item[x].resumable /\ item[x].path
    /\ Forget(x)
    /\ partial' = [partial EXCEPT ![x] = NoFile]
    /\ thread' = Unlinked(x, thread)
    /\ discarded' = discarded \union {x}
    /\ UNCHANGED <<enabled, closed, queue, active, cancels, dest, crashes, retries>>

(* RemoveHistory; ClearHistory does the same to every ended transfer. *)
RemoveHistory(t, x) ==
    /\ Free(t)
    /\ item[x].status \in Ended /\ ~item[x].resumable
    /\ Forget(x)
    /\ UNCHANGED <<enabled, closed, queue, active, cancels, partial, dest, thread, bounds>>

ClearHistory(t) ==
    /\ Free(t)
    /\ item' = [x \in Transfers |->
           IF Exists(x) /\ item[x].status \notin Active /\ ~item[x].resumable THEN Removed ELSE item[x]]
    /\ row' = [x \in Transfers |-> IF row[x].finished THEN Unknown ELSE row[x]]
    /\ UNCHANGED <<enabled, closed, queue, active, cancels, partial, dest, thread, bounds>>

EndStep(t) ==
    \/ SaveStep(t) \/ Advance(t) \/ FinishWithError(t) \/ Complete(t)

------------------------------------------------------------------------------
(* Calls.  HandleControl and QueueOutgoing look at the setting in a critical *)
(* section of their own, so a request let in may act on a disabled manager.  *)

Requests(x) ==
    IF x \in Incoming THEN {"offer", "resumeAccept"} ELSE {"queue", "resumeRequest", "response"}

Admit(t, x, request) ==
    /\ Free(t) /\ enabled
    /\ CASE request = "offer" -> item[x].status \in {"absent", "resumable"}
         [] request = "queue" -> item[x].status = "absent"
         [] OTHER -> Exists(x)
    /\ thread' = [thread EXCEPT ![t].at = request, ![t].on = x]
    /\ UNCHANGED <<manager, disk, bounds>>

(* A new offer, or the offer again of a transfer that can be resumed. *)
AddIncomingOffer(t) ==
    LET x == thread[t].on
    IN  /\ At(t, "offer")
        /\ IF item[x].status \in {"absent", "resumable"}
             THEN /\ item' = [item EXCEPT ![x].status = "offered", ![x].offer = TRUE]
                  /\ Save(t, x, "idle")
             ELSE Done(t) /\ UNCHANGED item
        /\ UNCHANGED <<enabled, closed, queue, active, cancels, disk, bounds>>

QueueOutgoing(t) ==
    LET x == thread[t].on
    IN  /\ At(t, "queue")
        /\ IF item[x].status = "absent"
             THEN /\ item' = [item EXCEPT ![x].status = "queued", ![x].path = TRUE]
                  /\ queue' = Append(queue, x)
                  /\ Goto(t, "queued")
             ELSE Done(t) /\ UNCHANGED <<item, queue>>
        /\ UNCHANGED <<enabled, closed, active, cancels, disk, bounds>>

(* The copy it stores is read again: the transfer may have gone on since. *)
QueuedCopy(t) ==
    /\ At(t, "queued")
    /\ IF Exists(thread[t].on)
         THEN thread' = [thread EXCEPT ![t] = Saving(t, thread[t].on, item[thread[t].on], "start")]
         ELSE Goto(t, "start")
    /\ UNCHANGED <<manager, disk, bounds>>

Retry(t, x) ==
    /\ Free(t) /\ enabled /\ retries < MaxRetries
    /\ x \in Outgoing /\ item[x].status \in {"failed", "canceled"}
    /\ item' = [item EXCEPT ![x].status = "queued", ![x].bytes = 0, ![x].offset = 0,
                            ![x].finished = FALSE, ![x].resumable = FALSE]
    /\ queue' = Append(queue, x)
    /\ retries' = retries + 1
    /\ Save(t, x, "start")
    /\ UNCHANGED <<enabled, closed, active, cancels, disk, crashes, discarded>>

(* Accept stores where the file goes and resumes behind what is on the disk. *)
Accept(t, x) ==
    LET i == item[x]
        offset == Length(partial[x])
    IN  /\ Free(t) /\ enabled
        /\ x \in Incoming /\ i.status \in {"offered", "resumable"}
        /\ i.path \/ dest[x] = NoFile
        /\ item' = [item EXCEPT ![x].status = "connecting", ![x].path = TRUE,
                                ![x].offset = offset, ![x].bytes = offset]
        /\ Save(t, x, IF offset > 0 THEN "askResume" ELSE "setup")
        /\ UNCHANGED <<enabled, closed, queue, active, cancels, disk, bounds>>

(* The peer's ACCEPT must name the position asked for. *)
ResumeAccept(t) ==
    LET x == thread[t].on
    IN  /\ At(t, "resumeAccept")
        /\ IF item[x].status = "connecting" /\ item[x].offset > 0 THEN Goto(t, "setup") ELSE Done(t)
        /\ UNCHANGED <<manager, disk, bounds>>

(* The peer's RESUME names a port or token it was sent and any position; the *)
(* state of the transfer is not looked at.                                   *)
ResumeRequest(t) ==
    LET x == thread[t].on
    IN  /\ At(t, "resumeRequest")
        /\ \/ /\ Exists(x)
              /\ \E n \in 0..Size : item' = [item EXCEPT ![x].offset = n, ![x].bytes = n]
           \/ UNCHANGED item
        /\ Done(t)
        /\ UNCHANGED <<enabled, closed, queue, active, cancels, disk, bounds>>

PassiveResponse(t) ==
    LET x == thread[t].on
    IN  /\ At(t, "response")
        /\ IF enabled /\ item[x].status = "negotiating" /\ item[x].token THEN Goto(t, "respond") ELSE Done(t)
        /\ UNCHANGED <<manager, disk, bounds>>

(* Accepting it replaces the worker that waits for it. *)
Respond(t) ==
    /\ At(t, "respond")
    /\ Spawn(t, thread[t].on, "connectSend")
    /\ UNCHANGED <<enabled, closed, item, queue, active, disk, bounds>>

(* Locate changes only fields that are not modelled, and stores its copy. *)
Locate(t, x) ==
    /\ Free(t)
    /\ item[x].status \in Ended /\ ~item[x].resumable
    /\ thread' = [thread EXCEPT ![t] = Saving(t, x, item[x], "idle")]
    /\ UNCHANGED <<manager, disk, bounds>>

RequestStep(t) ==
    \/ AddIncomingOffer(t) \/ QueueOutgoing(t) \/ QueuedCopy(t) \/ ResumeAccept(t)
    \/ ResumeRequest(t) \/ PassiveResponse(t) \/ Respond(t)

------------------------------------------------------------------------------
(* The sequential queue of outgoing transfers *)

(* mutant: an entry leaves the queue before the setting is looked at *)
StartNextDropsWhenOff(t) ==
    /\ At(t, "start")
    /\ IF active # None \/ queue = <<>>
         THEN Done(t) /\ UNCHANGED <<item, queue, active>>
         ELSE LET x == Head(queue) IN
              /\ queue' = Tail(queue)
              /\ IF item[x].status # "queued" THEN UNCHANGED <<item, active, thread>>
                 ELSE IF ~enabled THEN Done(t) /\ UNCHANGED <<item, active>>
                 ELSE /\ active' = x
                      /\ item' = [item EXCEPT ![x].status = "negotiating"]
                      /\ \E mode \in {"beginClassic", "beginPassive"} : Save(t, x, mode)
    /\ UNCHANGED <<enabled, closed, cancels, disk, bounds>>

(* startNextOutgoing; an entry that is not queued any more is passed over. *)
StartNext(t) ==
    /\ At(t, "start")
    /\ IF active # None \/ queue = <<>> \/ ~enabled
         THEN Done(t) /\ UNCHANGED <<item, queue, active>>
         ELSE LET x == Head(queue) IN
              /\ queue' = Tail(queue)
              /\ IF item[x].status # "queued"
                   THEN UNCHANGED <<item, active, thread>>
                   ELSE /\ active' = x
                        /\ item' = [item EXCEPT ![x].status = "negotiating"]
                        /\ \E mode \in {"beginClassic", "beginPassive"} : Save(t, x, mode)
    /\ UNCHANGED <<enabled, closed, cancels, disk, bounds>>

Negotiating(t) == item[thread[t].on].status = "negotiating"

(* Opens the listener, if there is an address to advertise and a free port. *)
BeginClassic(t) ==
    /\ At(t, "beginClassic")
    /\ IF Negotiating(t) THEN Goto(t, "listening") \/ Goto(t, "failed") ELSE Done(t)
    /\ UNCHANGED <<manager, disk, bounds>>

(* The last look at the setting and the status... *)
StillWanted(t) ==
    /\ At(t, "listening")
    /\ IF enabled /\ Negotiating(t) THEN Goto(t, "publish") \/ Goto(t, "failed") ELSE Done(t)
    /\ UNCHANGED <<manager, disk, bounds>>

(* ... and the port is published without another. *)
PublishPort(t) ==
    LET x == thread[t].on
    IN  /\ At(t, "publish")
        /\ item' = IF Exists(x) THEN [item EXCEPT ![x].status = "negotiating"] ELSE item
        /\ Goto(t, "offerClassic")
        /\ UNCHANGED <<enabled, closed, queue, active, cancels, disk, bounds>>

OfferClassic(t) ==
    /\ At(t, "offerClassic")
    /\ \/ Spawn(t, thread[t].on, "connectSend")
       \/ Goto(t, "failed") /\ UNCHANGED cancels
    /\ UNCHANGED <<enabled, closed, item, queue, active, disk, bounds>>

BeginPassive(t) ==
    LET x == thread[t].on
    IN  /\ At(t, "beginPassive")
        /\ IF Negotiating(t)
             THEN item' = [item EXCEPT ![x].token = FALSE] /\ Goto(t, "offerPassive")
             ELSE Done(t) /\ UNCHANGED item
        /\ UNCHANGED <<enabled, closed, queue, active, cancels, disk, bounds>>

(* The copy it stores was made when the token was. *)
OfferPassive(t) ==
    LET x == thread[t].on
    IN  /\ At(t, "offerPassive")
        /\ \/ /\ item' = IF Exists(x) THEN [item EXCEPT ![x].token = TRUE] ELSE item
              /\ thread' = [thread EXCEPT ![t] =
                     Saving(t, x, [item[x] EXCEPT !.status = "negotiating"], "passive")]
           \/ Goto(t, "failed") /\ UNCHANGED item
        /\ UNCHANGED <<enabled, closed, queue, active, cancels, disk, bounds>>

AwaitPassive(t) ==
    /\ At(t, "passive")
    /\ Spawn(t, thread[t].on, "awaitPassive")
    /\ UNCHANGED <<enabled, closed, item, queue, active, disk, bounds>>

(* A wait that was canceled ends without a word. *)
PassiveTimeout(t) ==
    /\ At(t, "awaitPassive")
    /\ IF Canceled(t) THEN Done(t) ELSE Goto(t, "failed")
    /\ UNCHANGED <<manager, disk, bounds>>

OutgoingStep(t) ==
    \/ StartNext(t) \/ BeginClassic(t) \/ StillWanted(t) \/ PublishPort(t)
    \/ OfferClassic(t) \/ BeginPassive(t) \/ OfferPassive(t) \/ AwaitPassive(t)

------------------------------------------------------------------------------
(* Receiving *)

AskResume(t) ==
    /\ At(t, "askResume")
    /\ Done(t) \/ Goto(t, "failed")
    /\ UNCHANGED <<manager, disk, bounds>>

(* beginReceive.  The peer's address is lost with the offers map in a restart. *)
BeginReceive(t) ==
    /\ At(t, "setup")
    /\ \/ item[thread[t].on].offer /\ Spawn(t, thread[t].on, "connectReceive")
       \/ Goto(t, "failed") /\ UNCHANGED cancels
    /\ UNCHANGED <<enabled, closed, item, queue, active, disk, bounds>>

Waiting(t) == At(t, "connectSend") \/ At(t, "connectReceive")

(* A dial or a listener that reached the peer; it reads the offset before it *)
(* marks the transfer.                                                       *)
Connected(t) ==
    /\ Waiting(t) /\ ~Canceled(t)
    /\ IF Exists(thread[t].on)
         THEN thread' = [thread EXCEPT ![t].at = "mark", ![t].pos = item[thread[t].on].offset]
         ELSE Done(t)
    /\ UNCHANGED <<manager, disk, bounds>>

ConnectFails(t) ==
    /\ Waiting(t)
    /\ Goto(t, "fail")
    /\ UNCHANGED <<manager, disk, bounds>>

MarkTransferring(t) ==
    LET x == thread[t].on
    IN  /\ At(t, "mark")
        /\ IF item[x].status \in {"negotiating", "connecting"}
             THEN /\ item' = [item EXCEPT ![x].status = "transferring"]
                  /\ Save(t, x, IF x \in Incoming THEN "openFile" ELSE "sending")
             ELSE Done(t) /\ UNCHANGED item
        /\ UNCHANGED <<enabled, closed, queue, active, cancels, disk, bounds>>

(* mutant: a resumed file may have any length *)
OpenAnyLength(t) ==
    LET x == thread[t].on
        pos == thread[t].pos
    IN  /\ At(t, "openFile")
        /\ partial' = IF partial[x] = NoFile THEN [partial EXCEPT ![x] = {}] ELSE partial
        /\ IF Canceled(t) \/ (pos = 0 /\ partial[x] # NoFile)
             THEN Goto(t, "fail")
             ELSE thread' = [thread EXCEPT ![t].at = "receiving", ![t].linked = TRUE]
        /\ UNCHANGED <<manager, dest, row, bounds>>

(* A fresh file must not exist; a resumed one must have the length asked for. *)
OpenFile(t) ==
    LET x == thread[t].on
        pos == thread[t].pos
    IN  /\ At(t, "openFile")
        /\ partial' = IF partial[x] = NoFile THEN [partial EXCEPT ![x] = {}] ELSE partial
        /\ IF Canceled(t) \/ (pos = 0 /\ partial[x] # NoFile) \/ (pos > 0 /\ Length(partial[x]) # pos)
             THEN Goto(t, "fail")
             ELSE thread' = [thread EXCEPT ![t].at = "receiving", ![t].linked = TRUE]
        /\ UNCHANGED <<manager, dest, row, bounds>>

Chunk(t) ==
    LET x == thread[t].on
        pos == thread[t].pos + 1
    IN  /\ At(t, "receiving") \/ At(t, "sending")
        /\ pos <= Size
        /\ partial' = IF thread[t].linked THEN [partial EXCEPT ![x] = @ \union {pos}] ELSE partial
        /\ thread' = [thread EXCEPT ![t].pos = pos,
                                    ![t].at = IF x \in Incoming THEN "received" ELSE "sent"]
        /\ UNCHANGED <<manager, dest, row, bounds>>

(* progress; once a second the copy is stored. *)
Progress(t) ==
    LET x == thread[t].on
        back == IF x \in Incoming THEN "receiving" ELSE "sending"
    IN  /\ At(t, "received") \/ At(t, "sent")
        /\ IF item[x].status = "transferring"
             THEN /\ item' = [item EXCEPT ![x].bytes = thread[t].pos]
                  /\ Goto(t, back) \/ Save(t, x, back)
             ELSE Goto(t, back) /\ UNCHANGED item
        /\ UNCHANGED <<enabled, closed, queue, active, cancels, disk, bounds>>

(* The connection, the file or the context ends before the last chunk. *)
TransferFails(t) ==
    /\ At(t, "receiving") \/ At(t, "sending")
    /\ Goto(t, "fail")
    /\ UNCHANGED <<manager, disk, bounds>>

TransferEnds(t) ==
    /\ At(t, "receiving") \/ At(t, "sending")
    /\ thread[t].pos = Size
    /\ IF At(t, "receiving") THEN ~Canceled(t) /\ Goto(t, "finalize") ELSE Goto(t, "complete")
    /\ UNCHANGED <<manager, disk, bounds>>

(* finalizePartial: the new name, then the end of the old one. *)
LinkDestination(t) ==
    LET x == thread[t].on
    IN  /\ At(t, "finalize")
        /\ IF dest[x] # NoFile \/ partial[x] = NoFile
             THEN Goto(t, "failed") /\ UNCHANGED dest
             ELSE dest' = [dest EXCEPT ![x] = partial[x]] /\ Goto(t, "unlink")
        /\ UNCHANGED <<manager, partial, row, bounds>>

UnlinkPartial(t) ==
    LET x == thread[t].on
    IN  /\ At(t, "unlink")
        /\ partial' = [partial EXCEPT ![x] = NoFile]
        /\ thread' = Unlinked(x, [thread EXCEPT ![t].at =
               IF partial[x] = NoFile THEN "failed" ELSE "complete"])
        /\ UNCHANGED <<manager, dest, row, bounds>>

ReceiveStep(t) == AskResume(t) \/ BeginReceive(t) \/ MarkTransferring(t) \/ OpenFile(t) \/ Progress(t)
                  \/ LinkDestination(t) \/ UnlinkPartial(t)

PeerStep(t) == Connected(t) \/ ConnectFails(t) \/ Chunk(t) \/ TransferFails(t) \/ TransferEnds(t)
               \/ PassiveTimeout(t)

------------------------------------------------------------------------------
(* The setting, shutdown and restart *)

(* What UpdateSettings looks at before it turns the feature off. *)
Busy ==
    \/ \E x \in Transfers : cancels[x] # None \/ item[x].status \in Active
    \/ active # None \/ queue # <<>>

TurnOn(t) ==
    /\ Free(t) /\ ~closed
    /\ enabled' = TRUE
    /\ UNCHANGED <<closed, item, queue, active, cancels, disk, thread, bounds>>

(* Without cancelActive: a check, then the setting. *)
TurnOff(t) ==
    /\ \/ Free(t) /\ enabled /\ ~Busy /\ Goto(t, "turnOff") /\ UNCHANGED enabled
       \/ At(t, "turnOff") /\ enabled' = FALSE /\ Done(t)
    /\ UNCHANGED <<closed, item, queue, active, cancels, disk, bounds>>

(* With cancelActive, and the same in Close, which ends the root context too. *)
TurnOffAndCancel(t) ==
    /\ Free(t) /\ enabled
    /\ enabled' = FALSE
    /\ Goto(t, "cancelAll")
    /\ UNCHANGED <<closed, item, queue, active, cancels, disk, bounds>>

Close(t) ==
    /\ Free(t) /\ ~closed
    /\ enabled' = FALSE
    /\ closed' = TRUE
    /\ Goto(t, "cancelAll")
    /\ UNCHANGED <<item, queue, active, cancels, disk, bounds>>

CancelAll(t) ==
    /\ At(t, "cancelAll")
    /\ thread' = [thread EXCEPT ![t] = [Idle EXCEPT !.todo = {x \in Transfers : item[x].status \in Active}]]
    /\ UNCHANGED <<manager, disk, bounds>>

CancelNext(t) ==
    /\ At(t, "idle") /\ thread[t].todo # {}
    /\ \E x \in thread[t].todo :
         IF item[x].status \in Active \union {"resumable"} THEN CancelLocked(t, x)
         ELSE /\ thread' = [thread EXCEPT ![t].todo = @ \ {x}]
              /\ UNCHANGED <<manager, disk, bounds>>

(* Only unfinished rows are read back; what was only in memory is gone. *)
Restored(x) ==
    LET r == row[x]
        resume == x \in Incoming /\ r.path /\ r.bytes > 0
    IN  IF r.status = "absent" \/ r.finished
          THEN IF item[x].status = "absent" THEN Unknown ELSE Removed
        ELSE IF r.status \in Active
          THEN [r EXCEPT !.status = IF resume THEN "resumable" ELSE "failed",
                         !.resumable = @ \/ resume, !.finished = ~resume,
                         !.offer = FALSE, !.token = FALSE]
        ELSE [r EXCEPT !.offer = FALSE, !.token = FALSE]

(* The program ends at any point and starts again. *)
Restart ==
    /\ crashes < MaxCrashes
    /\ crashes' = crashes + 1
    /\ enabled' = TRUE /\ closed' = FALSE
    /\ item' = [x \in Transfers |-> Restored(x)]
    /\ row' = [x \in Transfers |->
           IF row[x].status \in Active /\ ~row[x].finished THEN Persisted(x, Restored(x)) ELSE row[x]]
    /\ queue' = <<>> /\ active' = None
    /\ cancels' = [x \in Transfers |-> None]
    /\ thread' = [t \in Threads |-> Idle]
    /\ UNCHANGED <<partial, dest, retries, discarded>>

------------------------------------------------------------------------------
Call(t) ==
    \/ \E x \in Transfers :
           \/ \E request \in Requests(x) : Admit(t, x, request)
           \/ Accept(t, x) \/ Retry(t, x) \/ Cancel(t, x) \/ Decline(t, x)
           \/ DiscardPartial(t, x) \/ RemoveHistory(t, x) \/ Locate(t, x)
    \/ ClearHistory(t) \/ TurnOn(t) \/ TurnOffAndCancel(t) \/ Close(t)

(* What a goroutine does without waiting for a peer. *)
LocalStep(t) ==
    \/ EndStep(t) \/ RequestStep(t) \/ OutgoingStep(t) \/ ReceiveStep(t)
    \/ CancelAll(t) \/ CancelNext(t)

Next == Restart \/ \E t \in Threads : Call(t) \/ TurnOff(t) \/ LocalStep(t) \/ PeerStep(t)

SafetySpec == Init /\ [][Next]_vars

------------------------------------------------------------------------------
OnIt(x) == {t \in Threads : thread[t].on = x}

(* A transfer that waits for its turn is in the queue: no cancel, retry or    *)
(* late failure takes it out and leaves it "queued" (outgoingQueue).          *)
QueuedHasTurn ==
    \A x \in Outgoing : item[x].status = "queued" => \E i \in DOMAIN queue : queue[i] = x

(* The one sending slot can be freed: its transfer is one the user can cancel *)
(* or a goroutine is still busy with it (outgoingActive, advanceOutgoing).    *)
SlotCanBeFreed ==
    active # None => item[active].status \in Active \/ OnIt(active) # {}

(* A transfer that says it is transferring has a goroutine that will end it,  *)
(* whatever cancels, duplicate answers and late failures came in between.     *)
TransferringHasWorker ==
    \A x \in Transfers : item[x].status = "transferring" => OnIt(x) # {}

(* What says it is completed has the whole file under its final name, and no *)
(* other file gets that name, over cancels, resumes and restarts (receiveFile, *)
(* finalizePartial), unless the user discarded the partial file meanwhile.    *)
CompletedIsWhole ==
    \A x \in Incoming :
        /\ dest[x] \in {NoFile, Whole} \/ x \in discarded
        /\ item[x].status = "completed" => dest[x] = Whole
==============================================================================
