---------------------------- MODULE MessageStore ----------------------------
(***************************************************************************)
(* The write side of the message table (internal/storage/database.go): a   *)
(* buffer that WriteMessage fills, flushes by its own goroutine, by writers *)
(* that find it full and by every WriteMessageSync, direct inserts, bulk    *)
(* inserts of replayed history, and Close.                                  *)
(*                                                                          *)
(* A step ends at a lock, a channel operation or a database call.  closedMu *)
(* is held for a check alone, except in WriteMessage, where it spans the    *)
(* check and the send.  Database calls of one connection are atomic.        *)
(***************************************************************************)
EXTENDS Integers, Sequences, FiniteSets, Functions

CONSTANTS
    Writers,    \* goroutines that write: callback workers, calls of the frontend
    Loop,       \* the goroutine of flushLoop
    MsgIds,     \* IRCv3 msgids
    None,       \* no lock holder; a message without msgid
    BufferSize, \* capacity of writeBuffer
    MaxCalls,   \* bound: how many writes the writers make
    MaxFaults   \* bound: how many batch inserts fail

ASSUME NamesAssumption == None \notin Writers \union {Loop} \union MsgIds /\ Loop \notin Writers
ASSUME BoundsAssumption ==
    BufferSize \in Nat \ {0} /\ MaxCalls \in Nat /\ MaxFaults \in Nat

Threads == Writers \union {Loop}
Kinds   == {"buffered", "sync", "direct", "history"}

(* A message is numbered in the order of the calls. *)
Message == [n : 1..MaxCalls, by : Writers, kind : Kinds, id : MsgIds \union {None}]

VARIABLES
    buffer,      \* writeBuffer
    rows,        \* the messages table, in insertion order
    lock,        \* who holds s.mu
    closed,      \* s.closed
    stopped,     \* stopCh is closed
    dbOpen,      \* the database connection
    thread,      \* where each goroutine stands, the message it writes, the batch it drained
    closer,      \* where Close stands
    calls, faults,
    \* history
    accepted,    \* messages the buffer took
    shown,       \* messages whose WriteMessageSync returned nil while the storage was open
    failed       \* messages of batches whose insert failed

store   == <<buffer, rows, dbOpen>>
closing == <<closed, stopped, closer>>
history == <<accepted, shown, failed>>
vars    == <<store, lock, closing, thread, calls, faults, history>>

Resting == [at |-> "idle", msg |-> None, batch |-> <<>>, after |-> "idle", final |-> FALSE]

Init ==
    /\ buffer = <<>> /\ rows = <<>> /\ dbOpen = TRUE
    /\ lock = None
    /\ closed = FALSE /\ stopped = FALSE /\ closer = "no"
    /\ thread = [t \in Threads |-> Resting]
    /\ calls = 0 /\ faults = 0
    /\ accepted = {} /\ shown = {} /\ failed = {}

At(t, place)   == thread[t].at = place
Goto(t, place) == thread' = [thread EXCEPT ![t].at = place]
Done(t)        == thread' = [thread EXCEPT ![t] = Resting]
HasRoom        == Len(buffer) < BufferSize

(* flushBuffer, and where its caller goes on.  final: the flush of a closing loop. *)
FlushThen(t, place) == thread' = [thread EXCEPT ![t].at = "flush", ![t].after = place]
Flushed(t) ==
    thread' = [thread EXCEPT ![t].at = thread[t].after, ![t].batch = <<>>, ![t].final = FALSE]

------------------------------------------------------------------------------
(* The table *)

SameId(a, b)  == a.id = b.id /\ a.id # None
Has(table, m) == \E i \in DOMAIN table : SameId(table[i], m)

(* ON CONFLICT DO NOTHING: what is picked from the batch follows in its order.  *)
(* A row is passed over when the table has its msgid, or one picked before it.  *)
InsertBatch(batch) ==
    \E n \in 0..Len(batch) : \E pick \in [1..n -> DOMAIN batch] :
        /\ \A j, k \in 1..n : j < k => pick[j] < pick[k]
        /\ \A i \in DOMAIN batch :
              (\E k \in 1..n : pick[k] = i) <=>
                 /\ ~Has(rows, batch[i])
                 /\ ~\E k \in 1..n : pick[k] < i /\ SameId(batch[pick[k]], batch[i])
        /\ rows' = rows \o [k \in 1..n |-> batch[pick[k]]]

Stored(m) == \E i \in DOMAIN rows : rows[i] = m \/ SameId(rows[i], m)

------------------------------------------------------------------------------
(* flushBuffer *)

(* mutant: a flush leaves the work to the one that is already running *)
StartFlushUnlessBusy(t) ==
    /\ At(t, "flush")
    /\ IF lock # None \/ (closed /\ ~thread[t].final) \/ buffer = <<>>
         THEN Flushed(t) /\ UNCHANGED lock
         ELSE lock' = t /\ Goto(t, "drain")
    /\ UNCHANGED <<store, closing, calls, faults, history>>

StartFlush(t) ==
    /\ At(t, "flush") /\ lock = None
    /\ IF (closed /\ ~thread[t].final) \/ buffer = <<>>
         THEN Flushed(t) /\ UNCHANGED lock
         ELSE lock' = t /\ Goto(t, "drain")
    /\ UNCHANGED <<store, closing, calls, faults, history>>

Drain(t) ==
    /\ At(t, "drain") /\ buffer # <<>>
    /\ thread' = [thread EXCEPT ![t].batch = Append(@, Head(buffer))]
    /\ buffer' = Tail(buffer)
    /\ UNCHANGED <<rows, dbOpen, lock, closing, calls, faults, history>>

(* The storage may have been closed meanwhile: the batch is then dropped. *)
Drained(t) ==
    /\ At(t, "drain") /\ buffer = <<>>
    /\ IF ~closed \/ thread[t].final
         THEN Goto(t, "insert") /\ UNCHANGED lock
         ELSE Flushed(t) /\ lock' = None
    /\ UNCHANGED <<store, closing, calls, faults, history>>

(* mutant: the lock is given back only when the insert succeeded *)
InsertKeepsLock(t) ==
    /\ At(t, "insert")
    /\ \/ /\ dbOpen
          /\ InsertBatch(thread[t].batch) /\ lock' = None
          /\ UNCHANGED <<faults, failed>>
       \/ /\ ~dbOpen \/ faults < MaxFaults
          /\ failed' = failed \union Range(thread[t].batch)
          /\ faults' = IF dbOpen THEN faults + 1 ELSE faults
          /\ UNCHANGED <<rows, lock>>
    /\ Flushed(t)
    /\ UNCHANGED <<buffer, dbOpen, closing, calls, accepted, shown>>

(* The whole batch is lost when the statement fails. *)
Insert(t) ==
    /\ At(t, "insert")
    /\ \/ /\ dbOpen
          /\ InsertBatch(thread[t].batch)
          /\ UNCHANGED <<faults, failed>>
       \/ /\ ~dbOpen \/ faults < MaxFaults
          /\ failed' = failed \union Range(thread[t].batch)
          /\ faults' = IF dbOpen THEN faults + 1 ELSE faults
          /\ UNCHANGED rows
    /\ lock' = None
    /\ Flushed(t)
    /\ UNCHANGED <<buffer, dbOpen, closing, calls, accepted, shown>>

FlushStep(t) == StartFlush(t) \/ Drain(t) \/ Drained(t) \/ Insert(t)

------------------------------------------------------------------------------
(* The writers *)

(* Replayed history carries a msgid; what the client queues itself does not. *)
Write(w, kind, id) ==
    /\ At(w, "idle") /\ calls < MaxCalls
    /\ (id = None => kind # "history") /\ (id # None => kind \in {"sync", "history"})
    /\ calls' = calls + 1
    /\ thread' = [thread EXCEPT ![w].at = kind, ![w].msg =
                      [n |-> calls + 1, by |-> w, kind |-> kind, id |-> id]]
    /\ UNCHANGED <<store, lock, closing, faults, history>>

Put(w) ==
    /\ HasRoom
    /\ buffer' = Append(buffer, thread[w].msg)
    /\ accepted' = accepted \union {thread[w].msg}

(* WriteMessage: a full buffer is flushed once. *)
WriteMessage(w) ==
    /\ At(w, "buffered")
    /\ \/ closed /\ Done(w) /\ UNCHANGED <<buffer, accepted>>
       \/ ~closed /\ Put(w) /\ Done(w)
       \/ ~closed /\ ~HasRoom /\ FlushThen(w, "offerAgain") /\ UNCHANGED <<buffer, accepted>>
    /\ UNCHANGED <<rows, dbOpen, lock, closing, calls, faults, shown, failed>>

OfferAgain(w) ==
    /\ At(w, "offerAgain")
    /\ \/ ~closed /\ Put(w)
       \/ (closed \/ ~HasRoom) /\ UNCHANGED <<buffer, accepted>>
    /\ Done(w)
    /\ UNCHANGED <<rows, dbOpen, lock, closing, calls, faults, shown, failed>>

(* mutant: what is buffered is left where it is *)
WriteMessageSyncAlone(w) ==
    /\ At(w, "sync")
    /\ IF closed THEN Done(w) ELSE Goto(w, "put")
    /\ UNCHANGED <<store, lock, closing, calls, faults, history>>

(* WriteMessageSync: flush, put, flush; a full buffer is passed by. *)
WriteMessageSync(w) ==
    /\ At(w, "sync")
    /\ IF closed THEN Done(w) ELSE FlushThen(w, "put")
    /\ UNCHANGED <<store, lock, closing, calls, faults, history>>

PutSync(w) ==
    /\ At(w, "put")
    /\ \/ Put(w) /\ FlushThen(w, "return")
       \/ ~HasRoom /\ Goto(w, "create") /\ UNCHANGED <<buffer, accepted>>
    /\ UNCHANGED <<rows, dbOpen, lock, closing, calls, faults, shown, failed>>

ReturnSync(w) ==
    /\ At(w, "return")
    /\ shown' = IF closed THEN shown ELSE shown \union {thread[w].msg}
    /\ Done(w)
    /\ UNCHANGED <<store, lock, closing, calls, faults, accepted, failed>>

WriteMessageDirect(w) ==
    /\ At(w, "direct")
    /\ IF closed THEN Done(w) ELSE Goto(w, "create")
    /\ UNCHANGED <<store, lock, closing, calls, faults, history>>

(* CreateMessage: a plain insert, which a msgid that is there makes fail. *)
CreateMessage(w) ==
    LET m == thread[w].msg
        done == dbOpen /\ ~Has(rows, m)
    IN  /\ At(w, "create")
        /\ rows' = IF done THEN Append(rows, m) ELSE rows
        /\ shown' = IF done /\ m.kind = "sync" /\ ~closed THEN shown \union {m} ELSE shown
        /\ Done(w)
        /\ UNCHANGED <<buffer, dbOpen, lock, closing, calls, faults, accepted, failed>>

(* WriteHistoryMessages checks once, and inserts under the lock. *)
WriteHistoryMessages(w) ==
    /\ At(w, "history")
    /\ IF closed THEN Done(w) ELSE Goto(w, "bulk")
    /\ UNCHANGED <<store, lock, closing, calls, faults, history>>

BulkInsert(w) ==
    /\ At(w, "bulk") /\ lock = None
    /\ IF dbOpen THEN InsertBatch(<<thread[w].msg>>) ELSE UNCHANGED rows
    /\ Done(w)
    /\ UNCHANGED <<buffer, dbOpen, lock, closing, calls, faults, history>>

WriterStep(w) ==
    \/ WriteMessage(w) \/ OfferAgain(w)
    \/ WriteMessageSync(w) \/ PutSync(w) \/ ReturnSync(w)
    \/ WriteMessageDirect(w) \/ CreateMessage(w)
    \/ WriteHistoryMessages(w) \/ BulkInsert(w)

------------------------------------------------------------------------------
(* flushLoop and Close *)

(* The ticker's branch looks at closed, not at stopCh, and leaves at once. *)
Tick ==
    /\ At(Loop, "idle")
    /\ IF closed THEN Goto(Loop, "done") ELSE FlushThen(Loop, "idle")
    /\ UNCHANGED <<store, lock, closing, calls, faults, history>>

FinalFlush ==
    /\ At(Loop, "idle") /\ stopped
    /\ thread' = [thread EXCEPT ![Loop].at = "flush", ![Loop].after = "done", ![Loop].final = TRUE]
    /\ UNCHANGED <<store, lock, closing, calls, faults, history>>

Close ==
    /\ closer = "no"
    /\ closed' = TRUE /\ closer' = "marked"
    /\ UNCHANGED <<store, lock, stopped, thread, calls, faults, history>>

StopLoop ==
    /\ closer = "marked"
    /\ stopped' = TRUE /\ closer' = "waiting"
    /\ UNCHANGED <<store, lock, closed, thread, calls, faults, history>>

CloseDatabase ==
    /\ closer = "waiting" /\ At(Loop, "done")
    /\ dbOpen' = FALSE /\ closer' = "done"
    /\ UNCHANGED <<buffer, rows, lock, closed, stopped, thread, calls, faults, history>>

Next ==
    \/ \E t \in Threads : FlushStep(t)
    \/ \E w \in Writers : WriterStep(w) \/ \E kind \in Kinds, id \in MsgIds \union {None} : Write(w, kind, id)
    \/ Tick \/ FinalFlush \/ Close \/ StopLoop \/ CloseDatabase

SafetySpec == Init /\ [][Next]_vars

(* Goroutines run, and the ticker ticks.  Nobody has to write or to close. *)
Fairness ==
    /\ \A t \in Threads : WF_vars(FlushStep(t))
    /\ \A w \in Writers : WF_vars(WriterStep(w))
    /\ WF_vars(Tick) /\ WF_vars(FinalFlush) /\ WF_vars(StopLoop) /\ WF_vars(CloseDatabase)

Spec == SafetySpec /\ Fairness

------------------------------------------------------------------------------
(* "Use this for messages that need to be immediately available": when          *)
(* WriteMessageSync returns without an error its message can be read back, even  *)
(* if another goroutine's flush had taken it, unless the insert itself failed.   *)
SyncIsVisible == \A m \in shown : Stored(m) \/ m \in failed

(* While the storage is open, what one goroutine wrote through the buffer is in   *)
(* the table in the order it was written, whichever flush or insert put it there. *)
Ordered(m) == m.kind \in {"buffered", "sync"}
OrderKept ==
    ~closed => \A i, j \in DOMAIN rows :
        i < j /\ Ordered(rows[i]) /\ Ordered(rows[j]) /\ rows[i].by = rows[j].by => rows[i].n < rows[j].n

(* While the storage stays open, everything the buffer took gets into the table, *)
(* or its batch failed: no flush that gave up or failed holds up the others.      *)
AcceptedIsStored ==
    \A n \in 1..MaxCalls :
        (\E m \in accepted : m.n = n) ~> (closed \/ \E m \in accepted : m.n = n /\ (Stored(m) \/ m \in failed))
==============================================================================
