------------------------------ MODULE DccProofs ------------------------------
(***************************************************************************)
(* Theorems about DccTransfers, for every set of transfers, every number of *)
(* goroutines, chunks, retries and restarts.                               *)
(***************************************************************************)
EXTENDS DccTransfers, SequenceTheorems, WellFoundedInduction, TLAPS

Statuses == Active \union Ended \union {"absent", "removed", "resumable"}

InPlaces  == {"offer", "resumeAccept", "askResume", "setup", "connectReceive", "openFile",
              "receiving", "received", "finalize", "unlink"}
OutPlaces == {"queue", "queued", "resumeRequest", "response", "respond", "beginClassic", "beginPassive",
              "listening", "publish", "offerClassic", "offerPassive", "passive", "awaitPassive",
              "connectSend", "sending", "sent"}
OnPlaces  == InPlaces \union OutPlaces \union {"save", "advance", "start", "mark", "fail", "failed", "complete"}
Places    == OnPlaces \union {"idle", "turnOff", "cancelAll"}

ItemType ==
    [status : Statuses, resumable : BOOLEAN, bytes : 0..Size, offset : 0..Size, finished : BOOLEAN,
     path : BOOLEAN, offer : BOOLEAN, token : BOOLEAN]

ThreadType ==
    [at : Places, on : Transfers \union {None}, canceled : BOOLEAN, pos : 0..Size, linked : BOOLEAN,
     copy : ItemType, next : Places \ {"save"}, todo : SUBSET Transfers]

(* Where a goroutine is going: to the place behind a save. *)
Going(k) == IF k.at = "save" THEN k.next ELSE k.at

(* A goroutine has a transfer that fits what it does. *)
OnTrack(t) ==
    LET k == thread[t]
    IN  /\ k.at \in OnPlaces => k.on \in Transfers
        /\ Going(k) \in InPlaces => k.on \in Incoming
        /\ Going(k) \in OutPlaces => k.on \in Outgoing

TypeInv ==
    /\ item \in [Transfers -> ItemType] /\ row \in [Transfers -> ItemType]
    /\ queue \in Seq(Outgoing)
    /\ active \in Outgoing \union {None}
    /\ cancels \in [Transfers -> Threads \union {None}]
    /\ partial \in [Transfers -> SUBSET (0..Size)] /\ dest \in [Transfers -> SUBSET (0..Size)]
    /\ thread \in [Threads -> ThreadType]
    /\ \A t \in Threads : OnTrack(t)
    /\ \A x \in Outgoing : item[x].status # "offered"

(* Who has the transfer on the way to the end of its turn, and who transfers it. *)
Ending(t, x) == thread[t].on = x /\ Going(thread[t]) = "advance"

WorkPlaces == {"openFile", "receiving", "received", "finalize", "unlink", "sending", "sent",
               "fail", "failed", "complete"}
Working(t, x) == thread[t].on = x /\ Going(thread[t]) \in WorkPlaces

SlotInv ==
    active # None => item[active].status \in Active \/ \E t \in Threads : Ending(t, active)

WorkInv ==
    \A x \in Transfers : item[x].status = "transferring" => \E t \in Threads : Working(t, x)

Inv == TypeInv /\ QueuedHasTurn /\ SlotInv /\ WorkInv

------------------------------------------------------------------------------
(* The length of a file is the number of its last chunk *)

LEMMA LengthIsLast ==
    ASSUME NEW file \in SUBSET (0..Size)
    PROVE  /\ Length(file) \in file \union {0} /\ Length(file) \in 0..Size
           /\ \A m \in file : m <= Length(file)
<1> DEFINE all == file \union {0}
           less == OpToRel(<, Nat)
           missing == {Size - n : n \in all}
<1>1. Size \in Nat /\ all \subseteq 0..Size /\ \A n \in all : n \in Nat /\ Size - n \in Nat
  BY SizeAssumption
<1>2. missing \subseteq Nat /\ missing # {}
  BY <1>1
<1>3. IsWellFoundedOn(less, Nat)
  BY NatLessThanWellFounded
<1> HIDE DEF less
<1>4. PICK k \in missing : \A j \in missing : ~(<<j, k>> \in less)
  BY <1>2, <1>3, WFMin
<1>5. \A j \in missing : ~(j < k)
  BY <1>2, <1>4 DEF less, OpToRel
<1>6. PICK n \in all : k = Size - n
  BY DEF missing
<1>7. \A m \in file : m <= n
  <2> TAKE m \in file
  <2>1. Size - m \in missing
    OBVIOUS
  <2>2. ~(Size - m < Size - n)
    BY <1>5, <1>6, <2>1
  <2> QED
    BY <1>1, <2>2
<1>8. Length(file) \in all /\ \A m \in file : m <= Length(file)
  BY <1>7 DEF Length
<1> QED
  BY <1>1, <1>8

------------------------------------------------------------------------------
(* What a step does to the goroutines *)

Same(d) == thread'[d].at = thread[d].at /\ thread'[d].on = thread[d].on /\ thread'[d].next = thread[d].next

(* Only t moves; others may be canceled, or have their file removed. *)
Moves(t, at, on, next) ==
    /\ thread' \in [Threads -> ThreadType]
    /\ \A d \in Threads \ {t} : Same(d)
    /\ thread'[t].at = at /\ thread'[t].on = on /\ thread'[t].next = next

LEMMA UnknownType ==
    /\ Unknown \in ItemType /\ Unknown.status = "absent"
    /\ Removed \in ItemType /\ Removed.status = "removed"
    /\ Idle \in ThreadType /\ Idle.at = "idle" /\ Idle.on = None /\ Idle.next = "idle" /\ Idle.todo = {}
<1>1. 0 \in 0..Size
  BY SizeAssumption
<1>2. Unknown \in ItemType /\ Unknown.status = "absent"
  <2> DEFINE zero == 0
             no == FALSE
  <2>1. zero \in 0..Size /\ no \in BOOLEAN /\ "absent" \in Statuses
    BY <1>1 DEF Statuses
  <2>2. Unknown = [status |-> "absent", resumable |-> no, bytes |-> zero, offset |-> zero,
                   finished |-> no, path |-> no, offer |-> no, token |-> no]
    BY DEF Unknown
  <2> HIDE DEF zero, no
  <2> QED
    BY <2>1, <2>2 DEF ItemType
<1>3. Removed \in ItemType /\ Removed.status = "removed"
  <2>1. "removed" \in Statuses
    BY DEF Statuses
  <2> QED
    BY <1>2, <2>1 DEF Removed, ItemType
<1>4. Idle \in ThreadType
  <2>1. "idle" \in Places \ {"save"}
    BY DEF Places, OnPlaces, InPlaces, OutPlaces
  <2> DEFINE zero == 0
             no == FALSE
             none == {}
  <2>2. zero \in 0..Size /\ no \in BOOLEAN /\ none \in SUBSET Transfers
    BY <1>1
  <2>3. Idle = [at |-> "idle", on |-> None, canceled |-> no, pos |-> zero, linked |-> no,
                copy |-> Unknown, next |-> "idle", todo |-> none]
    BY DEF Idle
  <2> HIDE DEF zero, no, none
  <2> QED
    BY <1>2, <2>1, <2>2, <2>3 DEF ThreadType
<1> QED
  BY <1>2, <1>3, <1>4 DEF Idle

LEMMA GotoEffect ==
    ASSUME thread \in [Threads -> ThreadType], NEW t \in Threads, NEW place \in Places, Goto(t, place)
    PROVE  Moves(t, place, thread[t].on, thread[t].next)
  BY DEF Goto, Moves, Same, ThreadType

LEMMA DoneEffect ==
    ASSUME thread \in [Threads -> ThreadType], NEW t \in Threads, Done(t)
    PROVE  Moves(t, "idle", None, "idle")
<1> DEFINE todo == thread[t].todo
           r == [Idle EXCEPT !.todo = todo]
<1>1. todo \in SUBSET Transfers
  BY DEF ThreadType
<1> HIDE DEF todo
<1>2. r \in ThreadType /\ r.at = Idle.at /\ r.on = Idle.on /\ r.next = Idle.next
  BY <1>1, UnknownType DEF ThreadType
<1> HIDE DEF r
<1>3. thread' = [thread EXCEPT ![t] = r]
  BY DEF Done, Resting, r, todo
<1> QED
  BY <1>2, <1>3, UnknownType DEF Moves, Same

(* What t becomes when it saves. *)
LEMMA SavingType ==
    ASSUME thread \in [Threads -> ThreadType], NEW t \in Threads, NEW x \in Transfers,
           NEW copy \in ItemType, NEW next \in Places \ {"save"}
    PROVE  LET r == Saving(t, x, copy, next)
           IN  r \in ThreadType /\ r.at = "save" /\ r.on = x /\ r.next = next
<1>1. "save" \in Places
  BY DEF Places, OnPlaces
<1> QED
  BY <1>1 DEF Saving, ThreadType

(* The one that cancels them all has one transfer less to cancel. *)
LEMMA TodoType ==
    ASSUME NEW k \in ThreadType, NEW todo \in SUBSET Transfers
    PROVE  LET r == [k EXCEPT !.todo = todo]
           IN  r \in ThreadType /\ r.at = k.at /\ r.on = k.on /\ r.next = k.next
  BY DEF ThreadType

(* The whole record of t is replaced. *)
LEMMA RecordEffect ==
    ASSUME thread \in [Threads -> ThreadType], NEW t \in Threads, NEW r \in ThreadType,
           thread' = [thread EXCEPT ![t] = r]
    PROVE  Moves(t, r.at, r.on, r.next)
<1>1. thread' \in [Threads -> ThreadType] /\ thread'[t] = r
  OBVIOUS
<1>2. \A d \in Threads \ {t} : thread'[d] = thread[d]
  OBVIOUS
<1> QED
  BY <1>1, <1>2 DEF Moves, Same

SavedFields(k, r, place, next) == r \in ThreadType /\ r.at = place /\ r.on = k.on /\ r.next = next

LEMMA SavedRecord ==
    ASSUME NEW k \in ThreadType, NEW place \in Places, NEW copy \in ItemType, NEW next \in Places \ {"save"}
    PROVE  SavedFields(k, [k EXCEPT !.at = place, !.copy = copy, !.next = next], place, next)
  BY DEF SavedFields, ThreadType

LEMMA SavedEffect ==
    ASSUME thread \in [Threads -> ThreadType], NEW t \in Threads, NEW place \in Places, NEW copy \in ItemType,
           NEW next \in Places \ {"save"},
           thread' = [thread EXCEPT ![t].at = place, ![t].copy = copy, ![t].next = next]
    PROVE  Moves(t, place, thread[t].on, next)
<1> DEFINE r == [thread[t] EXCEPT !.at = place, !.copy = copy, !.next = next]
<1>1. thread' = [thread EXCEPT ![t] = r]
  OBVIOUS
<1>2. thread[t] \in ThreadType
  OBVIOUS
<1>3. SavedFields(thread[t], r, place, next)
  BY <1>2, SavedRecord
<1> HIDE DEF r
<1>4. Moves(t, r.at, r.on, r.next)
  BY <1>1, <1>3, RecordEffect DEF SavedFields
<1> QED
  BY <1>3, <1>4 DEF SavedFields

LEMMA SavingEffect ==
    ASSUME thread \in [Threads -> ThreadType], NEW t \in Threads, NEW x \in Transfers,
           NEW copy \in ItemType, NEW next \in Places \ {"save"},
           thread' = [thread EXCEPT ![t] = Saving(t, x, copy, next)]
    PROVE  Moves(t, "save", x, next)
<1> DEFINE r == Saving(t, x, copy, next)
<1>1. r \in ThreadType /\ r.at = "save" /\ r.on = x /\ r.next = next
  BY SavingType
<1> HIDE DEF r
<1>2. thread' = [thread EXCEPT ![t] = r]
  BY DEF r
<1> QED
  BY <1>1, <1>2 DEF Moves, Same

(* A context is canceled, a file removed. *)
LEMMA MarkedType ==
    ASSUME NEW k \in ThreadType
    PROVE  LET c == [k EXCEPT !.canceled = TRUE]
               u == [k EXCEPT !.linked = FALSE]
           IN  /\ c \in ThreadType /\ c.at = k.at /\ c.on = k.on /\ c.next = k.next
               /\ u \in ThreadType /\ u.at = k.at /\ u.on = k.on /\ u.next = k.next
<1> DEFINE yes == TRUE
           no == FALSE
           c == [k EXCEPT !.canceled = yes]
           u == [k EXCEPT !.linked = no]
<1>1. yes \in BOOLEAN /\ no \in BOOLEAN
  OBVIOUS
<1> HIDE DEF yes, no
<1>2. /\ c \in ThreadType /\ c.at = k.at /\ c.on = k.on /\ c.next = k.next
      /\ u \in ThreadType /\ u.at = k.at /\ u.on = k.on /\ u.next = k.next
  BY <1>1 DEF ThreadType
<1> QED
  BY <1>2 DEF yes, no

(* The contexts of a transfer's owner, then the open file of all who have it. *)
LEMMA OwnerCanceled ==
    ASSUME thread \in [Threads -> ThreadType], NEW t \in Threads, NEW x, NEW r \in ThreadType
    PROVE  LET base == OwnerEnded(t, x, r)
           IN  /\ base \in [Threads -> ThreadType] /\ base[t] = r
               /\ \A u \in Threads \ {t} :
                     base[u].at = thread[u].at /\ base[u].on = thread[u].on /\ base[u].next = thread[u].next
<1> DEFINE base == OwnerEnded(t, x, r)
<1>0. base = [u \in Threads |-> IF u = t THEN r
                               ELSE IF u \in Owner(x) THEN [thread[u] EXCEPT !.canceled = TRUE]
                               ELSE thread[u]]
  BY DEF OwnerEnded
<1> HIDE DEF base
<1>1. ASSUME NEW u \in Threads \ {t}
      PROVE  /\ base[u] \in ThreadType
             /\ base[u].at = thread[u].at /\ base[u].on = thread[u].on /\ base[u].next = thread[u].next
  <2>1. CASE base[u] = [thread[u] EXCEPT !.canceled = TRUE]
    BY <2>1, MarkedType
  <2>2. CASE base[u] = thread[u]
    BY <2>2
  <2> QED
    BY <1>0, <2>1, <2>2
<1>2. base[t] = r
  BY <1>0
<1>3. base \in [Threads -> ThreadType]
  BY <1>0, <1>1, <1>2
<1> QED
  BY <1>1, <1>2, <1>3 DEF base

LEMMA UnlinkedEffect ==
    ASSUME NEW base \in [Threads -> ThreadType], NEW x, thread' = Unlinked(x, base)
    PROVE  /\ thread' \in [Threads -> ThreadType]
           /\ \A u \in Threads :
                 thread'[u].at = base[u].at /\ thread'[u].on = base[u].on /\ thread'[u].next = base[u].next
<1>1. CASE thread' = base
  BY <1>1
<1>2. CASE thread' = [u \in Threads |-> IF base[u].on = x THEN [base[u] EXCEPT !.linked = FALSE] ELSE base[u]]
  <2>1. ASSUME NEW u \in Threads
        PROVE  /\ thread'[u] \in ThreadType
               /\ thread'[u].at = base[u].at /\ thread'[u].on = base[u].on /\ thread'[u].next = base[u].next
    <3>1. CASE thread'[u] = [base[u] EXCEPT !.linked = FALSE]
      BY <3>1, MarkedType
    <3>2. CASE thread'[u] = base[u]
      BY <3>2
    <3> QED
      BY <1>2, <3>1, <3>2
  <2> QED
    BY <1>2, <2>1
<1> QED
  BY <1>1, <1>2 DEF Unlinked

LEMMA EndOwnerEffect ==
    ASSUME thread \in [Threads -> ThreadType], NEW t \in Threads, NEW x, NEW r \in ThreadType,
           thread' = OwnerEnded(t, x, r)
    PROVE  Moves(t, r.at, r.on, r.next)
  BY OwnerCanceled DEF Moves, Same

LEMMA EndedEffect ==
    ASSUME thread \in [Threads -> ThreadType], NEW t \in Threads, NEW x, NEW r \in ThreadType,
           thread' = Unlinked(x, OwnerEnded(t, x, r))
    PROVE  Moves(t, r.at, r.on, r.next)
<1> DEFINE base == OwnerEnded(t, x, r)
<1>1. thread' = Unlinked(x, base)
  OBVIOUS
<1>2. /\ base \in [Threads -> ThreadType] /\ base[t] = r
      /\ \A u \in Threads \ {t} :
            base[u].at = thread[u].at /\ base[u].on = thread[u].on /\ base[u].next = thread[u].next
  BY OwnerCanceled
<1> HIDE DEF base
<1> QED
  BY <1>1, <1>2, UnlinkedEffect DEF Moves, Same

(* A goroutine starts a worker and rests, or goes on as the worker. *)
Starts(t, u, x, place) ==
    /\ thread' \in [Threads -> ThreadType]
    /\ \A d \in Threads \ {t, u} : Same(d)
    /\ thread'[u].at = place /\ thread'[u].on = x /\ thread'[u].next = "idle"
    /\ t # u => At(u, "idle") /\ thread'[t].at = "idle" /\ thread'[t].on = None /\ thread'[t].next = "idle"

LEMMA SpawnEffect ==
    ASSUME thread \in [Threads -> ThreadType], NEW t \in Threads, NEW x \in Transfers, NEW place \in Places,
           Spawn(t, x, place)
    PROVE  \E u \in Threads : Starts(t, u, x, place) /\ cancels' = [cancels EXCEPT ![x] = u]
<1> DEFINE worker == [Idle EXCEPT !.at = place, !.on = x]
           rest == [Idle EXCEPT !.todo = thread[t].todo]
<1>1. PICK u \in Threads :
          /\ (u = t /\ thread[t].todo = {}) \/ (u # t /\ Free(u))
          /\ cancels' = [cancels EXCEPT ![x] = u]
          /\ thread' = [v \in Threads |->
               IF v = u THEN worker
               ELSE IF v = t THEN rest
               ELSE IF v \in Owner(x) THEN [thread[v] EXCEPT !.canceled = TRUE]
               ELSE thread[v]]
  BY DEF Spawn, Resting
<1>2. worker \in ThreadType /\ worker.at = place /\ worker.on = x /\ worker.next = "idle"
  BY UnknownType DEF ThreadType
<1>3. rest \in ThreadType /\ rest.at = "idle" /\ rest.on = None /\ rest.next = "idle"
  <2>1. thread[t].todo \in SUBSET Transfers
    BY DEF ThreadType
  <2> QED
    BY <2>1, UnknownType, TodoType
<1> HIDE DEF worker, rest
<1>4. ASSUME NEW v \in Threads \ {t, u}
      PROVE  thread'[v] \in ThreadType /\ Same(v)
  <2>1. CASE thread'[v] = [thread[v] EXCEPT !.canceled = TRUE]
    BY <2>1, MarkedType DEF Same
  <2>2. CASE thread'[v] = thread[v]
    BY <2>2 DEF Same
  <2> QED
    BY <1>1, <2>1, <2>2
<1>5. thread'[u] = worker /\ (t # u => thread'[t] = rest)
  BY <1>1
<1>6. \A v \in Threads : thread'[v] \in ThreadType
  BY <1>2, <1>3, <1>4, <1>5
<1>7. thread' \in [Threads -> ThreadType]
  BY <1>1, <1>6
<1> QED
  BY <1>1, <1>2, <1>3, <1>4, <1>5, <1>7 DEF Starts, Free

------------------------------------------------------------------------------
(* What a step has to show for the transfers and the goroutines it touches *)

Frame(moved) ==
    /\ thread' \in [Threads -> ThreadType]
    /\ \A d \in Threads \ moved : Same(d)
    /\ \A d \in moved : OnTrack(d)'

Store ==
    /\ row \in [Transfers -> ItemType]
    /\ cancels \in [Transfers -> Threads \union {None}]
    /\ partial \in [Transfers -> SUBSET (0..Size)] /\ dest \in [Transfers -> SUBSET (0..Size)]

LEMMA SameGoes ==
    ASSUME NEW d \in Threads, Same(d)
    PROVE  Going(thread'[d]) = Going(thread[d]) /\ (OnTrack(d) => OnTrack(d)')
  BY DEF Same, Going, OnTrack

LEMMA InvStays ==
    ASSUME Inv, Store', NEW moved \in SUBSET Threads, Frame(moved),
           item' \in [Transfers -> ItemType], queue' \in Seq(Outgoing), active' \in Outgoing \union {None},
           \A y \in Outgoing : item'[y].status # "offered",
           QueuedHasTurn',
           active' # None =>
               \/ item'[active'].status \in Active \/ \E d \in moved : Ending(d, active)'
               \/ active' = active /\ item[active].status \notin Active /\ \A d \in moved : ~Ending(d, active),
           \A y \in Transfers : item'[y].status = "transferring" =>
               \/ \E d \in moved : Working(d, y)'
               \/ item[y].status = "transferring" /\ \A d \in moved : ~Working(d, y)
    PROVE  Inv'
<1>1. \A d \in Threads : OnTrack(d)'
  BY SameGoes DEF Frame, Inv, TypeInv
<1>2. TypeInv'
  BY <1>1 DEF TypeInv, Store, Frame
<1>3. \A d \in Threads \ moved : Going(thread'[d]) = Going(thread[d]) /\ thread'[d].on = thread[d].on
  BY SameGoes DEF Frame, Same
<1>4. SlotInv'
  <2> SUFFICES ASSUME active' # None, item'[active'].status \notin Active, \A d \in moved : ~Ending(d, active)'
               PROVE  \E d \in Threads : Ending(d, active)'
    BY DEF SlotInv
  <2>1. active' = active /\ item[active].status \notin Active /\ \A d \in moved : ~Ending(d, active)
    OBVIOUS
  <2>2. PICK d \in Threads \ moved : Ending(d, active)
    BY <2>1 DEF Inv, SlotInv
  <2> QED
    BY <1>3, <2>1, <2>2 DEF Ending
<1>5. WorkInv'
  <2> SUFFICES ASSUME NEW y \in Transfers, item'[y].status = "transferring", \A d \in moved : ~Working(d, y)'
               PROVE  \E d \in Threads : Working(d, y)'
    BY DEF WorkInv
  <2>1. item[y].status = "transferring" /\ \A d \in moved : ~Working(d, y)
    OBVIOUS
  <2>2. PICK d \in Threads \ moved : Working(d, y)
    BY <2>1 DEF Inv, WorkInv
  <2> QED
    BY <1>3, <2>2 DEF Working
<1> QED
  BY <1>2, <1>4, <1>5 DEF Inv

(* Nothing is asked of the transfers where only goroutines move that neither    *)
(* end nor transfer one.                                                       *)
LEMMA OnlyThreads ==
    ASSUME Inv, Store', NEW moved \in SUBSET Threads, Frame(moved), UNCHANGED <<item, queue, active>>,
           \A d \in moved : Ending(d, active) => \E e \in moved : Ending(e, active)',
           \A d \in moved, y \in Transfers :
               Working(d, y) => item[y].status # "transferring" \/ \E e \in moved : Working(e, y)'
    PROVE  Inv'
<1>1. QueuedHasTurn'
  BY DEF Inv, QueuedHasTurn
<1>2. /\ item' \in [Transfers -> ItemType] /\ queue' \in Seq(Outgoing) /\ active' \in Outgoing \union {None}
      /\ \A y \in Outgoing : item'[y].status # "offered"
  BY DEF Inv, TypeInv
<1>3. active' # None =>
               \/ item'[active'].status \in Active \/ \E d \in moved : Ending(d, active)'
               \/ active' = active /\ item[active].status \notin Active /\ \A d \in moved : ~Ending(d, active)
  OBVIOUS
<1>4. \A y \in Transfers : item'[y].status = "transferring" =>
               \/ \E d \in moved : Working(d, y)'
               \/ item[y].status = "transferring" /\ \A d \in moved : ~Working(d, y)
  OBVIOUS
<1> QED
  BY <1>1, <1>2, <1>3, <1>4, InvStays

------------------------------------------------------------------------------
(* Steps of one goroutine that leave the manager's transfers alone *)

LEMMA TypedThread ==
    ASSUME Inv, NEW t \in Threads
    PROVE  /\ thread \in [Threads -> ThreadType] /\ thread[t] \in ThreadType /\ OnTrack(t)
           /\ thread[t].at \in Places /\ thread[t].next \in Places \ {"save"} /\ thread[t].copy \in ItemType
           /\ thread[t].pos \in 0..Size /\ thread[t].todo \in SUBSET Transfers
           /\ thread[t].on \in Transfers \union {None}
  BY DEF Inv, TypeInv, ThreadType

(* It goes on with its transfer. *)
LEMMA GoesOn ==
    ASSUME Inv, Store', NEW t \in Threads, NEW place \in OnPlaces \ {"save"}, NEW next,
           Moves(t, place, thread[t].on, next), UNCHANGED <<item, queue, active>>,
           thread[t].at \in OnPlaces,
           place \in InPlaces => Going(thread[t]) \in InPlaces,
           place \in OutPlaces => Going(thread[t]) \in OutPlaces,
           Going(thread[t]) \in WorkPlaces => place \in WorkPlaces,
           Going(thread[t]) = "advance" => place = "advance"
    PROVE  Inv'
<1>1. OnTrack(t)
  BY TypedThread
<1>2. Going(thread'[t]) = place /\ thread'[t].on = thread[t].on /\ thread'[t].at \in OnPlaces
  BY DEF Moves, Going
<1>3. OnTrack(t)'
  BY <1>1, <1>2 DEF OnTrack
<1>4. Frame({t})
  BY <1>3 DEF Frame, Moves
<1> QED
  BY <1>2, <1>4, OnlyThreads DEF Ending, Working

LEMMA Rests ==
    ASSUME Inv, Store', NEW t \in Threads, Moves(t, "idle", None, "idle"), UNCHANGED <<item, queue, active>>,
           Going(thread[t]) # "advance",
           Going(thread[t]) \in WorkPlaces => item[thread[t].on].status # "transferring"
    PROVE  Inv'
<1>1. OnTrack(t)'
  BY DEF OnTrack, Moves, Going, OnPlaces, InPlaces, OutPlaces
<1>2. Frame({t})
  BY <1>1 DEF Frame, Moves
<1> QED
  BY <1>2, OnlyThreads DEF Ending, Working

(* An idle goroutine begins something. *)
LEMMA Begins ==
    ASSUME Inv, Store', NEW t \in Threads, NEW at, NEW x, NEW next, Moves(t, at, x, next),
           UNCHANGED <<item, queue, active>>,
           thread[t].at \in {"idle", "turnOff", "cancelAll"}, OnTrack(t)'
    PROVE  Inv'
<1>1. Frame({t})
  BY DEF Frame, Moves
<1> QED
  BY <1>1, OnlyThreads DEF Ending, Working, Going, WorkPlaces

(* The store as it is where only the goroutines and the manager change. *)
LEMMA SameStore ==
    ASSUME Inv, UNCHANGED <<row, cancels, partial, dest>>
    PROVE  Store'
  BY DEF Inv, TypeInv, Store

(* The places by name *)
LEMMA GotoStep ==
    ASSUME Inv, NEW t \in Threads, NEW place \in OnPlaces \ {"save"}, Goto(t, place),
           UNCHANGED <<item, queue, active, row, cancels, partial, dest>>,
           thread[t].at \in OnPlaces \ {"save", "advance"},
           place \in InPlaces => thread[t].at \in InPlaces,
           place \in OutPlaces => thread[t].at \in OutPlaces,
           thread[t].at \in WorkPlaces => place \in WorkPlaces
    PROVE  Inv'
<1>1. Moves(t, place, thread[t].on, thread[t].next)
  BY TypedThread, GotoEffect DEF Places
<1>2. Going(thread[t]) = thread[t].at
  BY DEF Going
<1> QED
  BY <1>1, <1>2, SameStore, GoesOn

LEMMA DoneStep ==
    ASSUME Inv, NEW t \in Threads, Done(t),
           UNCHANGED <<item, queue, active, row, cancels, partial, dest>>,
           thread[t].at \notin {"save", "advance"},
           thread[t].at \in WorkPlaces => item[thread[t].on].status # "transferring"
    PROVE  Inv'
<1>1. Moves(t, "idle", None, "idle")
  BY TypedThread, DoneEffect
<1> QED
  BY <1>1, SameStore, Rests DEF Going

LEMMA ResumeAcceptStep ==
    ASSUME Inv, NEW t \in Threads, ResumeAccept(t)
    PROVE  Inv'
<1>1. thread[t].at = "resumeAccept" /\ UNCHANGED <<item, queue, active, row, cancels, partial, dest>>
  BY DEF ResumeAccept, At, manager, disk
<1>2. CASE Goto(t, "setup")
  BY <1>1, <1>2, GotoStep DEF OnPlaces, InPlaces, OutPlaces, WorkPlaces
<1>3. CASE Done(t)
  BY <1>1, <1>3, DoneStep DEF WorkPlaces
<1> QED
  BY <1>2, <1>3 DEF ResumeAccept

LEMMA PassiveResponseStep ==
    ASSUME Inv, NEW t \in Threads, PassiveResponse(t)
    PROVE  Inv'
<1>1. thread[t].at = "response" /\ UNCHANGED <<item, queue, active, row, cancels, partial, dest>>
  BY DEF PassiveResponse, At, manager, disk
<1>2. CASE Goto(t, "respond")
  BY <1>1, <1>2, GotoStep DEF OnPlaces, InPlaces, OutPlaces, WorkPlaces
<1>3. CASE Done(t)
  BY <1>1, <1>3, DoneStep DEF WorkPlaces
<1> QED
  BY <1>2, <1>3 DEF PassiveResponse

LEMMA ClassicStep ==
    ASSUME Inv, NEW t \in Threads, BeginClassic(t) \/ StillWanted(t) \/ PassiveTimeout(t) \/ AskResume(t)
    PROVE  Inv'
<1>1. /\ thread[t].at \in {"beginClassic", "listening", "awaitPassive", "askResume"}
      /\ UNCHANGED <<item, queue, active, row, cancels, partial, dest>>
  BY DEF BeginClassic, StillWanted, PassiveTimeout, AskResume, At, manager, disk
<1>2. CASE Goto(t, "listening") /\ thread[t].at = "beginClassic"
  BY <1>1, <1>2, GotoStep DEF OnPlaces, InPlaces, OutPlaces, WorkPlaces
<1>3. CASE Goto(t, "publish") /\ thread[t].at = "listening"
  BY <1>1, <1>3, GotoStep DEF OnPlaces, InPlaces, OutPlaces, WorkPlaces
<1>4. CASE Goto(t, "failed")
  BY <1>1, <1>4, GotoStep DEF OnPlaces, InPlaces, OutPlaces, WorkPlaces
<1>5. CASE Done(t)
  BY <1>1, <1>5, DoneStep DEF WorkPlaces
<1> QED
  BY <1>2, <1>3, <1>4, <1>5 DEF BeginClassic, StillWanted, PassiveTimeout, AskResume, At

LEMMA PeerFailsStep ==
    ASSUME Inv, NEW t \in Threads, ConnectFails(t) \/ TransferFails(t)
    PROVE  Inv'
<1>1. /\ thread[t].at \in {"connectSend", "connectReceive", "receiving", "sending"} /\ Goto(t, "fail")
      /\ UNCHANGED <<item, queue, active, row, cancels, partial, dest>>
  BY DEF ConnectFails, TransferFails, Waiting, At, manager, disk
<1> QED
  BY <1>1, GotoStep DEF OnPlaces, InPlaces, OutPlaces, WorkPlaces

LEMMA TransferEndsStep ==
    ASSUME Inv, NEW t \in Threads, TransferEnds(t)
    PROVE  Inv'
<1>1. UNCHANGED <<item, queue, active, row, cancels, partial, dest>>
  BY DEF TransferEnds, manager, disk
<1>2. CASE thread[t].at = "receiving" /\ Goto(t, "finalize")
  BY <1>1, <1>2, GotoStep DEF OnPlaces, InPlaces, OutPlaces, WorkPlaces
<1>3. CASE thread[t].at = "sending" /\ Goto(t, "complete")
  BY <1>1, <1>3, GotoStep DEF OnPlaces, InPlaces, OutPlaces, WorkPlaces
<1> QED
  BY <1>2, <1>3 DEF TransferEnds, At

LEMMA ConnectedStep ==
    ASSUME Inv, NEW t \in Threads, Connected(t)
    PROVE  Inv'
<1>1. /\ thread[t].at \in {"connectSend", "connectReceive"}
      /\ UNCHANGED <<item, queue, active, row, cancels, partial, dest>>
  BY DEF Connected, Waiting, At, manager, disk
<1>2. CASE Exists(thread[t].on) /\ thread' = [thread EXCEPT ![t].at = "mark", ![t].pos = item[thread[t].on].offset]
  <2> DEFINE pos == item[thread[t].on].offset
  <2>1. thread[t].on \in Transfers
    BY <1>1, TypedThread DEF OnTrack, OnPlaces, InPlaces, OutPlaces
  <2>2. pos \in 0..Size
    BY <2>1 DEF Inv, TypeInv, ItemType
  <2>3. thread' = [thread EXCEPT ![t].at = "mark", ![t].pos = pos]
    BY <1>2
  <2> HIDE DEF pos
  <2>4. Moves(t, "mark", thread[t].on, thread[t].next)
    BY <2>2, <2>3, TypedThread DEF Moves, Same, ThreadType, Places, OnPlaces
  <2> QED
    BY <1>1, <2>4, SameStore, GoesOn DEF OnPlaces, InPlaces, OutPlaces, WorkPlaces, Going
<1>3. CASE Done(t)
  BY <1>1, <1>3, DoneStep DEF WorkPlaces
<1> QED
  BY <1>2, <1>3 DEF Connected

LEMMA OpenFileStep ==
    ASSUME Inv, NEW t \in Threads, OpenFile(t)
    PROVE  Inv'
<1> DEFINE x == thread[t].on
<1>1. thread[t].at = "openFile" /\ UNCHANGED <<item, queue, active, row, cancels, dest>>
  BY DEF OpenFile, At, manager
<1>2. Store'
  <2>1. partial' = partial \/ partial' = [partial EXCEPT ![x] = {}]
    BY DEF OpenFile
  <2> QED
    BY <1>1, <2>1 DEF Inv, TypeInv, Store
<1>3. CASE Goto(t, "fail")
  <2>1. Moves(t, "fail", thread[t].on, thread[t].next)
    BY <1>3, TypedThread, GotoEffect DEF Places, OnPlaces
  <2> QED
    BY <1>1, <1>2, <2>1, GoesOn DEF OnPlaces, InPlaces, OutPlaces, WorkPlaces, Going
<1>4. CASE thread' = [thread EXCEPT ![t].at = "receiving", ![t].linked = TRUE]
  <2> DEFINE yes == TRUE
             place == "receiving"
  <2>1. /\ yes \in BOOLEAN /\ place \in Places
        /\ thread' = [thread EXCEPT ![t].at = place, ![t].linked = yes]
    BY <1>4 DEF Places, OnPlaces, InPlaces
  <2> HIDE DEF yes, place
  <2>2. Moves(t, place, thread[t].on, thread[t].next)
    BY <2>1, TypedThread DEF Moves, Same, ThreadType
  <2> USE DEF place
  <2> QED
    BY <1>1, <1>2, <2>2, GoesOn DEF OnPlaces, InPlaces, OutPlaces, WorkPlaces, Going
<1> QED
  BY <1>3, <1>4 DEF OpenFile

LEMMA ChunkStep ==
    ASSUME Inv, NEW t \in Threads, Chunk(t)
    PROVE  Inv'
<1> DEFINE x == thread[t].on
           pos == thread[t].pos + 1
           place == IF x \in Incoming THEN "received" ELSE "sent"
<1>1. /\ thread[t].at \in {"receiving", "sending"} /\ UNCHANGED <<item, queue, active, row, cancels, dest>>
      /\ thread' = [thread EXCEPT ![t].pos = pos, ![t].at = place]
  BY DEF Chunk, At, manager
<1>2. pos \in 0..Size
  BY TypedThread, SizeAssumption DEF Chunk
<1>3. Store'
  <2>1. partial' = partial \/ (x \in Transfers /\ partial' = [partial EXCEPT ![x] = @ \union {pos}])
    BY <1>1, TypedThread DEF Chunk, OnTrack, OnPlaces, InPlaces, OutPlaces
  <2> HIDE DEF pos
  <2>2. partial' \in [Transfers -> SUBSET (0..Size)]
    BY <1>2, <2>1 DEF Inv, TypeInv
  <2> QED
    BY <1>1, <2>2 DEF Inv, TypeInv, Store
<1>4. /\ place \in {"received", "sent"} /\ place \in Places
      /\ thread[t].at = "receiving" => place = "received"
      /\ thread[t].at = "sending" => place = "sent"
  BY <1>1, TypedThread, DirectionsAssumption DEF OnTrack, Going, InPlaces, OutPlaces, Places, OnPlaces
<1> HIDE DEF pos, place
<1>5. Moves(t, place, thread[t].on, thread[t].next)
  BY <1>1, <1>2, <1>4, TypedThread DEF Moves, Same, ThreadType
<1> QED
  BY <1>1, <1>3, <1>4, <1>5, GoesOn DEF OnPlaces, InPlaces, OutPlaces, WorkPlaces, Going

LEMMA LinkDestinationStep ==
    ASSUME Inv, NEW t \in Threads, LinkDestination(t)
    PROVE  Inv'
<1> DEFINE x == thread[t].on
<1>1. thread[t].at = "finalize" /\ UNCHANGED <<item, queue, active, row, cancels, partial>>
  BY DEF LinkDestination, At, manager
<1>2. CASE Goto(t, "failed") /\ UNCHANGED dest
  BY <1>1, <1>2, GotoStep DEF OnPlaces, InPlaces, OutPlaces, WorkPlaces
<1>3. CASE dest' = [dest EXCEPT ![x] = partial[x]] /\ Goto(t, "unlink")
  <2>1. x \in Transfers
    BY <1>1, TypedThread DEF OnTrack, OnPlaces, InPlaces
  <2>2. Store'
    BY <1>1, <1>3, <2>1 DEF Inv, TypeInv, Store
  <2>3. Moves(t, "unlink", thread[t].on, thread[t].next)
    BY <1>3, TypedThread, GotoEffect DEF Places, OnPlaces, InPlaces
  <2> QED
    BY <1>1, <2>2, <2>3, GoesOn DEF OnPlaces, InPlaces, OutPlaces, WorkPlaces, Going
<1> QED
  BY <1>2, <1>3 DEF LinkDestination

LEMMA RemovedFileType ==
    ASSUME Inv, NEW x
    PROVE  [partial EXCEPT ![x] = NoFile] \in [Transfers -> SUBSET (0..Size)]
<1>1. NoFile \in SUBSET (0..Size)
  BY SizeAssumption DEF NoFile
<1> QED
  BY <1>1 DEF Inv, TypeInv

LEMMA UnlinkPartialStep ==
    ASSUME Inv, NEW t \in Threads, UnlinkPartial(t)
    PROVE  Inv'
<1> DEFINE x == thread[t].on
           place == IF partial[x] = NoFile THEN "failed" ELSE "complete"
           base == [thread EXCEPT ![t].at = place]
<1>1. /\ thread[t].at = "unlink" /\ UNCHANGED <<item, queue, active, row, cancels, dest>>
      /\ partial' = [partial EXCEPT ![x] = NoFile] /\ thread' = Unlinked(x, base)
  BY DEF UnlinkPartial, At, manager
<1>2. Store'
  BY <1>1, RemovedFileType DEF Inv, TypeInv, Store
<1>3. place \in Places /\ place \in {"failed", "complete"}
  BY DEF Places, OnPlaces
<1> HIDE DEF place, x
<1>4. /\ base \in [Threads -> ThreadType] /\ base[t].at = place /\ base[t].on = thread[t].on /\ base[t].next = thread[t].next
      /\ \A d \in Threads \ {t} : base[d] = thread[d]
  BY <1>3, TypedThread DEF ThreadType
<1> HIDE DEF base
<1>5. Moves(t, place, thread[t].on, thread[t].next)
  BY <1>1, <1>4, UnlinkedEffect DEF Moves, Same
<1> QED
  BY <1>1, <1>2, <1>3, <1>5, GoesOn DEF OnPlaces, InPlaces, OutPlaces, WorkPlaces, Going

LEMMA SaveStepInv ==
    ASSUME Inv, NEW t \in Threads, SaveStep(t)
    PROVE  Inv'
<1> DEFINE x == thread[t].on
           next == thread[t].next
<1>1. /\ thread[t].at = "save" /\ UNCHANGED <<item, queue, active, cancels, partial, dest>>
      /\ row' = [row EXCEPT ![x] = Persisted(x, thread[t].copy)]
      /\ x \in Transfers /\ Going(thread[t]) = next
  BY TypedThread DEF SaveStep, At, manager, OnTrack, OnPlaces, Going
<1>2. Store'
  <2>1. Persisted(x, thread[t].copy) \in ItemType
    BY <1>1, TypedThread, UnknownType DEF Persisted, Inv, TypeInv
  <2> QED
    BY <1>1, <2>1 DEF Inv, TypeInv, Store
<1>3. CASE next = "idle"
  <2>1. Moves(t, "idle", None, "idle")
    BY <1>3, TypedThread, DoneEffect DEF SaveStep
  <2> QED
    BY <1>1, <1>2, <1>3, <2>1, Rests DEF WorkPlaces
<1>4. CASE next # "idle"
  <2> DEFINE none == "idle"
  <2>1. thread' = [thread EXCEPT ![t].at = next, ![t].copy = Unknown, ![t].next = none]
    BY <1>4 DEF SaveStep
  <2>2. none \in Places \ {"save"} /\ Unknown \in ItemType /\ next \in Places \ {"save"}
    BY TypedThread, UnknownType DEF Places
  <2> HIDE DEF none, next
  <2>3. Moves(t, next, thread[t].on, none)
    BY <2>1, <2>2, TypedThread, SavedEffect
  <2>4. CASE next \in OnPlaces
    BY <1>1, <1>2, <2>2, <2>3, <2>4, GoesOn DEF OnPlaces
  <2>5. CASE next \in {"turnOff", "cancelAll"}
    <3>1. OnTrack(t)'
      BY <2>3, <2>5 DEF OnTrack, Moves, Going, OnPlaces, InPlaces, OutPlaces
    <3>2. Frame({t})
      BY <2>3, <3>1 DEF Frame, Moves
    <3> QED
      BY <1>1, <1>2, <2>5, <3>2, OnlyThreads DEF Ending, Working, WorkPlaces
  <2> QED
    BY <1>4, <2>2, <2>4, <2>5 DEF Places
<1> QED
  BY <1>3, <1>4

LEMMA QueuedCopyStep ==
    ASSUME Inv, NEW t \in Threads, QueuedCopy(t)
    PROVE  Inv'
<1> DEFINE x == thread[t].on
<1>1. thread[t].at = "queued" /\ UNCHANGED <<item, queue, active, row, cancels, partial, dest>>
  BY DEF QueuedCopy, At, manager, disk
<1>2. x \in Outgoing /\ x \in Transfers /\ item[x] \in ItemType /\ "start" \in Places \ {"save"}
  BY <1>1, TypedThread DEF OnTrack, Going, OutPlaces, Transfers, Inv, TypeInv, Places, OnPlaces
<1>3. CASE thread' = [thread EXCEPT ![t] = Saving(t, x, item[x], "start")]
  <2>1. Moves(t, "save", x, "start")
    BY <1>2, <1>3, TypedThread, SavingEffect
  <2>2. OnTrack(t)' /\ Going(thread[t]) = "queued"
    BY <1>1, <1>2, <2>1 DEF OnTrack, Moves, Going, InPlaces, OutPlaces
  <2>3. Frame({t})
    BY <2>1, <2>2 DEF Frame, Moves
  <2> QED
    BY <1>1, <2>2, <2>3, SameStore, OnlyThreads DEF Ending, Working, WorkPlaces
<1>4. CASE Goto(t, "start")
  BY <1>1, <1>4, GotoStep DEF OnPlaces, InPlaces, OutPlaces, WorkPlaces
<1> QED
  BY <1>3, <1>4 DEF QueuedCopy

LEMMA LocateStep ==
    ASSUME Inv, NEW t \in Threads, NEW x \in Transfers, Locate(t, x)
    PROVE  Inv'
<1>1. /\ thread[t].at = "idle" /\ UNCHANGED <<item, queue, active, row, cancels, partial, dest>>
      /\ thread' = [thread EXCEPT ![t] = Saving(t, x, item[x], "idle")]
  BY DEF Locate, Free, At, manager, disk
<1>2. item[x] \in ItemType /\ "idle" \in Places \ {"save"}
  BY DEF Inv, TypeInv, Places
<1>3. Moves(t, "save", x, "idle")
  BY <1>1, <1>2, TypedThread, SavingEffect
<1>4. OnTrack(t)'
  BY <1>3 DEF OnTrack, Moves, Going, InPlaces, OutPlaces
<1> QED
  BY <1>1, <1>3, <1>4, SameStore, Begins

LEMMA AdmitStep ==
    ASSUME Inv, NEW t \in Threads, NEW x \in Transfers, NEW request \in Requests(x), Admit(t, x, request)
    PROVE  Inv'
<1>1. /\ thread[t].at = "idle" /\ UNCHANGED <<item, queue, active, row, cancels, partial, dest>>
      /\ thread' = [thread EXCEPT ![t].at = request, ![t].on = x]
  BY DEF Admit, Free, At, manager, disk
<1>2. /\ request \in Places /\ request # "save"
      /\ request \in InPlaces => x \in Incoming
      /\ request \in OutPlaces => x \in Outgoing
  BY DEF Requests, Places, OnPlaces, InPlaces, OutPlaces, Transfers
<1>3. Moves(t, request, x, thread[t].next)
  BY <1>1, <1>2, TypedThread DEF Moves, Same, ThreadType
<1>4. OnTrack(t)'
  BY <1>2, <1>3 DEF OnTrack, Moves, Going
<1> QED
  BY <1>1, <1>3, <1>4, SameStore, Begins

LEMMA SettingStep ==
    ASSUME Inv, NEW t \in Threads, TurnOff(t) \/ TurnOffAndCancel(t) \/ Close(t)
    PROVE  Inv'
<1>1. thread[t].at \in {"idle", "turnOff"} /\ UNCHANGED <<item, queue, active, row, cancels, partial, dest>>
  BY DEF TurnOff, TurnOffAndCancel, Close, Free, At, disk
<1>2. ASSUME NEW place \in {"turnOff", "cancelAll"}, Goto(t, place), thread[t].at = "idle"
      PROVE  Inv'
  <2>1. Moves(t, place, thread[t].on, thread[t].next)
    BY <1>2, TypedThread, GotoEffect DEF Places
  <2>2. OnTrack(t)'
    BY <1>2, <2>1 DEF OnTrack, Moves, Going, OnPlaces, InPlaces, OutPlaces
  <2> QED
    BY <1>1, <1>2, <2>1, <2>2, SameStore, Begins
<1>3. CASE Done(t)
  BY <1>1, <1>3, DoneStep DEF WorkPlaces
<1> QED
  BY <1>2, <1>3 DEF TurnOff, TurnOffAndCancel, Close, Free, At

LEMMA CancelAllStep ==
    ASSUME Inv, NEW t \in Threads, CancelAll(t)
    PROVE  Inv'
<1> DEFINE todo == {x \in Transfers : item[x].status \in Active}
           r == [Idle EXCEPT !.todo = todo]
<1>1. /\ thread[t].at = "cancelAll" /\ UNCHANGED <<item, queue, active, row, cancels, partial, dest>>
      /\ thread' = [thread EXCEPT ![t] = r]
  BY DEF CancelAll, At, manager, disk
<1>2. r \in ThreadType /\ r.at = "idle" /\ r.on = None /\ r.next = "idle"
  <2>1. todo \in SUBSET Transfers
    OBVIOUS
  <2> HIDE DEF todo
  <2> QED
    BY <2>1, UnknownType, TodoType
<1> HIDE DEF r
<1>3. Moves(t, "idle", None, "idle")
  BY <1>1, <1>2, TypedThread DEF Moves, Same
<1> QED
  BY <1>1, <1>3, SameStore, Rests DEF Going, WorkPlaces

(* A worker starts: its place is not one that transfers yet. *)
LEMMA SpawnStep ==
    ASSUME Inv, NEW t \in Threads, NEW place \in OnPlaces \ {"save"}, Spawn(t, thread[t].on, place),
           UNCHANGED <<item, queue, active, row, partial, dest>>,
           thread[t].at \in OnPlaces \ (WorkPlaces \union {"save", "advance"}),
           place \in InPlaces => thread[t].at \in InPlaces,
           place \in OutPlaces => thread[t].at \in OutPlaces
    PROVE  Inv'
<1> DEFINE x == thread[t].on
<1>1. x \in Transfers /\ (place \in InPlaces => x \in Incoming) /\ (place \in OutPlaces => x \in Outgoing)
  BY TypedThread DEF OnTrack, Going
<1>2. PICK u \in Threads : Starts(t, u, x, place) /\ cancels' = [cancels EXCEPT ![x] = u]
  BY <1>1, TypedThread, SpawnEffect DEF Places
<1> HIDE DEF x
<1>3. Store'
  BY <1>2 DEF Inv, TypeInv, Store
<1>4. OnTrack(u)' /\ (t # u => OnTrack(t)')
  BY <1>1, <1>2 DEF Starts, OnTrack, Going, OnPlaces, InPlaces, OutPlaces
<1>5. Frame({t, u})
  BY <1>2, <1>4 DEF Starts, Frame
<1>6. \A d \in {t, u} : Going(thread[d]) \notin WorkPlaces \union {"advance"}
  BY <1>2 DEF Starts, At, Going, WorkPlaces
<1> QED
  BY <1>3, <1>5, <1>6, OnlyThreads DEF Ending, Working

LEMMA WorkerStartsStep ==
    ASSUME Inv, NEW t \in Threads, OfferClassic(t) \/ AwaitPassive(t) \/ Respond(t) \/ BeginReceive(t)
    PROVE  Inv'
<1>1. /\ thread[t].at \in {"offerClassic", "passive", "respond", "setup"}
      /\ UNCHANGED <<item, queue, active, row, partial, dest>>
  BY DEF OfferClassic, AwaitPassive, Respond, BeginReceive, At, disk
<1>2. CASE Goto(t, "failed") /\ UNCHANGED cancels
  BY <1>1, <1>2, GotoStep DEF OnPlaces, InPlaces, OutPlaces, WorkPlaces
<1>3. ASSUME NEW place \in {"connectSend", "awaitPassive"}, Spawn(t, thread[t].on, place), thread[t].at # "setup"
      PROVE  Inv'
  BY <1>1, <1>3, SpawnStep DEF OnPlaces, InPlaces, OutPlaces, WorkPlaces
<1>4. ASSUME Spawn(t, thread[t].on, "connectReceive"), thread[t].at = "setup"
      PROVE  Inv'
  BY <1>1, <1>4, SpawnStep DEF OnPlaces, InPlaces, OutPlaces, WorkPlaces
<1> QED
  BY <1>2, <1>3, <1>4 DEF OfferClassic, AwaitPassive, Respond, BeginReceive, At

(* One transfer changes; the queue, the slot and those at work on it fit that. *)
LEMMA ItemStep ==
    ASSUME Inv, Store', NEW moved \in SUBSET Threads, Frame(moved),
           NEW x \in Transfers, NEW i \in ItemType, item' = [item EXCEPT ![x] = i],
           queue' \in Seq(Outgoing), QueuedHasTurn', active' = active,
           x \in Outgoing => i.status # "offered",
           \A d \in moved : Going(thread[d]) # "advance" /\ (Going(thread[d]) \in WorkPlaces => thread[d].on = x),
           x = active => i.status \in Active \/ item[x].status \notin Active \/ \E d \in moved : Ending(d, x)',
           i.status = "transferring" =>
               \/ \E d \in moved : Working(d, x)'
               \/ item[x].status = "transferring" /\ \A d \in moved : ~Working(d, x)
    PROVE  Inv'
<1>1. item'[x] = i /\ (\A y \in Transfers \ {x} : item'[y] = item[y]) /\ item' \in [Transfers -> ItemType]
  BY DEF Inv, TypeInv
<1>2. \A y \in Outgoing : item'[y].status # "offered"
  BY <1>1 DEF Inv, TypeInv, Transfers
<1>3. active' # None =>
               \/ item'[active'].status \in Active \/ \E d \in moved : Ending(d, active)'
               \/ active' = active /\ item[active].status \notin Active /\ \A d \in moved : ~Ending(d, active)
  <2> SUFFICES ASSUME active # None
               PROVE  \/ item'[active].status \in Active \/ \E d \in moved : Ending(d, active)'
                      \/ item[active].status \notin Active
    BY DEF Ending
  <2>1. active \in Transfers
    BY DEF Inv, TypeInv, Transfers
  <2>2. CASE active = x
    <3>1. ASSUME NEW d \in moved, Ending(d, x)'
          PROVE  Ending(d, active)'
      BY <2>2, <3>1 DEF Ending
    <3> QED
      BY <1>1, <2>2, <3>1
  <2>3. CASE active # x
    BY <1>1, <2>1, <2>3
  <2> QED
    BY <2>2, <2>3
<1>4. \A y \in Transfers : item'[y].status = "transferring" =>
               \/ \E d \in moved : Working(d, y)'
               \/ item[y].status = "transferring" /\ \A d \in moved : ~Working(d, y)
  BY <1>1 DEF Working
<1>5. active' \in Outgoing \union {None}
  BY DEF Inv, TypeInv
<1> QED
  BY <1>1, <1>2, <1>3, <1>4, <1>5, InvStays

(* One goroutine moves, one transfer changes. *)
LEMMA OneMoves ==
    ASSUME Inv, Store', NEW t \in Threads, NEW at, NEW on, NEW next, Moves(t, at, on, next),
           NEW g, g = (IF at = "save" THEN next ELSE at),
           at \in OnPlaces => on \in Transfers, g \in InPlaces => on \in Incoming, g \in OutPlaces => on \in Outgoing,
           NEW x \in Transfers, NEW i \in ItemType, item' = [item EXCEPT ![x] = i],
           queue' \in Seq(Outgoing), QueuedHasTurn', active' = active,
           x \in Outgoing => i.status # "offered",
           Going(thread[t]) # "advance", Going(thread[t]) \in WorkPlaces => thread[t].on = x,
           x = active => i.status \in Active \/ item[x].status \notin Active \/ (on = x /\ g = "advance"),
           i.status = "transferring" =>
               \/ on = x /\ g \in WorkPlaces
               \/ item[x].status = "transferring" /\ Going(thread[t]) \notin WorkPlaces
    PROVE  Inv'
<1>1. thread'[t].at = at /\ thread'[t].on = on /\ Going(thread'[t]) = g
  BY DEF Moves, Going
<1>2. Frame({t})
  BY <1>1 DEF Frame, Moves, OnTrack
<1>3. \A d \in {t} : Going(thread[d]) # "advance" /\ (Going(thread[d]) \in WorkPlaces => thread[d].on = x)
  OBVIOUS
<1>4. x = active => i.status \in Active \/ item[x].status \notin Active \/ \E d \in {t} : Ending(d, x)'
  BY <1>1 DEF Ending
<1>5. i.status = "transferring" =>
         \/ \E d \in {t} : Working(d, x)'
         \/ item[x].status = "transferring" /\ \A d \in {t} : ~Working(d, x)
  BY <1>1 DEF Working
<1> QED
  <2>1. {t} \in SUBSET Threads
    OBVIOUS
  <2> QED
    BY <1>2, <1>3, <1>4, <1>5, <2>1, ItemStep

(* The same where the goroutine saves the row of the transfer on its way to *)
(* next, and where it goes on with the transfer at once.                    *)
LEMMA OneSaves ==
    ASSUME Inv, Store', NEW t \in Threads, NEW x \in Transfers, NEW next, Moves(t, "save", x, next),
           next \in InPlaces => x \in Incoming, next \in OutPlaces => x \in Outgoing,
           NEW i \in ItemType, item' = [item EXCEPT ![x] = i],
           queue' \in Seq(Outgoing), QueuedHasTurn', active' = active,
           x \in Outgoing => i.status # "offered",
           Going(thread[t]) # "advance", Going(thread[t]) \in WorkPlaces => thread[t].on = x,
           x = active => i.status \in Active \/ item[x].status \notin Active \/ next = "advance",
           i.status = "transferring" =>
               \/ next \in WorkPlaces
               \/ item[x].status = "transferring" /\ Going(thread[t]) \notin WorkPlaces
    PROVE  Inv'
<1>1. thread'[t].at = "save" /\ thread'[t].on = x /\ Going(thread'[t]) = next
  BY DEF Moves, Going
<1>2. Frame({t})
  BY <1>1 DEF Frame, Moves, OnTrack
<1>3. \A d \in {t} : Going(thread[d]) # "advance" /\ (Going(thread[d]) \in WorkPlaces => thread[d].on = x)
  OBVIOUS
<1>4. x = active => i.status \in Active \/ item[x].status \notin Active \/ \E d \in {t} : Ending(d, x)'
  BY <1>1 DEF Ending
<1>5. i.status = "transferring" =>
         \/ \E d \in {t} : Working(d, x)'
         \/ item[x].status = "transferring" /\ \A d \in {t} : ~Working(d, x)
  BY <1>1 DEF Working
<1> QED
  <2>1. {t} \in SUBSET Threads
    OBVIOUS
  <2> QED
    BY <1>2, <1>3, <1>4, <1>5, <2>1, ItemStep

LEMMA OneTurns ==
    ASSUME Inv, Store', NEW t \in Threads, NEW x \in Transfers, NEW place, NEW next,
           Moves(t, place, x, next), place # "save",
           place \in InPlaces => x \in Incoming, place \in OutPlaces => x \in Outgoing,
           NEW i \in ItemType, item' = [item EXCEPT ![x] = i],
           queue' \in Seq(Outgoing), QueuedHasTurn', active' = active,
           x \in Outgoing => i.status # "offered",
           Going(thread[t]) # "advance", Going(thread[t]) \in WorkPlaces => thread[t].on = x,
           x = active => i.status \in Active \/ item[x].status \notin Active,
           i.status = "transferring" => place \in WorkPlaces
    PROVE  Inv'
<1>1. PICK on : on = x
  OBVIOUS
<1>2. /\ place = (IF place = "save" THEN next ELSE place) /\ Moves(t, place, on, next)
      /\ place \in OnPlaces => on \in Transfers
      /\ place \in InPlaces => on \in Incoming
      /\ place \in OutPlaces => on \in Outgoing
  BY <1>1
<1>3. x = active => i.status \in Active \/ item[x].status \notin Active \/ (on = x /\ place = "advance")
  OBVIOUS
<1>4. i.status = "transferring" =>
         \/ on = x /\ place \in WorkPlaces
         \/ item[x].status = "transferring" /\ Going(thread[t]) \notin WorkPlaces
  BY <1>1
<1> QED
  BY <1>2, <1>3, <1>4, OneMoves, Zenon

(* The queue stays as it is, and the transfer is not one that enters it. *)
LEMMA QueueKept ==
    ASSUME Inv, NEW x \in Transfers, NEW i \in ItemType, item' = [item EXCEPT ![x] = i], queue' = queue,
           x \in Outgoing /\ i.status = "queued" => item[x].status = "queued"
    PROVE  queue' \in Seq(Outgoing) /\ QueuedHasTurn'
  BY DEF Inv, TypeInv, QueuedHasTurn, Transfers

(* A transfer's record where its status changes, and where that ends it. *)
LEMMA StatusType ==
    ASSUME NEW i \in ItemType, NEW s \in Statuses
    PROVE  LET m == [i EXCEPT !.status = s] IN m \in ItemType /\ m.status = s
  BY DEF ItemType

ResumableAs(i, s) == i \in ItemType /\ i.status = s

LEMMA ResumableType ==
    ASSUME NEW i \in ItemType, NEW s \in Statuses, NEW b \in BOOLEAN, NEW c \in BOOLEAN
    PROVE  ResumableAs([i EXCEPT !.status = s, !.resumable = c, !.finished = b], s)
  BY DEF ResumableAs, ItemType

LEMMA EndedType ==
    ASSUME NEW i \in ItemType, NEW s \in Statuses, NEW b \in BOOLEAN, NEW c \in BOOLEAN
    PROVE  /\ LET m == [i EXCEPT !.status = s, !.finished = b] IN m \in ItemType /\ m.status = s
           /\ LET m == [i EXCEPT !.status = s, !.resumable = c, !.finished = b] IN m \in ItemType /\ m.status = s
<1>1. LET m == [i EXCEPT !.status = s, !.finished = b] IN m \in ItemType /\ m.status = s
  BY DEF ItemType
<1>2. LET m == [i EXCEPT !.status = s, !.resumable = c, !.finished = b] IN m \in ItemType /\ m.status = s
  BY DEF ItemType
<1> QED
  BY <1>1, <1>2

LEMMA DeclineStep ==
    ASSUME Inv, NEW t \in Threads, NEW x \in Transfers, Decline(t, x)
    PROVE  Inv'
<1> DEFINE i == [item[x] EXCEPT !.status = "declined", !.finished = TRUE]
<1>1. /\ thread[t].at = "idle" /\ item[x].status = "offered" /\ item' = [item EXCEPT ![x] = i] /\ Save(t, x, "idle")
      /\ UNCHANGED <<queue, active, cancels, row, partial, dest>>
  BY DEF Decline, Free, At, disk
<1>2. i \in ItemType /\ i.status = "declined"
  <2>1. "declined" \in Statuses /\ TRUE \in BOOLEAN /\ item[x] \in ItemType
    BY DEF Statuses, Ended, Inv, TypeInv
  <2> QED
    BY <2>1, EndedType
<1> HIDE DEF i
<1>3. thread' = [thread EXCEPT ![t] = Saving(t, x, i, "idle")]
  BY <1>1 DEF Save, Inv, TypeInv
<1>4. Moves(t, "save", x, "idle")
  BY <1>2, <1>3, TypedThread, SavingEffect DEF Places
<1>5. Going(thread[t]) = "idle" /\ x \notin Outgoing /\ x # active
  BY <1>1, NoneAssumption DEF Going, Inv, TypeInv, Transfers
<1>6. queue' \in Seq(Outgoing) /\ QueuedHasTurn' /\ Store'
  BY <1>1, <1>2, <1>5, QueueKept, SameStore
<1>7. /\ "idle" \notin InPlaces \union OutPlaces \union WorkPlaces
      /\ i.status # "offered" /\ i.status # "transferring"
  BY <1>2 DEF InPlaces, OutPlaces, WorkPlaces
<1>8. active' = active
  BY <1>1
<1> QED
  BY <1>1, <1>2, <1>4, <1>5, <1>6, <1>7, <1>8, OneSaves, Zenon

(* What is sent and what is received *)
LEMMA Directions ==
    ASSUME Inv, NEW x \in Incoming
    PROVE  x \in Transfers /\ x \notin Outgoing /\ x # active
  BY DirectionsAssumption, NoneAssumption DEF Inv, TypeInv, Transfers

LEMMA OnType ==
    ASSUME Inv, NEW t \in Threads
    PROVE  /\ thread[t].at \in OnPlaces => thread[t].on \in Transfers /\ item[thread[t].on] \in ItemType
           /\ thread[t].at \in InPlaces => thread[t].on \in Incoming
           /\ thread[t].at \in OutPlaces => thread[t].on \in Outgoing
  BY TypedThread DEF OnTrack, Going, InPlaces, OutPlaces, Inv, TypeInv

(* A goroutine that neither ends nor transfers a transfer changes one, and     *)
(* stores a copy, or goes on to a place outside of the store.                 *)
LEMMA SavesItem ==
    ASSUME Inv, NEW t \in Threads, NEW x \in Transfers, NEW i \in ItemType, item' = [item EXCEPT ![x] = i],
           NEW copy \in ItemType, NEW next \in Places \ {"save"},
           thread' = [thread EXCEPT ![t] = Saving(t, x, copy, next)],
           next \in InPlaces => x \in Incoming, next \in OutPlaces => x \in Outgoing,
           Going(thread[t]) \notin WorkPlaces \union {"advance"},
           queue' \in Seq(Outgoing), QueuedHasTurn', UNCHANGED <<active, cancels, row, partial, dest>>,
           x \in Outgoing => i.status # "offered",
           x = active => i.status \in Active \/ item[x].status \notin Active,
           i.status = "transferring" => item[x].status = "transferring"
    PROVE  Inv'
<1>1. Moves(t, "save", x, next)
  BY TypedThread, SavingEffect
<1>2. Store' /\ active' = active
  BY SameStore
<1> QED
  BY <1>1, <1>2, OneMoves

LEMMA GoesItem ==
    ASSUME Inv, NEW t \in Threads, NEW x \in Transfers, NEW i \in ItemType, item' = [item EXCEPT ![x] = i],
           NEW place \in Places \ {"save"}, NEW on, NEW next, Moves(t, place, on, next),
           place \in OnPlaces => on = x,
           place \in InPlaces => x \in Incoming, place \in OutPlaces => x \in Outgoing,
           Going(thread[t]) \notin WorkPlaces \union {"advance"},
           queue' \in Seq(Outgoing), QueuedHasTurn', UNCHANGED <<active, cancels, row, partial, dest>>,
           x \in Outgoing => i.status # "offered",
           x = active => i.status \in Active \/ item[x].status \notin Active,
           i.status = "transferring" => item[x].status = "transferring"
    PROVE  Inv'
<1>1. Store' /\ active' = active
  BY SameStore
<1>2. place \in InPlaces \union OutPlaces => place \in OnPlaces
  BY DEF OnPlaces
<1> QED
  BY <1>1, <1>2, OneMoves

LEMMA AddIncomingOfferStep ==
    ASSUME Inv, NEW t \in Threads, AddIncomingOffer(t)
    PROVE  Inv'
<1> DEFINE x == thread[t].on
           i == [item[x] EXCEPT !.status = "offered", !.offer = TRUE]
<1>1. thread[t].at = "offer" /\ UNCHANGED <<queue, active, cancels, row, partial, dest>>
  BY DEF AddIncomingOffer, At, disk
<1>2. /\ x \in Incoming /\ x \in Transfers /\ x \notin Outgoing /\ x # active /\ item[x] \in ItemType
      /\ Going(thread[t]) \notin WorkPlaces \union {"advance"} /\ "idle" \in Places \ {"save"}
  BY <1>1, OnType, Directions DEF OnPlaces, InPlaces, Going, WorkPlaces, Places
<1>3. CASE item' = [item EXCEPT ![x] = i] /\ Save(t, x, "idle")
  <2>1. i \in ItemType /\ i.status = "offered"
    <3>1. "offered" \in Statuses /\ TRUE \in BOOLEAN
      BY DEF Statuses, Active
    <3> QED
      BY <1>2, <3>1 DEF ItemType
  <2>2. thread' = [thread EXCEPT ![t] = Saving(t, x, i, "idle")] /\ item' = [item EXCEPT ![x] = i]
    BY <1>2, <1>3 DEF Save, Inv, TypeInv
  <2> HIDE DEF x, i
  <2>3. queue' \in Seq(Outgoing) /\ QueuedHasTurn'
    BY <1>1, <1>2, <2>1, <2>2, QueueKept
  <2> QED
    BY <1>1, <1>2, <2>1, <2>2, <2>3, SavesItem DEF InPlaces, OutPlaces
<1>4. CASE Done(t) /\ UNCHANGED item
  BY <1>1, <1>4, DoneStep DEF WorkPlaces
<1> QED
  BY <1>3, <1>4 DEF AddIncomingOffer

LEMMA AppendKept ==
    ASSUME Inv, NEW x \in Outgoing, NEW i \in ItemType, item' = [item EXCEPT ![x] = i], queue' = Append(queue, x)
    PROVE  queue' \in Seq(Outgoing) /\ QueuedHasTurn'
<1>1. queue \in Seq(Outgoing)
  BY DEF Inv, TypeInv
<1>2. /\ queue' \in Seq(Outgoing) /\ DOMAIN queue' = 1..(Len(queue) + 1) /\ DOMAIN queue = 1..Len(queue)
      /\ queue'[Len(queue) + 1] = x /\ \A k \in 1..Len(queue) : queue'[k] = queue[k]
  BY <1>1, AppendProperties
<1>3. ASSUME NEW y \in Outgoing, item'[y].status = "queued"
      PROVE  \E k \in DOMAIN queue' : queue'[k] = y
  <2>1. Len(queue) \in Nat
    BY <1>1
  <2>2. CASE y = x
    BY <1>2, <2>1, <2>2
  <2>3. CASE y # x
    <3>1. item[y].status = "queued"
      BY <1>3, <2>3 DEF Inv, TypeInv, Transfers
    <3>2. PICK k \in DOMAIN queue : queue[k] = y
      BY <3>1 DEF Inv, QueuedHasTurn
    <3> QED
      BY <1>2, <2>1, <3>2
  <2> QED
    BY <2>2, <2>3
<1> QED
  BY <1>2, <1>3 DEF QueuedHasTurn

LEMMA QueueOutgoingStep ==
    ASSUME Inv, NEW t \in Threads, QueueOutgoing(t)
    PROVE  Inv'
<1> DEFINE x == thread[t].on
           i == [item[x] EXCEPT !.status = "queued", !.path = TRUE]
<1>1. thread[t].at = "queue" /\ UNCHANGED <<active, cancels, row, partial, dest>>
  BY DEF QueueOutgoing, At, disk
<1>2. /\ x \in Outgoing /\ x \in Transfers /\ item[x] \in ItemType
      /\ Going(thread[t]) \notin WorkPlaces \union {"advance"} /\ "queued" \in Places \ {"save"}
  BY <1>1, OnType DEF OnPlaces, OutPlaces, Going, WorkPlaces, Places
<1>3. CASE item' = [item EXCEPT ![x] = i] /\ queue' = Append(queue, x) /\ Goto(t, "queued")
  <2>1. i \in ItemType /\ i.status = "queued"
    <3>1. "queued" \in Statuses /\ TRUE \in BOOLEAN
      BY DEF Statuses, Active
    <3> QED
      BY <1>2, <3>1 DEF ItemType
  <2>2. thread[t].on = x /\ item' = [item EXCEPT ![x] = i]
    BY <1>3
  <2> HIDE DEF x, i
  <2>3. queue' \in Seq(Outgoing) /\ QueuedHasTurn'
    BY <1>2, <1>3, <2>1, <2>2, AppendKept
  <2> QED
    <3>1. "queued" \notin InPlaces /\ i.status \in Active \ {"offered", "transferring"}
      BY <2>1 DEF InPlaces, Active
    <3>2. Moves(t, "queued", x, thread[t].next)
      BY <1>2, <1>3, <2>2, TypedThread, GotoEffect
    <3> QED
      BY <1>1, <1>2, <2>1, <2>2, <2>3, <3>1, <3>2, GoesItem
<1>4. CASE Done(t) /\ UNCHANGED <<item, queue>>
  BY <1>1, <1>4, DoneStep DEF WorkPlaces
<1> QED
  BY <1>3, <1>4 DEF QueueOutgoing

LEMMA ResumeRequestStep ==
    ASSUME Inv, NEW t \in Threads, ResumeRequest(t)
    PROVE  Inv'
<1> DEFINE x == thread[t].on
<1>1. /\ thread[t].at = "resumeRequest" /\ Done(t) /\ UNCHANGED <<queue, active, cancels, row, partial, dest>>
      /\ UNCHANGED item \/ \E n \in 0..Size : item' = [item EXCEPT ![x].offset = n, ![x].bytes = n]
  BY DEF ResumeRequest, At, disk
<1>2. /\ x \in Outgoing /\ x \in Transfers /\ item[x] \in ItemType
      /\ Going(thread[t]) \notin WorkPlaces \union {"advance"} /\ "idle" \in Places \ {"save"}
      /\ "idle" \notin OnPlaces \union InPlaces \union OutPlaces
  BY <1>1, OnType DEF OnPlaces, InPlaces, OutPlaces, Going, WorkPlaces, Places
<1>3. CASE UNCHANGED item
  BY <1>1, <1>3, DoneStep DEF WorkPlaces
<1>4. ASSUME NEW n \in 0..Size, item' = [item EXCEPT ![x].offset = n, ![x].bytes = n]
      PROVE  Inv'
  <2> DEFINE i == [item[x] EXCEPT !.offset = n, !.bytes = n]
  <2>1. i \in ItemType /\ i.status = item[x].status
    BY <1>2 DEF ItemType
  <2>2. item' = [item EXCEPT ![x] = i]
    BY <1>4
  <2> HIDE DEF x, i
  <2>3. Moves(t, "idle", None, "idle")
    BY <1>1, TypedThread, DoneEffect
  <2>4. queue' \in Seq(Outgoing) /\ QueuedHasTurn'
    BY <1>1, <1>2, <2>1, <2>2, QueueKept
  <2>5. i.status # "offered"
    BY <1>2, <2>1 DEF Inv, TypeInv
  <2> QED
    BY <1>1, <1>2, <2>1, <2>2, <2>3, <2>4, <2>5, GoesItem
<1> QED
  BY <1>1, <1>3, <1>4

LEMMA PublishPortStep ==
    ASSUME Inv, NEW t \in Threads, PublishPort(t)
    PROVE  Inv'
<1> DEFINE x == thread[t].on
           i == [item[x] EXCEPT !.status = "negotiating"]
<1>1. /\ thread[t].at = "publish" /\ Goto(t, "offerClassic")
      /\ UNCHANGED <<queue, active, cancels, row, partial, dest>>
  BY DEF PublishPort, At, disk
<1>2. /\ x \in Outgoing /\ x \in Transfers /\ item[x] \in ItemType
      /\ Going(thread[t]) \notin WorkPlaces \union {"advance"} /\ "offerClassic" \in Places \ {"save"}
      /\ "offerClassic" \notin InPlaces
  BY <1>1, OnType DEF OnPlaces, InPlaces, OutPlaces, Going, WorkPlaces, Places
<1>3. CASE UNCHANGED item
  BY <1>1, <1>3, GotoStep DEF OnPlaces, InPlaces, OutPlaces, WorkPlaces
<1>4. CASE item' = [item EXCEPT ![x] = i]
  <2>1. i \in ItemType /\ i.status = "negotiating"
    BY <1>2, StatusType DEF Statuses, Active
  <2>2. thread[t].on = x /\ item' = [item EXCEPT ![x] = i]
    BY <1>4
  <2> HIDE DEF x, i
  <2>3. Moves(t, "offerClassic", x, thread[t].next)
    BY <1>1, <1>2, <2>2, TypedThread, GotoEffect
  <2>4. queue' \in Seq(Outgoing) /\ QueuedHasTurn'
    BY <1>1, <1>2, <2>1, <2>2, QueueKept
  <2>5. i.status \in Active \ {"offered", "transferring"}
    BY <2>1 DEF Active
  <2> QED
    BY <1>1, <1>2, <2>1, <2>2, <2>3, <2>4, <2>5, GoesItem
<1> QED
  BY <1>3, <1>4 DEF PublishPort

(* A field that no property looks at. *)
LEMMA TokenType ==
    ASSUME NEW i \in ItemType, NEW b \in BOOLEAN
    PROVE  LET m == [i EXCEPT !.token = b] IN m \in ItemType /\ m.status = i.status
  BY DEF ItemType

LEMMA BeginPassiveStep ==
    ASSUME Inv, NEW t \in Threads, BeginPassive(t)
    PROVE  Inv'
<1> DEFINE x == thread[t].on
           no == FALSE
           i == [item[x] EXCEPT !.token = no]
<1>1. thread[t].at = "beginPassive" /\ UNCHANGED <<queue, active, cancels, row, partial, dest>>
  BY DEF BeginPassive, At, disk
<1>2. /\ x \in Outgoing /\ x \in Transfers /\ item[x] \in ItemType
      /\ Going(thread[t]) \notin WorkPlaces \union {"advance"} /\ "offerPassive" \in Places \ {"save"}
      /\ "offerPassive" \notin InPlaces
  BY <1>1, OnType DEF OnPlaces, InPlaces, OutPlaces, Going, WorkPlaces, Places
<1>3. CASE Done(t) /\ UNCHANGED item
  BY <1>1, <1>3, DoneStep DEF WorkPlaces
<1>4. CASE item' = [item EXCEPT ![x] = i] /\ Goto(t, "offerPassive")
  <2>1. i \in ItemType /\ i.status = item[x].status
    <3>1. no \in BOOLEAN
      OBVIOUS
    <3> HIDE DEF no
    <3> QED
      BY <1>2, <3>1, TokenType
  <2>2. thread[t].on = x /\ item' = [item EXCEPT ![x] = i]
    BY <1>4
  <2> HIDE DEF x, i
  <2>3. Moves(t, "offerPassive", x, thread[t].next)
    BY <1>2, <1>4, <2>2, TypedThread, GotoEffect
  <2>4. queue' \in Seq(Outgoing) /\ QueuedHasTurn'
    BY <1>1, <1>2, <2>1, <2>2, QueueKept
  <2>5. i.status # "offered"
    BY <1>2, <2>1 DEF Inv, TypeInv
  <2> QED
    BY <1>1, <1>2, <2>1, <2>2, <2>3, <2>4, <2>5, GoesItem
<1> QED
  BY <1>3, <1>4 DEF BeginPassive

LEMMA OfferPassiveStep ==
    ASSUME Inv, NEW t \in Threads, OfferPassive(t)
    PROVE  Inv'
<1> DEFINE x == thread[t].on
           yes == TRUE
           i == IF Exists(x) THEN [item[x] EXCEPT !.token = yes] ELSE item[x]
           copy == [item[x] EXCEPT !.status = "negotiating"]
<1>1. thread[t].at = "offerPassive" /\ UNCHANGED <<queue, active, cancels, row, partial, dest>>
  BY DEF OfferPassive, At, disk
<1>2. /\ x \in Outgoing /\ x \in Transfers /\ item[x] \in ItemType
      /\ Going(thread[t]) \notin WorkPlaces \union {"advance"} /\ "passive" \in Places \ {"save"}
      /\ "passive" \notin InPlaces
  BY <1>1, OnType DEF OnPlaces, InPlaces, OutPlaces, Going, WorkPlaces, Places
<1>3. CASE Goto(t, "failed") /\ UNCHANGED item
  BY <1>1, <1>3, GotoStep DEF OnPlaces, InPlaces, OutPlaces, WorkPlaces
<1>4. CASE /\ item' = IF Exists(x) THEN [item EXCEPT ![x].token = TRUE] ELSE item
           /\ thread' = [thread EXCEPT ![t] = Saving(t, x, copy, "passive")]
  <2>1. i \in ItemType /\ i.status = item[x].status
    <3>1. yes \in BOOLEAN
      OBVIOUS
    <3> HIDE DEF yes
    <3> QED
      BY <1>2, <3>1, TokenType
  <2>2. item' = [item EXCEPT ![x] = i]
    BY <1>4 DEF Inv, TypeInv
  <2>3. copy \in ItemType
    BY <1>2, StatusType DEF Statuses, Active
  <2>4. thread' = [thread EXCEPT ![t] = Saving(t, x, copy, "passive")]
    BY <1>4
  <2> HIDE DEF x, i, copy
  <2>5. queue' \in Seq(Outgoing) /\ QueuedHasTurn'
    BY <1>1, <1>2, <2>1, <2>2, QueueKept
  <2>6. i.status # "offered"
    BY <1>2, <2>1 DEF Inv, TypeInv
  <2> QED
    BY <1>1, <1>2, <2>1, <2>2, <2>3, <2>4, <2>5, <2>6, SavesItem
<1> QED
  BY <1>3, <1>4 DEF OfferPassive

LEMMA RetryStep ==
    ASSUME Inv, NEW t \in Threads, NEW x \in Transfers, Retry(t, x)
    PROVE  Inv'
<1> DEFINE reset == [item[x] EXCEPT !.status = "queued", !.bytes = 0, !.offset = 0]
           i == [reset EXCEPT !.finished = FALSE, !.resumable = FALSE]
<1>1. /\ thread[t].at = "idle" /\ x \in Outgoing /\ queue' = Append(queue, x) /\ Save(t, x, "start")
      /\ item' = [item EXCEPT ![x] = i]
      /\ UNCHANGED <<active, cancels, row, partial, dest>>
  BY DEF Retry, Free, At, disk
<1>2. /\ Going(thread[t]) \notin WorkPlaces \union {"advance"} /\ "start" \in Places \ {"save"}
      /\ "start" \notin InPlaces \union OutPlaces
  BY <1>1 DEF OnPlaces, InPlaces, OutPlaces, Going, WorkPlaces, Places
<1>3. i \in ItemType /\ i.status = "queued"
  <2> DEFINE zero == 0
             no == FALSE
  <2>1. "queued" \in Statuses /\ zero \in 0..Size /\ no \in BOOLEAN /\ item[x] \in ItemType
    BY SizeAssumption DEF Statuses, Active, Inv, TypeInv
  <2> HIDE DEF zero, no
  <2> DEFINE r == [item[x] EXCEPT !.status = "queued", !.bytes = zero, !.offset = zero]
  <2>2. r \in ItemType /\ r.status = "queued"
    BY <2>1 DEF ItemType
  <2> HIDE DEF r
  <2>3. LET m == [r EXCEPT !.finished = no, !.resumable = no] IN m \in ItemType /\ m.status = "queued"
    BY <2>1, <2>2 DEF ItemType
  <2> QED
    BY <2>3 DEF r, zero, no
<1>4. thread' = [thread EXCEPT ![t] = Saving(t, x, i, "start")]
  BY <1>1 DEF Save, Inv, TypeInv
<1> HIDE DEF i
<1>5. queue' \in Seq(Outgoing) /\ QueuedHasTurn'
  BY <1>1, <1>3, AppendKept
<1>6. i.status \in Active \ {"offered", "transferring"}
  BY <1>3 DEF Active
<1> QED
  BY <1>1, <1>2, <1>3, <1>4, <1>5, <1>6, SavesItem

LEMMA AcceptStep ==
    ASSUME Inv, NEW t \in Threads, NEW x \in Transfers, Accept(t, x)
    PROVE  Inv'
<1> DEFINE offset == Length(partial[x])
           next == IF offset > 0 THEN "askResume" ELSE "setup"
           i == [item[x] EXCEPT !.status = "connecting", !.path = TRUE, !.offset = offset, !.bytes = offset]
<1>1. /\ thread[t].at = "idle" /\ x \in Incoming /\ Save(t, x, next) /\ item' = [item EXCEPT ![x] = i]
      /\ UNCHANGED <<queue, active, cancels, row, partial, dest>>
  BY DEF Accept, Free, At, disk
<1>2. /\ Going(thread[t]) \notin WorkPlaces \union {"advance"} /\ next \in Places \ {"save"} /\ x \notin Outgoing
      /\ next \notin OutPlaces /\ x # active
  BY <1>1, Directions DEF OnPlaces, InPlaces, OutPlaces, Going, WorkPlaces, Places
<1>3. offset \in 0..Size
  BY LengthIsLast DEF Inv, TypeInv
<1> HIDE DEF offset, next
<1>4. i \in ItemType /\ i.status = "connecting"
  <2> DEFINE yes == TRUE
  <2>1. "connecting" \in Statuses /\ yes \in BOOLEAN /\ item[x] \in ItemType
    BY DEF Statuses, Active, Inv, TypeInv
  <2> HIDE DEF yes
  <2>2. LET m == [item[x] EXCEPT !.status = "connecting", !.path = yes, !.offset = offset, !.bytes = offset]
        IN  m \in ItemType /\ m.status = "connecting"
    BY <1>3, <2>1 DEF ItemType
  <2> QED
    BY <2>2 DEF yes
<1>5. thread' = [thread EXCEPT ![t] = Saving(t, x, i, next)]
  BY <1>1 DEF Save, Inv, TypeInv
<1> HIDE DEF i
<1>6. queue' \in Seq(Outgoing) /\ QueuedHasTurn'
  BY <1>1, <1>2, <1>4, QueueKept
<1>7. i.status # "transferring"
  BY <1>4
<1> QED
  BY <1>1, <1>2, <1>4, <1>5, <1>6, <1>7, SavesItem

LEMMA MarkTransferringStep ==
    ASSUME Inv, NEW t \in Threads, MarkTransferring(t)
    PROVE  Inv'
<1> DEFINE x == thread[t].on
           next == IF x \in Incoming THEN "openFile" ELSE "sending"
           i == [item[x] EXCEPT !.status = "transferring"]
<1>1. thread[t].at = "mark" /\ UNCHANGED <<queue, active, cancels, row, partial, dest>>
  BY DEF MarkTransferring, At, disk
<1>2. /\ x \in Transfers /\ item[x] \in ItemType /\ Going(thread[t]) \notin WorkPlaces \union {"advance"}
      /\ next \in Places \ {"save"} /\ next \in WorkPlaces
      /\ next \in InPlaces => x \in Incoming
      /\ next \in OutPlaces => x \in Outgoing
  BY <1>1, OnType DEF OnPlaces, InPlaces, OutPlaces, Going, WorkPlaces, Places, Transfers
<1>3. CASE item' = [item EXCEPT ![x] = i] /\ Save(t, x, next)
  <2>1. i \in ItemType /\ i.status = "transferring"
    BY <1>2, StatusType DEF Statuses, Active
  <2>2. thread' = [thread EXCEPT ![t] = Saving(t, x, i, next)] /\ item' = [item EXCEPT ![x] = i]
    BY <1>2, <1>3 DEF Save, Inv, TypeInv
  <2> HIDE DEF x, i, next
  <2>3. Moves(t, "save", x, next)
    BY <1>2, <2>1, <2>2, TypedThread, SavingEffect
  <2>4. queue' \in Seq(Outgoing) /\ QueuedHasTurn' /\ Store' /\ active' = active
    BY <1>1, <1>2, <2>1, <2>2, QueueKept, SameStore
  <2>5. i.status \in Active /\ i.status # "offered"
    BY <2>1 DEF Active
  <2> QED
    BY <1>2, <2>1, <2>2, <2>3, <2>4, <2>5, OneMoves
<1>4. CASE Done(t) /\ UNCHANGED item
  BY <1>1, <1>4, DoneStep DEF WorkPlaces
<1> QED
  BY <1>3, <1>4 DEF MarkTransferring

LEMMA ProgressStep ==
    ASSUME Inv, NEW t \in Threads, Progress(t)
    PROVE  Inv'
<1> DEFINE x == thread[t].on
           pos == thread[t].pos
           back == IF x \in Incoming THEN "receiving" ELSE "sending"
           i == [item[x] EXCEPT !.bytes = pos]
<1>1. thread[t].at \in {"received", "sent"} /\ UNCHANGED <<queue, active, cancels, row, partial, dest>>
  BY DEF Progress, At, disk
<1>2. /\ x \in Transfers /\ item[x] \in ItemType /\ Going(thread[t]) \in WorkPlaces \ {"advance"}
      /\ back \in Places \ {"save"} /\ back \in OnPlaces /\ back \in WorkPlaces
      /\ back \in InPlaces => x \in Incoming
      /\ back \in OutPlaces => x \in Outgoing
      /\ back \in InPlaces => thread[t].at \in InPlaces
      /\ back \in OutPlaces => thread[t].at \in OutPlaces
  BY <1>1, OnType, Directions DEF OnPlaces, InPlaces, OutPlaces, Going, WorkPlaces, Places, Transfers
<1>3. CASE UNCHANGED item /\ Goto(t, back)
  BY <1>1, <1>2, <1>3, GotoStep DEF OnPlaces
<1>4. CASE item' = [item EXCEPT ![x] = i] /\ (Goto(t, back) \/ Save(t, x, back))
  <2>1. i \in ItemType /\ i.status = item[x].status
    <3>1. pos \in 0..Size
      BY TypedThread
    <3> HIDE DEF pos
    <3> QED
      BY <1>2, <3>1 DEF ItemType
  <2>2. thread[t].on = x /\ item' = [item EXCEPT ![x] = i] /\ item'[x] = i
    BY <1>2, <1>4 DEF Inv, TypeInv
  <2> HIDE DEF x, i, back
  <2>3. queue' \in Seq(Outgoing) /\ QueuedHasTurn' /\ Store' /\ active' = active
    BY <1>1, <1>2, <2>1, <2>2, QueueKept, SameStore
  <2>4. x \in Outgoing => i.status # "offered"
    BY <2>1 DEF Inv, TypeInv
  <2>5. /\ x = active => i.status \in Active \/ item[x].status \notin Active
        /\ i.status = "transferring" => back \in WorkPlaces
    BY <1>2, <2>1
  <2>6. CASE Goto(t, back)
    <3>1. Moves(t, back, x, thread[t].next)
      BY <1>2, <2>2, <2>6, TypedThread, GotoEffect
    <3>2. back # "save"
      BY <1>2
    <3> QED
      BY <1>2, <2>1, <2>2, <2>3, <2>4, <2>5, <3>1, <3>2, OneTurns, Zenon
  <2>7. CASE Save(t, x, back)
    <3>1. thread' = [thread EXCEPT ![t] = Saving(t, x, i, back)]
      BY <2>2, <2>7 DEF Save
    <3>2. Moves(t, "save", x, back)
      BY <1>2, <2>1, <3>1, TypedThread, SavingEffect
    <3> QED
      BY <1>2, <2>1, <2>2, <2>3, <2>4, <2>5, <3>2, OneSaves, Zenon
  <2> QED
    BY <1>4, <2>6, <2>7
<1> QED
  BY <1>3, <1>4 DEF Progress

(* The transfer's partial file may go, its entry in cancels does. *)
LEMMA EndedStore ==
    ASSUME Inv, NEW x \in Transfers, UNCHANGED <<row, dest>>,
           partial' = partial \/ partial' = [partial EXCEPT ![x] = NoFile],
           cancels' = [cancels EXCEPT ![x] = None]
    PROVE  Store'
  BY RemovedFileType DEF Inv, TypeInv, Store

(* It ends, and the one that ended it goes on to advance the queue. *)
LEMMA EndsItem ==
    ASSUME Inv, NEW t \in Threads, NEW x \in Transfers, NEW i \in ItemType, item' = [item EXCEPT ![x] = i],
           NEW r \in ThreadType, r.at = "save", r.on = x, r.next = "advance",
           thread' = OwnerEnded(t, x, r) \/ thread' = Unlinked(x, OwnerEnded(t, x, r)),
           Store', queue' \in Seq(Outgoing), QueuedHasTurn', active' = active,
           Going(thread[t]) # "advance", Going(thread[t]) \in WorkPlaces => thread[t].on = x,
           i.status \notin {"offered", "transferring"}
    PROVE  Inv'
<1>1. Moves(t, "save", x, "advance")
  BY TypedThread, EndOwnerEffect, EndedEffect
<1>2. "advance" \notin InPlaces \union OutPlaces
  BY DEF InPlaces, OutPlaces
<1> QED
  BY <1>1, <1>2, OneSaves, Zenon

LEMMA FinishWithErrorStep ==
    ASSUME Inv, NEW t \in Threads, FinishWithError(t)
    PROVE  Inv'
<1> DEFINE x == thread[t].on
           resume == x \in Incoming /\ item[x].path /\ item[x].bytes > 0 /\ partial[x] # NoFile
           s == IF resume THEN "resumable" ELSE IF At(t, "fail") /\ Canceled(t) THEN "canceled" ELSE "failed"
           i == [item[x] EXCEPT !.status = s, !.resumable = @ \/ resume, !.finished = @ \/ ~resume]
<1>1. thread[t].at \in {"fail", "failed"}
  BY DEF FinishWithError, At
<1>2. x \in Transfers /\ item[x] \in ItemType /\ Going(thread[t]) = thread[t].at
  BY <1>1, OnType DEF OnPlaces, Going
<1>3. CASE ~Exists(x)
  <2>1. Done(t) /\ UNCHANGED <<item, queue, active, row, cancels, partial, dest>> /\ item[x].status # "transferring"
    BY <1>3 DEF FinishWithError, Exists, manager, disk
  <2> QED
    BY <1>1, <2>1, DoneStep
<1>4. CASE Exists(x)
  <2>1. EndWith(t, x, i)
    BY <1>4 DEF FinishWithError
  <2>2. i \in ItemType /\ i.status \notin {"offered", "transferring", "queued"}
    <3>1. PICK more \in BOOLEAN, last \in BOOLEAN :
              more = (item[x].resumable \/ resume) /\ last = (item[x].finished \/ ~resume)
      BY <1>2 DEF ItemType
    <3>2. i = [item[x] EXCEPT !.status = s, !.resumable = more, !.finished = last]
      BY <3>1
    <3>3. s \in Statuses /\ s \notin {"offered", "transferring", "queued"}
      BY DEF Statuses, Ended
    <3> HIDE DEF s
    <3>4. ResumableAs([item[x] EXCEPT !.status = s, !.resumable = more, !.finished = last], s)
      BY <1>2, <3>1, <3>3, ResumableType
    <3> HIDE DEF i
    <3> QED
      BY <3>2, <3>3, <3>4 DEF ResumableAs
  <2> HIDE DEF i, x
  <2>3. /\ item' = [item EXCEPT ![x] = i] /\ thread' = Unlinked(x, OwnerEnded(t, x, Saving(t, x, i, "advance")))
        /\ UNCHANGED <<queue, active, row, dest>> /\ cancels' = [cancels EXCEPT ![x] = None]
        /\ partial' = partial \/ partial' = [partial EXCEPT ![x] = NoFile]
    BY <2>1 DEF EndWith, Cleanup
  <2>4. PICK r \in ThreadType : r = Saving(t, x, i, "advance") /\ r.at = "save" /\ r.on = x /\ r.next = "advance"
    BY <1>2, <2>2, TypedThread, SavingType DEF Places, OnPlaces
  <2>5. Store'
    BY <1>2, <2>3, EndedStore
  <2>6. queue' \in Seq(Outgoing) /\ QueuedHasTurn'
    BY <1>2, <2>2, <2>3, QueueKept
  <2>7. thread[t].on = x
    BY DEF x
  <2>8. thread' = Unlinked(x, OwnerEnded(t, x, r))
    BY <2>3, <2>4
  <2>9. active' = active /\ Going(thread[t]) # "advance"
    BY <1>1, <1>2, <2>3
  <2> QED
    BY <1>2, <2>2, <2>3, <2>4, <2>5, <2>6, <2>7, <2>8, <2>9, EndsItem, Zenon
<1> QED
  BY <1>3, <1>4

LEMMA CompleteStep ==
    ASSUME Inv, NEW t \in Threads, Complete(t)
    PROVE  Inv'
<1> DEFINE x == thread[t].on
           i == [item[x] EXCEPT !.status = "completed", !.finished = TRUE, !.bytes = Size, !.resumable = FALSE]
<1>1. thread[t].at = "complete" /\ UNCHANGED <<queue, active, row, partial, dest>>
  BY DEF Complete, At, manager, disk
<1>2. x \in Transfers /\ item[x] \in ItemType /\ Going(thread[t]) = thread[t].at
  BY <1>1, OnType DEF OnPlaces, Going
<1>3. CASE item[x].status # "transferring"
  <2>1. Done(t) /\ UNCHANGED <<item, queue, active, row, cancels, partial, dest>>
    BY <1>3 DEF Complete, manager, disk
  <2> QED
    BY <1>1, <1>3, <2>1, DoneStep
<1>4. CASE item[x].status = "transferring"
  <2>1. /\ item' = [item EXCEPT ![x] = i] /\ item'[x] = i /\ cancels' = [cancels EXCEPT ![x] = None]
        /\ thread' = OwnerEnded(t, x, Saving(t, x, item'[x], "advance"))
    BY <1>2, <1>4 DEF Complete, Inv, TypeInv
  <2>2. i \in ItemType /\ i.status = "completed"
    <3> DEFINE yes == TRUE
               no == FALSE
    <3>1. yes \in BOOLEAN /\ no \in BOOLEAN /\ "completed" \in Statuses /\ Size \in 0..Size
      BY SizeAssumption DEF Statuses, Ended
    <3> HIDE DEF yes, no
    <3>2. LET m == [item[x] EXCEPT !.status = "completed", !.finished = yes, !.bytes = Size, !.resumable = no]
          IN  m \in ItemType /\ m.status = "completed"
      BY <1>2, <3>1 DEF ItemType
    <3> QED
      BY <3>2 DEF yes, no
  <2> HIDE DEF i, x
  <2>3. PICK r \in ThreadType : r = Saving(t, x, i, "advance") /\ r.at = "save" /\ r.on = x /\ r.next = "advance"
    BY <1>2, <2>2, TypedThread, SavingType DEF Places, OnPlaces
  <2>4. Store'
    BY <1>1, <1>2, <2>1, EndedStore
  <2>5. queue' \in Seq(Outgoing) /\ QueuedHasTurn'
    BY <1>1, <1>2, <2>1, <2>2, QueueKept
  <2>6. thread[t].on = x /\ i.status \notin {"offered", "transferring"}
    BY <2>2 DEF x
  <2>7. thread' = OwnerEnded(t, x, r)
    BY <2>1, <2>3
  <2> QED
    BY <1>1, <1>2, <2>1, <2>2, <2>3, <2>4, <2>5, <2>6, <2>7, EndsItem
<1> QED
  BY <1>3, <1>4

(* What is taken out of the queue leaves the others in it. *)
LEMMA RemoveFirstKeeps ==
    ASSUME NEW s \in Seq(Outgoing), NEW x
    PROVE  LET r == RemoveFirst(s, x)
           IN  r \in Seq(Outgoing) /\ \A k \in DOMAIN s : s[k] # x => \E j \in DOMAIN r : r[j] = s[k]
<1> DEFINE hits == {i \in DOMAIN s : s[i] = x}
           i == CHOOSE j \in hits : \A k \in hits : j <= k
           front == SubSeq(s, 1, i - 1)
           back == SubSeq(s, i + 1, Len(s))
           r == front \o back
           less == OpToRel(<, Nat)
<1>1. CASE hits = {}
  BY <1>1 DEF RemoveFirst
<1>2. CASE hits # {}
  <2>0. DOMAIN s = 1..Len(s) /\ Len(s) \in Nat
    OBVIOUS
  <2>1. hits \subseteq Nat
    BY <2>0
  <2>2. IsWellFoundedOn(less, Nat)
    BY NatLessThanWellFounded
  <2> HIDE DEF less
  <2>3. PICK m \in hits : \A j \in hits : ~(<<j, m>> \in less)
    BY <1>2, <2>1, <2>2, WFMin
  <2>4. \A j \in hits : m <= j
    <3> TAKE j \in hits
    <3>1. m \in Nat /\ j \in Nat /\ ~(<<j, m>> \in less)
      BY <2>1, <2>3
    <3>2. ~(j < m)
      BY <3>1 DEF less, OpToRel
    <3> QED
      BY <3>1, <3>2
  <2>5. i \in hits
    BY <2>4
  <2>6. RemoveFirst(s, x) = r
    BY <1>2 DEF RemoveFirst
  <2> DEFINE n == Len(s)
  <2>7. n \in Nat /\ i \in 1..n /\ s[i] = x /\ DOMAIN s = 1..n /\ \A k \in 1..n : s[k] \in Outgoing
    BY <2>0, <2>5
  <2>8. front = SubSeq(s, 1, i - 1) /\ back = SubSeq(s, i + 1, n)
    OBVIOUS
  <2> HIDE DEF i, hits, n, front, back
  <2>9. /\ front \in Seq(Outgoing) /\ Len(front) = i - 1 /\ \A k \in 1..(i - 1) : front[k] = s[k]
    <3>1. \A k \in 1..(i - 1) : s[k] \in Outgoing
      BY <2>7
    <3>2. /\ front \in Seq(Outgoing) /\ Len(front) = IF 1 <= i - 1 THEN i - 1 - 1 + 1 ELSE 0
          /\ \A k \in 1..(i - 1 - 1 + 1) : front[k] = s[1 + k - 1]
      BY <2>7, <2>8, <3>1, SubSeqProperties
    <3>3. Len(front) = i - 1
      BY <2>7, <3>2
    <3>4. ASSUME NEW k \in 1..(i - 1)
          PROVE  front[k] = s[k]
      <4>1. 1 + k - 1 = k /\ k \in 1..(i - 1 - 1 + 1)
        BY <2>7
      <4> QED
        BY <3>2, <4>1
    <3> QED
      BY <3>2, <3>3, <3>4
  <2>10. /\ back \in Seq(Outgoing) /\ Len(back) = n - i /\ \A k \in 1..(n - i) : back[k] = s[i + k]
    <3>1. \A k \in (i + 1)..n : s[k] \in Outgoing
      BY <2>7
    <3>2. /\ back \in Seq(Outgoing) /\ Len(back) = IF i + 1 <= n THEN n - (i + 1) + 1 ELSE 0
          /\ \A k \in 1..(n - (i + 1) + 1) : back[k] = s[(i + 1) + k - 1]
      BY <2>7, <2>8, <3>1, SubSeqProperties
    <3>3. Len(back) = n - i
      BY <2>7, <3>2
    <3>4. ASSUME NEW k \in 1..(n - i)
          PROVE  back[k] = s[i + k]
      <4>1. (i + 1) + k - 1 = i + k /\ k \in 1..(n - (i + 1) + 1)
        BY <2>7
      <4> QED
        BY <3>2, <4>1
    <3> QED
      BY <3>2, <3>3, <3>4
  <2>11. /\ r \in Seq(Outgoing) /\ Len(r) = (i - 1) + (n - i)
         /\ \A k \in 1..((i - 1) + (n - i)) : r[k] = IF k <= i - 1 THEN front[k] ELSE back[k - (i - 1)]
    <3>1. /\ front \o back \in Seq(Outgoing) /\ Len(front \o back) = Len(front) + Len(back)
          /\ \A k \in 1..Len(front) + Len(back) :
                (front \o back)[k] = IF k <= Len(front) THEN front[k] ELSE back[k - Len(front)]
      BY <2>9, <2>10, ConcatProperties
    <3> QED
      BY <2>9, <2>10, <3>1
  <2>12. DOMAIN r = 1..((i - 1) + (n - i))
    BY <2>11
  <2> HIDE DEF r
  <2>13. ASSUME NEW k \in DOMAIN s, s[k] # x
         PROVE  \E j \in DOMAIN r : r[j] = s[k]
    <3>0. k \in 1..n /\ k # i
      BY <2>7, <2>13
    <3>1. CASE k < i
      <4>1. k \in 1..(i - 1) /\ k \in 1..((i - 1) + (n - i)) /\ k <= i - 1
        BY <2>7, <3>0, <3>1
      <4> QED
        BY <2>9, <2>11, <2>12, <4>1
    <3>2. CASE k > i
      <4> DEFINE j == k - 1
      <4>1. /\ j \in 1..((i - 1) + (n - i)) /\ ~(j <= i - 1)
            /\ j - (i - 1) \in 1..(n - i) /\ i + (j - (i - 1)) = k
        BY <2>7, <3>0, <3>2
      <4> HIDE DEF j
      <4>2. r[j] = back[j - (i - 1)]
        BY <2>11, <4>1
      <4>3. back[j - (i - 1)] = s[i + (j - (i - 1))]
        BY <2>10, <4>1
      <4> QED
        BY <2>12, <4>1, <4>2, <4>3
    <3> QED
      BY <2>7, <3>0, <3>1, <3>2
  <2> QED
    BY <2>6, <2>11, <2>13
<1> QED
  BY <1>1, <1>2

LEMMA CancelLockedStep ==
    ASSUME Inv, NEW t \in Threads, NEW x \in Transfers, thread[t].at = "idle", CancelLocked(t, x)
    PROVE  Inv'
<1> DEFINE resume == x \in Incoming /\ item[x].path /\ item[x].bytes > 0
           s == IF resume THEN "resumable" ELSE "canceled"
           i == [item[x] EXCEPT !.status = s, !.resumable = @ \/ resume, !.finished = @ \/ ~resume]
           todo == thread[t].todo \ {x}
           r == [Saving(t, x, i, "advance") EXCEPT !.todo = todo]
<1>1. item[x] \in ItemType
  BY DEF Inv, TypeInv
<1>2. /\ item' = [item EXCEPT ![x] = i] /\ item'[x] = i
      /\ thread' = Unlinked(x, OwnerEnded(t, x, [Saving(t, x, item'[x], "advance") EXCEPT !.todo = thread[t].todo \ {x}]))
      /\ UNCHANGED <<active, row, dest>> /\ cancels' = [cancels EXCEPT ![x] = None]
      /\ partial' = partial \/ partial' = [partial EXCEPT ![x] = NoFile]
      /\ queue' = RemoveFirst(queue, x)
  BY DEF CancelLocked, Cleanup, Inv, TypeInv
<1>3. i \in ItemType /\ i.status \notin {"offered", "transferring", "queued"}
  <2> DEFINE more == item[x].resumable \/ resume
             last == item[x].finished \/ ~resume
  <2>1. more \in BOOLEAN /\ last \in BOOLEAN
    BY <1>1 DEF ItemType
  <2>2. i = [item[x] EXCEPT !.status = s, !.resumable = more, !.finished = last]
    BY <1>1 DEF ItemType
  <2>3. s \in Statuses /\ s \notin {"offered", "transferring", "queued"}
    BY DEF Statuses, Ended
  <2> HIDE DEF more, last, s, i
  <2>4. LET m == [item[x] EXCEPT !.status = s, !.resumable = more, !.finished = last]
        IN  m \in ItemType /\ m.status = s
    BY <1>1, <2>1, <2>3 DEF ItemType
  <2> QED
    BY <2>2, <2>3, <2>4
<1> HIDE DEF i
<1>4. r \in ThreadType /\ r.at = "save" /\ r.on = x /\ r.next = "advance"
  <2>1. PICK k \in ThreadType : k = Saving(t, x, i, "advance") /\ k.at = "save" /\ k.on = x /\ k.next = "advance"
    BY <1>3, TypedThread, SavingType DEF Places, OnPlaces
  <2>2. todo \in SUBSET Transfers /\ r = [k EXCEPT !.todo = todo]
    BY <2>1, TypedThread
  <2> HIDE DEF todo, r
  <2> QED
    BY <2>1, <2>2, TodoType
<1>5. thread' = Unlinked(x, OwnerEnded(t, x, r))
  BY <1>2
<1> HIDE DEF r
<1>6. Store'
  BY <1>2, EndedStore
<1>7. queue' \in Seq(Outgoing) /\ QueuedHasTurn'
  <2>1. queue \in Seq(Outgoing)
    BY DEF Inv, TypeInv
  <2>2. queue' \in Seq(Outgoing) /\ \A k \in DOMAIN queue : queue[k] # x => \E j \in DOMAIN queue' : queue'[j] = queue[k]
    BY <1>2, <2>1, RemoveFirstKeeps
  <2>3. ASSUME NEW y \in Outgoing, item'[y].status = "queued"
        PROVE  \E k \in DOMAIN queue' : queue'[k] = y
    <3>1. y # x /\ item[y].status = "queued"
      BY <1>2, <1>3, <2>3 DEF Inv, TypeInv, Transfers
    <3>2. PICK k \in DOMAIN queue : queue[k] = y
      BY <3>1 DEF Inv, QueuedHasTurn
    <3> QED
      BY <2>2, <3>1, <3>2
  <2> QED
    BY <2>2, <2>3 DEF QueuedHasTurn
<1>8. Going(thread[t]) \notin WorkPlaces \union {"advance"}
  BY DEF Going, WorkPlaces
<1> QED
  BY <1>2, <1>3, <1>4, <1>5, <1>6, <1>7, <1>8, EndsItem

LEMMA CancelNextStep ==
    ASSUME Inv, NEW t \in Threads, CancelNext(t)
    PROVE  Inv'
<1>1. thread[t].at = "idle"
  BY DEF CancelNext, At
<1>2. PICK x \in thread[t].todo :
          \/ CancelLocked(t, x)
          \/ thread' = [thread EXCEPT ![t].todo = @ \ {x}] /\ UNCHANGED <<manager, disk, bounds>>
  BY DEF CancelNext
<1>3. CASE CancelLocked(t, x)
  BY <1>1, <1>3, TypedThread, CancelLockedStep
<1>4. CASE thread' = [thread EXCEPT ![t].todo = @ \ {x}] /\ UNCHANGED <<manager, disk, bounds>>
  <2> DEFINE todo == thread[t].todo \ {x}
             r == [thread[t] EXCEPT !.todo = todo]
  <2>1. todo \in SUBSET Transfers /\ thread' = [thread EXCEPT ![t] = r]
    BY <1>4, TypedThread
  <2> HIDE DEF todo
  <2>2. r \in ThreadType /\ r.at = thread[t].at /\ r.on = thread[t].on /\ r.next = thread[t].next
    BY <2>1, TypedThread, TodoType
  <2> HIDE DEF r
  <2>3. Moves(t, "idle", thread[t].on, thread[t].next)
    BY <1>1, <2>1, <2>2, TypedThread DEF Moves, Same
  <2>4. OnTrack(t)'
    BY <2>3 DEF OnTrack, Moves, Going, OnPlaces, InPlaces, OutPlaces
  <2>5. UNCHANGED <<item, queue, active, row, cancels, partial, dest>>
    BY <1>4 DEF manager, disk
  <2> QED
    BY <1>1, <2>3, <2>4, <2>5, SameStore, Begins
<1> QED
  BY <1>2, <1>3, <1>4

LEMMA AdvanceStep ==
    ASSUME Inv, NEW t \in Threads, Advance(t)
    PROVE  Inv'
<1>1. /\ thread[t].at = "advance" /\ Goto(t, "start") /\ UNCHANGED <<item, queue, cancels, row, partial, dest>>
      /\ active' = IF active = thread[t].on THEN None ELSE active
  BY DEF Advance, At, disk
<1>2. Moves(t, "start", thread[t].on, thread[t].next)
  BY <1>1, TypedThread, GotoEffect DEF Places, OnPlaces
<1>3. OnTrack(t)'
  BY <1>1, <1>2, TypedThread DEF OnTrack, Moves, Going, OnPlaces, InPlaces, OutPlaces
<1>4. Frame({t})
  BY <1>2, <1>3 DEF Frame, Moves
<1>5. QueuedHasTurn' /\ Store'
  BY <1>1, SameStore DEF Inv, QueuedHasTurn
<1>6. /\ item' \in [Transfers -> ItemType] /\ queue' \in Seq(Outgoing) /\ active' \in Outgoing \union {None}
      /\ \A y \in Outgoing : item'[y].status # "offered"
  BY <1>1 DEF Inv, TypeInv
<1>7. active' # None =>
         \/ item'[active'].status \in Active \/ \E d \in {t} : Ending(d, active)'
         \/ active' = active /\ item[active].status \notin Active /\ \A d \in {t} : ~Ending(d, active)
  BY <1>1 DEF Ending
<1>8. \A y \in Transfers : item'[y].status = "transferring" =>
         \/ \E d \in {t} : Working(d, y)'
         \/ item[y].status = "transferring" /\ \A d \in {t} : ~Working(d, y)
  BY <1>1 DEF Working, Going, WorkPlaces
<1> QED
  BY <1>4, <1>5, <1>6, <1>7, <1>8, InvStays

(* The first of the queue is taken. *)
LEMMA TailKept ==
    ASSUME Inv, queue # <<>>, queue' = Tail(queue), NEW i \in ItemType,
           item' = item \/ item' = [item EXCEPT ![Head(queue)] = i],
           item'[Head(queue)].status # "queued"
    PROVE  /\ Head(queue) \in Outgoing /\ queue' \in Seq(Outgoing) /\ QueuedHasTurn'
<1> DEFINE n == Len(queue)
<1>1. queue \in Seq(Outgoing) /\ n \in Nat /\ DOMAIN queue = 1..n
  BY DEF Inv, TypeInv
<1>2. /\ Head(queue) \in Outgoing /\ queue' \in Seq(Outgoing) /\ Head(queue) = queue[1]
      /\ Len(queue') = n - 1 /\ \A k \in 1..(n - 1) : queue'[k] = queue[k + 1]
  BY <1>1, HeadTailProperties
<1>3. DOMAIN queue' = 1..(n - 1)
  BY <1>2
<1> HIDE DEF n
<1>4. ASSUME NEW y \in Outgoing, item'[y].status = "queued"
      PROVE  \E k \in DOMAIN queue' : queue'[k] = y
  <2>1. y # Head(queue) /\ item[y].status = "queued"
    BY <1>2, <1>4 DEF Inv, TypeInv, Transfers
  <2>2. PICK k \in DOMAIN queue : queue[k] = y
    BY <2>1 DEF Inv, QueuedHasTurn
  <2>3. k \in 1..n /\ k # 1
    BY <1>1, <1>2, <2>1, <2>2
  <2>4. k - 1 \in 1..(n - 1) /\ (k - 1) + 1 = k
    BY <1>1, <2>3
  <2>5. queue'[k - 1] = queue[k]
    BY <1>2, <2>4
  <2> QED
    BY <1>3, <2>2, <2>4, <2>5
<1> QED
  BY <1>2, <1>4 DEF QueuedHasTurn

LEMMA StartNextStep ==
    ASSUME Inv, NEW t \in Threads, StartNext(t)
    PROVE  Inv'
<1> DEFINE x == Head(queue)
           i == [item[x] EXCEPT !.status = "negotiating"]
<1>1. thread[t].at = "start" /\ UNCHANGED <<cancels, row, partial, dest>>
  BY DEF StartNext, At, disk
<1>2. CASE active # None \/ queue = <<>> \/ ~enabled
  <2>1. Done(t) /\ UNCHANGED <<item, queue, active>>
    BY <1>2 DEF StartNext
  <2> QED
    BY <1>1, <2>1, DoneStep DEF WorkPlaces
<1>3. CASE ~(active # None \/ queue = <<>> \/ ~enabled)
  <2>1. queue # <<>> /\ queue' = Tail(queue) /\ active = None
    BY <1>3 DEF StartNext
  <2>2. x \in Outgoing /\ x \in Transfers
    BY <2>1, HeadTailProperties DEF Inv, TypeInv, Transfers
  <2>3. CASE item[x].status # "queued"
    <3>1. UNCHANGED <<item, active, thread>>
      BY <1>3, <2>3 DEF StartNext
    <3>2. queue' \in Seq(Outgoing) /\ QueuedHasTurn'
      BY <2>1, <2>3, <3>1, TailKept, UnknownType
    <3>3. Frame({}) /\ Store'
      BY <1>1, <3>1, SameStore, TypedThread DEF Frame, Same
    <3>4. /\ item' \in [Transfers -> ItemType] /\ active' \in Outgoing \union {None} /\ active' = None
          /\ \A y \in Outgoing : item'[y].status # "offered"
          /\ \A y \in Transfers : item'[y].status = item[y].status
      BY <2>1, <3>1 DEF Inv, TypeInv
    <3>5. /\ active' # None =>
               \/ item'[active'].status \in Active \/ \E d \in {} : Ending(d, active)'
               \/ active' = active /\ item[active].status \notin Active /\ \A d \in {} : ~Ending(d, active)
          /\ \A y \in Transfers : item'[y].status = "transferring" =>
               \/ \E d \in {} : Working(d, y)'
               \/ item[y].status = "transferring" /\ \A d \in {} : ~Working(d, y)
      BY <3>4
    <3> QED
      BY <3>2, <3>3, <3>4, <3>5, InvStays
  <2>4. CASE item[x].status = "queued"
    <3>1. PICK mode \in {"beginClassic", "beginPassive"} : Save(t, x, mode) /\ active' = x /\ item' = [item EXCEPT ![x] = i]
      BY <1>3, <2>4 DEF StartNext
    <3>2. i \in ItemType /\ i.status = "negotiating"
      BY <2>2, StatusType DEF Statuses, Active, Inv, TypeInv
    <3>3. /\ thread' = [thread EXCEPT ![t] = Saving(t, x, i, mode)] /\ item'[x] = i
          /\ item' \in [Transfers -> ItemType] /\ \A y \in Transfers \ {x} : item'[y] = item[y]
      BY <2>2, <3>1, <3>2 DEF Save, Inv, TypeInv
    <3>4. queue' \in Seq(Outgoing) /\ QueuedHasTurn'
      BY <2>1, <3>1, <3>2, <3>3, TailKept
    <3>5. Frame({t})
      <4>1. Moves(t, "save", x, mode)
        BY <2>2, <3>2, <3>3, TypedThread, SavingEffect DEF Places, OnPlaces, OutPlaces
      <4>2. OnTrack(t)'
        BY <2>2, <4>1 DEF OnTrack, Moves, Going, InPlaces
      <4> QED
        BY <4>1, <4>2 DEF Frame, Moves
    <3>6. /\ active' # None => item'[active'].status \in Active
          /\ \A y \in Outgoing : item'[y].status # "offered"
          /\ active' \in Outgoing \union {None}
      BY <2>2, <3>1, <3>2, <3>3 DEF Active, Inv, TypeInv, Transfers
    <3>7. \A y \in Transfers : item'[y].status = "transferring" =>
               \/ \E d \in {t} : Working(d, y)'
               \/ item[y].status = "transferring" /\ \A d \in {t} : ~Working(d, y)
      BY <1>1, <3>2, <3>3 DEF Working, Going, WorkPlaces
    <3> HIDE DEF x, i
    <3> QED
      BY <1>1, <3>3, <3>4, <3>5, <3>6, <3>7, SameStore, InvStays
  <2> QED
    BY <2>3, <2>4
<1> QED
  BY <1>2, <1>3

LEMMA DiscardPartialStep ==
    ASSUME Inv, NEW t \in Threads, NEW x \in Transfers, DiscardPartial(t, x)
    PROVE  Inv'
<1>1. /\ x \in Incoming /\ item' = [item EXCEPT ![x] = Removed]
      /\ row' = [row EXCEPT ![x] = IF @.finished THEN Unknown ELSE @]
      /\ partial' = [partial EXCEPT ![x] = NoFile] /\ thread' = Unlinked(x, thread)
      /\ UNCHANGED <<queue, active, cancels, dest>>
  BY DEF DiscardPartial, Forget
<1>2. Store'
  BY <1>1, RemovedFileType, UnknownType DEF Inv, TypeInv, Store
<1>3. Frame({})
  BY <1>1, TypedThread, UnlinkedEffect DEF Frame, Same, Inv, TypeInv
<1>4. Removed \in ItemType /\ Removed.status = "removed" /\ x \notin Outgoing /\ x # active
  BY <1>1, UnknownType, Directions
<1>5. queue' \in Seq(Outgoing) /\ QueuedHasTurn'
  BY <1>1, <1>4, QueueKept
<1>6. /\ {} \in SUBSET Threads /\ active' = active
      /\ \A d \in {} : Going(thread[d]) # "advance" /\ (Going(thread[d]) \in WorkPlaces => thread[d].on = x)
      /\ x = active => Removed.status \in Active \/ item[x].status \notin Active \/ \E d \in {} : Ending(d, x)'
  BY <1>1, <1>4
<1> QED
  BY <1>1, <1>2, <1>3, <1>4, <1>5, <1>6, ItemStep

LEMMA RemoveHistoryStep ==
    ASSUME Inv, NEW t \in Threads, NEW x \in Transfers, RemoveHistory(t, x)
    PROVE  Inv'
<1>1. /\ item[x].status \notin Active /\ item' = [item EXCEPT ![x] = Removed]
      /\ row' = [row EXCEPT ![x] = IF @.finished THEN Unknown ELSE @]
      /\ UNCHANGED <<queue, active, cancels, partial, dest, thread>>
  BY DEF RemoveHistory, Forget, Ended, Active
<1>2. Store'
  BY <1>1, UnknownType DEF Inv, TypeInv, Store
<1>3. Frame({})
  BY <1>1 DEF Frame, Same, Inv, TypeInv
<1>4. Removed \in ItemType /\ Removed.status = "removed"
  BY UnknownType
<1>5. queue' \in Seq(Outgoing) /\ QueuedHasTurn'
  BY <1>1, <1>4, QueueKept
<1>6. /\ {} \in SUBSET Threads /\ active' = active
      /\ \A d \in {} : Going(thread[d]) # "advance" /\ (Going(thread[d]) \in WorkPlaces => thread[d].on = x)
      /\ x = active => Removed.status \in Active \/ item[x].status \notin Active \/ \E d \in {} : Ending(d, x)'
  BY <1>1, <1>4
<1> QED
  BY <1>1, <1>2, <1>3, <1>4, <1>5, <1>6, ItemStep

LEMMA ClearHistoryStep ==
    ASSUME Inv, NEW t \in Threads, ClearHistory(t)
    PROVE  Inv'
<1>1. /\ item' = [x \in Transfers |->
                     IF Exists(x) /\ item[x].status \notin Active /\ ~item[x].resumable THEN Removed ELSE item[x]]
      /\ row' = [x \in Transfers |-> IF row[x].finished THEN Unknown ELSE row[x]]
      /\ UNCHANGED <<queue, active, cancels, partial, dest, thread>>
  BY DEF ClearHistory
<1>2. Store'
  BY <1>1, UnknownType DEF Inv, TypeInv, Store
<1>3. Frame({})
  BY <1>1 DEF Frame, Same, Inv, TypeInv
<1>4. /\ item' \in [Transfers -> ItemType]
      /\ \A y \in Transfers : item'[y] = item[y] \/ (item'[y].status = "removed" /\ item[y].status \notin Active)
  <2>1. ASSUME NEW y \in Transfers
        PROVE  /\ item'[y] = item[y] \/ (item'[y] = Removed /\ item[y].status \notin Active)
               /\ item'[y] \in ItemType
    <3>1. item[y] \in ItemType
      BY DEF Inv, TypeInv
    <3> DEFINE gone == Exists(y) /\ item[y].status \notin Active /\ ~item[y].resumable
    <3>2. (gone => item[y].status \notin Active) /\ item'[y] = IF gone THEN Removed ELSE item[y]
      BY <1>1
    <3> HIDE DEF gone
    <3>3. CASE gone
      BY <3>2, <3>3, UnknownType
    <3>4. CASE ~gone
      BY <3>1, <3>2, <3>4
    <3> QED
      BY <3>3, <3>4
  <2> QED
    BY <1>1, <2>1, UnknownType
<1>5. queue' \in Seq(Outgoing) /\ QueuedHasTurn' /\ active' \in Outgoing \union {None}
      /\ \A y \in Outgoing : item'[y].status # "offered"
  BY <1>1, <1>4 DEF Inv, TypeInv, QueuedHasTurn, Transfers
<1>6. active' # None =>
         \/ item'[active'].status \in Active \/ \E d \in {} : Ending(d, active)'
         \/ active' = active /\ item[active].status \notin Active /\ \A d \in {} : ~Ending(d, active)
  BY <1>1, <1>4 DEF Inv, TypeInv, Transfers
<1>7. \A y \in Transfers : item'[y].status = "transferring" =>
         \/ \E d \in {} : Working(d, y)'
         \/ item[y].status = "transferring" /\ \A d \in {} : ~Working(d, y)
  BY <1>4
<1> QED
  BY <1>2, <1>3, <1>4, <1>5, <1>6, <1>7, InvStays

LEMMA StutterStep ==
    ASSUME Inv, UNCHANGED <<item, queue, active, cancels, row, partial, dest, thread>>
    PROVE  Inv'
  BY DEF Inv, TypeInv, QueuedHasTurn, SlotInv, WorkInv, OnTrack, Going, Ending, Working

(* What a restart makes of a row: nothing that is queued, or at work. *)
LEMMA RestoredType ==
    ASSUME Inv, NEW x \in Transfers
    PROVE  Restored(x) \in ItemType /\ Restored(x).status \notin Active
<1> DEFINE r == row[x]
           resume == x \in Incoming /\ r.path /\ r.bytes > 0
           s == IF resume THEN "resumable" ELSE "failed"
           no == FALSE
           kept == [r EXCEPT !.offer = no, !.token = no]
           changed == [r EXCEPT !.status = s, !.resumable = @ \/ resume, !.finished = ~resume, !.offer = no, !.token = no]
<1>1. r \in ItemType
  BY DEF Inv, TypeInv
<1>2. kept \in ItemType /\ kept.status = r.status
  <2>1. no \in BOOLEAN
    OBVIOUS
  <2> HIDE DEF no, r
  <2> QED
    BY <1>1, <2>1 DEF ItemType
<1>3. changed \in ItemType /\ changed.status = s /\ s \notin Active
  <2> DEFINE more == r.resumable \/ resume
             last == ~resume
  <2>1. more \in BOOLEAN /\ last \in BOOLEAN /\ no \in BOOLEAN
    BY <1>1 DEF ItemType
  <2>2. s \in Statuses /\ s \notin Active
    BY DEF Statuses, Ended, Active
  <2>3. changed = [r EXCEPT !.status = s, !.resumable = more, !.finished = last, !.offer = no, !.token = no]
    BY <1>1 DEF ItemType
  <2> DEFINE half == [r EXCEPT !.status = s, !.resumable = more, !.finished = last]
  <2>4. changed = [half EXCEPT !.offer = no, !.token = no]
    BY <2>3
  <2> HIDE DEF more, last, s, no, r, changed
  <2>5. LET m == [r EXCEPT !.status = s, !.resumable = more, !.finished = last] IN m \in ItemType /\ m.status = s
    BY <1>1, <2>1, <2>2 DEF ItemType
  <2>6. half \in ItemType /\ half.status = s
    BY <2>5
  <2> HIDE DEF half
  <2>7. LET m == [half EXCEPT !.offer = no, !.token = no] IN m \in ItemType /\ m.status = s
    BY <2>1, <2>6 DEF ItemType
  <2> QED
    BY <2>2, <2>4, <2>7
<1>4. Restored(x) \in {Unknown, Removed, changed} \/ (Restored(x) = kept /\ r.status \notin Active)
  BY DEF Restored
<1> HIDE DEF changed, kept, r
<1>5. "absent" \notin Active /\ "removed" \notin Active
  BY DEF Active
<1> QED
  BY <1>2, <1>3, <1>4, <1>5, UnknownType

LEMMA RestartStep ==
    ASSUME Inv, Restart
    PROVE  Inv'
<1>1. /\ item' = [x \in Transfers |-> Restored(x)]
      /\ row' = [x \in Transfers |->
             IF row[x].status \in Active /\ ~row[x].finished THEN Persisted(x, Restored(x)) ELSE row[x]]
      /\ queue' = <<>> /\ active' = None
      /\ cancels' = [x \in Transfers |-> None] /\ thread' = [t \in Threads |-> Idle]
      /\ UNCHANGED <<partial, dest>>
  BY DEF Restart
<1>2. \A x \in Transfers : item'[x] \in ItemType /\ item'[x].status \notin Active
  BY <1>1, RestoredType
<1>3. item' \in [Transfers -> ItemType] /\ row' \in [Transfers -> ItemType]
  <2>1. \A x \in Transfers : Persisted(x, Restored(x)) \in ItemType /\ row[x] \in ItemType
    BY RestoredType, UnknownType DEF Persisted, Inv, TypeInv
  <2> QED
    BY <1>1, <1>2, <2>1
<1>4. \A t \in Threads : thread'[t] \in ThreadType /\ thread'[t].at = "idle" /\ OnTrack(t)'
  BY <1>1, UnknownType DEF OnTrack, Going, OnPlaces, InPlaces, OutPlaces
<1>5. "offered" \in Active /\ "queued" \in Active /\ "transferring" \in Active
  BY DEF Active
<1>6. TypeInv'
  <2>1. thread' \in [Threads -> ThreadType] /\ cancels' \in [Transfers -> Threads \union {None}]
    BY <1>1, <1>4
  <2>2. queue' \in Seq(Outgoing) /\ active' \in Outgoing \union {None} /\ \A y \in Outgoing : item'[y].status # "offered"
    <3>1. queue' \in Seq(Outgoing) /\ active' \in Outgoing \union {None}
      BY <1>1
    <3>2. \A y \in Outgoing : item'[y].status # "offered"
      BY <1>2, <1>5 DEF Transfers
    <3> QED
      BY <3>1, <3>2
  <2>3. partial' \in [Transfers -> SUBSET (0..Size)] /\ dest' \in [Transfers -> SUBSET (0..Size)]
    BY <1>1 DEF Inv, TypeInv
  <2> QED
    BY <1>3, <1>4, <2>1, <2>2, <2>3 DEF TypeInv
<1> QED
  BY <1>1, <1>2, <1>5, <1>6 DEF Inv, QueuedHasTurn, SlotInv, WorkInv, Transfers

LEMMA InitInv == Init => Inv
<1> SUFFICES ASSUME Init PROVE Inv
  OBVIOUS
<1>1. \A t \in Threads : thread[t] = Idle /\ OnTrack(t)
  BY UnknownType DEF Init, OnTrack, Going, OnPlaces, InPlaces, OutPlaces
<1>2. \A x \in Transfers : item[x].status = "absent"
  BY UnknownType DEF Init
<1>3. TypeInv
  <2>1. item \in [Transfers -> ItemType] /\ row \in [Transfers -> ItemType] /\ thread \in [Threads -> ThreadType]
    BY UnknownType DEF Init, InitialRows
  <2>2. partial \in [Transfers -> SUBSET (0..Size)] /\ dest \in [Transfers -> SUBSET (0..Size)]
    BY SizeAssumption DEF Init, NoFile
  <2>3. \A x \in Outgoing : item[x].status # "offered"
    BY <1>2 DEF Transfers
  <2>4. queue \in Seq(Outgoing) /\ active \in Outgoing \union {None} /\ cancels \in [Transfers -> Threads \union {None}]
    BY DEF Init
  <2> QED
    BY <1>1, <2>1, <2>2, <2>3, <2>4 DEF TypeInv
<1> QED
  BY <1>2, <1>3 DEF Init, Inv, QueuedHasTurn, SlotInv, WorkInv, Transfers

LEMMA CallInv ==
    ASSUME Inv, NEW t \in Threads, Call(t)
    PROVE  Inv'
<1>1. ASSUME NEW x \in Transfers, NEW request \in Requests(x), Admit(t, x, request)
      PROVE  Inv'
  BY <1>1, AdmitStep
<1>2. ASSUME NEW x \in Transfers,
             \/ Accept(t, x) \/ Retry(t, x) \/ Cancel(t, x) \/ Decline(t, x)
             \/ DiscardPartial(t, x) \/ RemoveHistory(t, x) \/ Locate(t, x)
      PROVE  Inv'
  <2>1. CASE Cancel(t, x)
    BY <2>1, CancelLockedStep DEF Cancel, Free, At
  <2> QED
    BY <1>2, <2>1, AcceptStep, RetryStep, DeclineStep, DiscardPartialStep, RemoveHistoryStep, LocateStep
<1>3. CASE TurnOn(t)
  BY <1>3, StutterStep DEF TurnOn, disk
<1>4. CASE ClearHistory(t) \/ TurnOffAndCancel(t) \/ Close(t)
  BY <1>4, ClearHistoryStep, SettingStep
<1> QED
  BY <1>1, <1>2, <1>3, <1>4 DEF Call

LEMMA NextInv == Inv /\ [Next]_vars => Inv'
<1> SUFFICES ASSUME Inv, [Next]_vars PROVE Inv'
  OBVIOUS
<1>1. CASE Restart
  BY <1>1, RestartStep
<1>2. ASSUME NEW t \in Threads, Call(t)
      PROVE  Inv'
  BY <1>2, CallInv
<1>3. ASSUME NEW t \in Threads, TurnOff(t)
      PROVE  Inv'
  BY <1>3, SettingStep
<1>4. ASSUME NEW t \in Threads, EndStep(t) \/ CancelAll(t) \/ CancelNext(t)
      PROVE  Inv'
  BY <1>4, SaveStepInv, AdvanceStep, FinishWithErrorStep, CompleteStep, CancelAllStep, CancelNextStep DEF EndStep
<1>5. ASSUME NEW t \in Threads, RequestStep(t)
      PROVE  Inv'
  BY <1>5, AddIncomingOfferStep, QueueOutgoingStep, QueuedCopyStep, ResumeAcceptStep, ResumeRequestStep,
     PassiveResponseStep, WorkerStartsStep DEF RequestStep
<1>6. ASSUME NEW t \in Threads, OutgoingStep(t)
      PROVE  Inv'
  BY <1>6, StartNextStep, ClassicStep, PublishPortStep, WorkerStartsStep, BeginPassiveStep, OfferPassiveStep
     DEF OutgoingStep
<1>7. ASSUME NEW t \in Threads, ReceiveStep(t)
      PROVE  Inv'
  BY <1>7, ClassicStep, WorkerStartsStep, MarkTransferringStep, OpenFileStep, ProgressStep, LinkDestinationStep,
     UnlinkPartialStep DEF ReceiveStep
<1>8. ASSUME NEW t \in Threads, PeerStep(t)
      PROVE  Inv'
  BY <1>8, ConnectedStep, PeerFailsStep, ChunkStep, TransferEndsStep, ClassicStep DEF PeerStep
<1>9. CASE UNCHANGED vars
  BY <1>9, StutterStep DEF vars, manager, disk
<1> QED
  BY <1>1, <1>2, <1>3, <1>4, <1>5, <1>6, <1>7, <1>8, <1>9 DEF Next, LocalStep

LEMMA AlwaysInv == SafetySpec => []Inv
  BY InitInv, NextInv, PTL DEF SafetySpec

(* A transfer that waits for its turn is in the queue, through every cancel,  *)
(* retry, late failure and restart (outgoingQueue, manager.go): none waits for *)
(* a turn that never comes.                                                   *)
THEOREM QueueKeepsPlace == SafetySpec => []QueuedHasTurn
<1>1. Inv => QueuedHasTurn
  BY DEF Inv
<1> QED
  BY AlwaysInv, <1>1, PTL

(* The one sending slot belongs to a transfer that can still be canceled, or  *)
(* that a goroutine is about to take out of it (advanceOutgoing): nothing     *)
(* blocks the queue for good.                                                 *)
THEOREM SlotIsFreed == SafetySpec => []SlotCanBeFreed
<1>1. Inv => SlotCanBeFreed
  BY DEF Inv, SlotInv, SlotCanBeFreed, OnIt, Ending
<1> QED
  BY AlwaysInv, <1>1, PTL

(* What says it is transferring has a goroutine that transfers it or is about *)
(* to end it (markTransferring, finishWithError, complete).                   *)
THEOREM TransferIsWorkedOn == SafetySpec => []TransferringHasWorker
<1>1. Inv => TransferringHasWorker
  BY DEF Inv, WorkInv, TransferringHasWorker, OnIt, Working
<1> QED
  BY AlwaysInv, <1>1, PTL

------------------------------------------------------------------------------
(* The file of an incoming transfer.  A goroutine has it in hand from the    *)
(* setup of its connection to the removal of the partial file.  What is said *)
(* here of a transfer x is about four ways its file can change under a        *)
(* goroutine that writes it: another goroutine resumes it, a cancel removes   *)
(* it, the other one has linked it first, or the user discards it.            *)

Writing == {"receiving", "received", "finalize"}
InHand  == Writing \union {"setup", "connectReceive", "mark", "openFile", "unlink"}
Linked  == {"unlink", "complete"}

Has(d, x)    == thread[d].on = x /\ Going(thread[d]) \in InHand
Writes(d, x) == thread[d].on = x /\ Going(thread[d]) \in Writing

Underway == {"negotiating", "connecting", "transferring"}
Fresh    == {"absent", "offered", "resumable", "declined"}

(* Until the next restart nobody can be given the transfer again. *)
Gone(x) == item[x].status = "removed" /\ x \in discarded
Dead(x) == \/ item[x].status = "removed"
           \/ item[x].status \in {"canceled", "failed"} /\ item[x].bytes = 0

HasChunk(x) == 1 \in partial[x]

(* After a restart the row of a discarded transfer may come back. *)
Untouched(x) ==
    /\ x \in discarded /\ item[x].status \notin Underway
    /\ \A d \in Threads : ~Has(d, x)

DiskInv(x) ==
    /\ partial[x] = NoFile \/ \E n \in 0..Size : partial[x] = 1..n
    /\ dest[x] \in {NoFile, Whole} \/ x \in discarded

ItemInv(x) ==
    /\ item[x].status = "completed" => dest[x] = Whole
    /\ item[x].bytes = 0 => item[x].offset = 0
    /\ item[x].status \in {"absent", "removed"} => item[x].bytes = 0
    /\ item[x].bytes # 0 => HasChunk(x) \/ dest[x] # NoFile \/ Untouched(x)

(* What is stored of the transfer, or on its way to be. *)
CopyInv(x, copy) ==
    /\ copy.status = "completed" => dest[x] = Whole
    /\ copy.bytes = 0 => copy.offset = 0
    /\ copy.status \in {"absent", "removed"} => copy.bytes = 0
    /\ copy.bytes # 0 =>
          \/ dest[x] # NoFile \/ x \in discarded
          \/ HasChunk(x) /\ (item[x].bytes # 0 \/ item[x].status = "removed")

CopiesInv(x) ==
    /\ CopyInv(x, row[x])
    /\ \A d \in Threads : thread[d].on = x /\ thread[d].at = "save" => CopyInv(x, thread[d].copy)

(* Before the first chunk is known of, at most one goroutine has the file. *)
HandsInv(x) ==
    item[x].bytes = 0 /\ dest[x] = NoFile =>
        /\ item[x].status \in Fresh => \A d \in Threads : ~Has(d, x)
        /\ item[x].status # "removed" => \A d, e \in Threads : Has(d, x) /\ Has(e, x) => d = e

(* Its file was removed while it wrote. *)
Lost(d, x) ==
    \/ Gone(x) \/ dest[x] # NoFile
    \/ Dead(x) /\ partial[x] = NoFile /\ \A e \in Threads : Has(e, x) => e = d

WriterInv(d, x) ==
    Writes(d, x) =>
        /\ Going(thread[d]) = "received" => thread[d].pos # 0
        /\ Going(thread[d]) = "finalize" => thread[d].pos = Size
        /\ thread[d].linked => partial[x] # NoFile /\ 1..thread[d].pos \subseteq partial[x]
        /\ ~thread[d].linked => Lost(d, x)

LinkerInv(d, x) ==
    thread[d].on = x /\ Going(thread[d]) \in Linked => dest[x] # NoFile /\ (dest[x] = Whole \/ Gone(x))

FileInv(x) ==
    /\ DiskInv(x) /\ ItemInv(x) /\ CopiesInv(x) /\ HandsInv(x)
    /\ \A d \in Threads : WriterInv(d, x) /\ LinkerInv(d, x)

------------------------------------------------------------------------------
(* Steps that leave the files and the number of bytes alone *)

(* What a goroutine knows is not changed, but for its context. *)
Alike(d) ==
    /\ thread'[d].at = thread[d].at /\ thread'[d].on = thread[d].on /\ thread'[d].next = thread[d].next
    /\ thread'[d].pos = thread[d].pos /\ thread'[d].linked = thread[d].linked
    /\ thread'[d].copy = thread[d].copy

SameDisk(x) == partial'[x] = partial[x] /\ dest'[x] = dest[x] /\ (x \in discarded' <=> x \in discarded)

QuietItem(x) ==
    /\ \/ /\ item'[x].bytes = item[x].bytes /\ item'[x].offset = item[x].offset
          /\ item'[x].status \in Underway => item[x].status \in Underway
       \/ /\ item'[x].bytes # 0 /\ (HasChunk(x) \/ dest[x] # NoFile)
          /\ item[x].status \notin {"absent", "removed", "canceled", "failed"}
    /\ \/ item'[x].status = item[x].status
       \/ /\ item'[x].status \notin {"absent", "removed"} /\ item[x].status # "removed"
          /\ item'[x].status = "completed" => dest[x] = Whole
          /\ item'[x].status \in Fresh => item[x].status \in Fresh \/ item[x].bytes # 0
          /\ item[x].status \in {"canceled", "failed"} /\ item[x].bytes = 0 =>
                item'[x].status \in {"canceled", "failed"}

(* t takes the transfer in hand only if it had it, or if its first chunk is   *)
(* known of, and begins neither to write nor to remove the partial file.       *)
Follows(t, x) ==
    thread'[t].on = x =>
        /\ thread'[t].at = "save" => thread'[t].copy = item'[x] \/ CopyInv(x, thread'[t].copy)
        /\ Going(thread'[t]) \in InHand =>
              Has(t, x) \/ (item[x].status = "connecting" /\ item[x].bytes # 0)
        /\ Going(thread'[t]) \in Linked => thread[t].on = x /\ Going(thread[t]) \in Linked
        /\ Going(thread'[t]) \in Writing =>
              /\ Writes(t, x) /\ thread'[t].pos = thread[t].pos /\ thread'[t].linked = thread[t].linked
              /\ Going(thread'[t]) = "received" => Going(thread[t]) = "received"
              /\ Going(thread'[t]) = "finalize" => Going(thread[t]) = "finalize" \/ thread[t].pos = Size

(* A goroutine that is left alone is where it was. *)
LEMMA AlikeGoes ==
    ASSUME NEW d, Alike(d)
    PROVE  Going(thread'[d]) = Going(thread[d]) /\ \A x : Has(d, x)' = Has(d, x) /\ Writes(d, x)' = Writes(d, x)
  BY DEF Alike, Going, Has, Writes

(* A copy stays as good while nothing is removed. *)
LEMMA CopyStays ==
    ASSUME NEW x, NEW copy, CopyInv(x, copy), SameDisk(x), QuietItem(x)
    PROVE  CopyInv(x, copy)'
<1>1. dest'[x] = dest[x] /\ (x \in discarded' <=> x \in discarded) /\ HasChunk(x)' = HasChunk(x)
  BY DEF SameDisk, HasChunk
<1>2. /\ item[x].bytes # 0 => item'[x].bytes # 0
      /\ item[x].status = "removed" => item'[x].status = "removed"
  BY DEF QuietItem
<1> QED
  BY <1>1, <1>2 DEF CopyInv

(* A step is safe for a file if it leaves it where it is and tells the        *)
(* goroutines that move, and the manager, nothing new of it.                   *)
LEMMA FileKept ==
    ASSUME NEW x, FileInv(x), NEW moved \in SUBSET Threads, \A d \in Threads \ moved : Alike(d),
           SameDisk(x), QuietItem(x), CopyInv(x, row'[x]), \A d \in moved : Follows(d, x)
    PROVE  FileInv(x)'
<1>1. /\ partial'[x] = partial[x] /\ dest'[x] = dest[x] /\ (x \in discarded' <=> x \in discarded)
      /\ HasChunk(x)' = HasChunk(x)
  BY DEF SameDisk, HasChunk
<1>2. DiskInv(x)'
  BY <1>1 DEF FileInv, DiskInv
<1>3. /\ \A d \in Threads \ moved : Has(d, x)' = Has(d, x) /\ Writes(d, x)' = Writes(d, x)
      /\ \A d \in moved : Has(d, x)' => Has(d, x) \/ (item[x].status = "connecting" /\ item[x].bytes # 0)
  BY AlikeGoes DEF Follows, Has
<1>4. ASSUME Untouched(x), item'[x].bytes # 0
      PROVE  Untouched(x)' \/ HasChunk(x) \/ dest[x] # NoFile
  <2> SUFFICES ASSUME item'[x].status \in Underway => item[x].status \in Underway PROVE Untouched(x)'
    BY <1>4 DEF QuietItem
  <2>1. \A d \in Threads : ~Has(d, x)'
    BY <1>3, <1>4 DEF Untouched, Underway
  <2> QED
    BY <1>1, <1>4, <2>1 DEF Untouched
<1>5. ItemInv(x)'
  <2>1. /\ item'[x].status = "completed" => dest'[x] = Whole
        /\ item'[x].status \in {"absent", "removed"} => item'[x].bytes = 0
        /\ item'[x].bytes = 0 => item'[x].offset = 0
    BY <1>1 DEF FileInv, ItemInv, QuietItem
  <2>2. item'[x].bytes # 0 => HasChunk(x) \/ dest[x] # NoFile \/ Untouched(x)
    BY DEF FileInv, ItemInv, QuietItem
  <2> QED
    BY <1>1, <1>4, <2>1, <2>2 DEF ItemInv
<1>6. CopiesInv(x)'
  <2>1. PICK r : r = row'[x]
    OBVIOUS
  <2>2. CopyInv(x, r)'
    BY <2>1, CopyStays
  <2>3. ASSUME NEW d \in Threads, thread'[d].on = x, thread'[d].at = "save", NEW c, c = thread'[d].copy
        PROVE  CopyInv(x, c)'
    <3>1. CASE c = item'[x]
      BY <1>5, <3>1 DEF ItemInv, CopyInv, Untouched
    <3>2. CASE CopyInv(x, c)
      BY <3>2, CopyStays
    <3>3. c = item'[x] \/ CopyInv(x, c)
      BY <2>3 DEF Follows, Alike, FileInv, CopiesInv
    <3> QED
      BY <3>1, <3>2, <3>3
  <2> QED
    BY <2>1, <2>2, <2>3 DEF CopiesInv, CopyInv
<1>7. HandsInv(x)'
  <2> SUFFICES ASSUME item'[x].bytes = 0, dest[x] = NoFile PROVE HandsInv(x)'
    BY <1>1 DEF HandsInv
  <2>0. item[x].bytes = 0
    BY DEF QuietItem
  <2>1. \A d \in Threads : Has(d, x)' => Has(d, x)
    BY <1>3, <2>0
  <2>2. /\ item'[x].status \in Fresh => item[x].status \in Fresh
        /\ item'[x].status # "removed" => item[x].status # "removed"
    BY <2>0 DEF QuietItem
  <2> QED
    BY <2>0, <2>1, <2>2 DEF FileInv, HandsInv
<1>8. Gone(x) => Gone(x)'
  BY <1>1 DEF Gone, QuietItem
<1>9. ASSUME NEW d \in Threads, Lost(d, x) PROVE Lost(d, x)'
  <2>1. CASE Gone(x) \/ dest[x] # NoFile
    BY <1>1, <1>8, <2>1 DEF Lost
  <2>2. CASE Dead(x) /\ partial[x] = NoFile /\ \A e \in Threads : Has(e, x) => e = d
    <3>1. Dead(x)' /\ item[x].status # "connecting"
      BY <2>2 DEF Dead, QuietItem
    <3> QED
      BY <1>1, <1>3, <2>2, <3>1 DEF Lost
  <2> QED
    BY <1>9, <2>1, <2>2 DEF Lost
<1>10. ASSUME NEW d \in Threads PROVE WriterInv(d, x)'
  <2> SUFFICES ASSUME Writes(d, x)' PROVE WriterInv(d, x)'
    BY DEF WriterInv
  <2>1. /\ Writes(d, x) /\ thread'[d].pos = thread[d].pos /\ thread'[d].linked = thread[d].linked
        /\ Going(thread'[d]) = "received" => Going(thread[d]) = "received"
        /\ Going(thread'[d]) = "finalize" => Going(thread[d]) = "finalize" \/ thread[d].pos = Size
    BY <1>3, AlikeGoes DEF Follows, Alike, Writes
  <2> QED
    BY <1>1, <1>9, <2>1 DEF FileInv, WriterInv
<1>11. ASSUME NEW d \in Threads PROVE LinkerInv(d, x)'
  <2> SUFFICES ASSUME thread'[d].on = x, Going(thread'[d]) \in Linked PROVE LinkerInv(d, x)'
    BY DEF LinkerInv
  <2>1. thread[d].on = x /\ Going(thread[d]) \in Linked
    BY AlikeGoes DEF Follows, Alike
  <2> QED
    BY <1>1, <1>8, <2>1 DEF FileInv, LinkerInv
<1> QED
  BY <1>2, <1>5, <1>6, <1>7, <1>10, <1>11 DEF FileInv

------------------------------------------------------------------------------
(* What the steps of the goroutines do to those that have a file *)

(* Every goroutine but t is left alone. *)
OnlyMoves(t) == \A d \in Threads \ {t} : Alike(d)

(* The manager and the store leave the transfer as it is. *)
SameItem(x) == item'[x] = item[x] /\ row'[x] = row[x]

(* A step that has nothing to do with the transfer. *)
LEMMA Elsewhere ==
    ASSUME NEW x, FileInv(x), NEW moved \in SUBSET Threads, \A d \in Threads \ moved : Alike(d),
           SameDisk(x), SameItem(x), \A d \in moved : thread'[d].on # x
    PROVE  FileInv(x)'
<1>1. QuietItem(x)
  BY DEF SameItem, QuietItem
<1>2. CopyInv(x, row'[x])
  BY DEF SameItem, FileInv, CopiesInv
<1>3. \A d \in moved : Follows(d, x)
  BY DEF Follows
<1> QED
  BY <1>1, <1>2, <1>3, FileKept

(* The same where one goroutine moves. *)
LEMMA OneElsewhere ==
    ASSUME NEW x, FileInv(x), NEW t \in Threads, OnlyMoves(t), SameDisk(x), SameItem(x), thread'[t].on # x
    PROVE  FileInv(x)'
<1>1. {t} \in SUBSET Threads /\ (\A d \in Threads \ {t} : Alike(d)) /\ \A d \in {t} : thread'[d].on # x
  BY DEF OnlyMoves
<1> QED
  BY <1>1, Elsewhere

(* One goroutine moves and goes on with the transfer. *)
LEMMA OneKept ==
    ASSUME NEW x, FileInv(x), NEW t \in Threads, OnlyMoves(t),
           SameDisk(x), QuietItem(x), CopyInv(x, row'[x]), Follows(t, x)
    PROVE  FileInv(x)'
<1>1. {t} \in SUBSET Threads /\ (\A d \in Threads \ {t} : Alike(d)) /\ \A d \in {t} : Follows(d, x)
  BY DEF OnlyMoves
<1> QED
  BY <1>1, FileKept

(* One goroutine moves; the manager and the store are left alone. *)
LEMMA OneGoes ==
    ASSUME NEW x, FileInv(x), NEW t \in Threads, OnlyMoves(t), SameDisk(x), SameItem(x), Follows(t, x)
    PROVE  FileInv(x)'
<1>1. QuietItem(x) /\ CopyInv(x, row'[x])
  BY DEF SameItem, QuietItem, FileInv, CopiesInv
<1> QED
  BY <1>1, OneKept

(* It goes somewhere else, with what it had. *)
LEMMA GotoAlone ==
    ASSUME thread \in [Threads -> ThreadType], NEW t \in Threads, NEW place, Goto(t, place)
    PROVE  /\ OnlyMoves(t) /\ thread'[t].at = place
           /\ thread'[t].on = thread[t].on /\ thread'[t].next = thread[t].next
           /\ thread'[t].pos = thread[t].pos /\ thread'[t].linked = thread[t].linked
  BY DEF Goto, OnlyMoves, Alike, ThreadType

(* It is done, and has no transfer any more. *)
LEMMA DoneAlone ==
    ASSUME thread \in [Threads -> ThreadType], NEW t \in Threads, Done(t)
    PROVE  OnlyMoves(t) /\ thread'[t].on = None
<1> DEFINE r == Resting(t)
<1>1. r.on = None
  BY DEF Resting, Idle
<1> HIDE DEF r
<1>2. thread' = [thread EXCEPT ![t] = r]
  BY DEF Done, r
<1> QED
  BY <1>1, <1>2 DEF OnlyMoves, Alike

(* What becomes of a goroutine that saves... *)
LEMMA SavingGoes ==
    ASSUME NEW t \in Threads, thread[t] \in ThreadType, NEW y, NEW copy, NEW next
    PROVE  LET r == Saving(t, y, copy, next)
           IN  /\ r.at = "save" /\ r.on = y /\ r.next = next /\ r.copy = copy
               /\ r.pos = thread[t].pos /\ r.linked = thread[t].linked
  BY DEF Saving, ThreadType

(* ... and of the others. *)
LEMMA SavingAlone ==
    ASSUME thread \in [Threads -> ThreadType], NEW t \in Threads, NEW y, NEW copy, NEW next,
           thread' = [thread EXCEPT ![t] = Saving(t, y, copy, next)]
    PROVE  /\ OnlyMoves(t) /\ thread'[t].at = "save" /\ thread'[t].on = y /\ thread'[t].next = next
           /\ thread'[t].copy = copy /\ thread'[t].pos = thread[t].pos /\ thread'[t].linked = thread[t].linked
<1> DEFINE r == Saving(t, y, copy, next)
<1>1. /\ r.at = "save" /\ r.on = y /\ r.next = next /\ r.copy = copy
      /\ r.pos = thread[t].pos /\ r.linked = thread[t].linked
  BY SavingGoes
<1>2. thread' = [thread EXCEPT ![t] = r]
  OBVIOUS
<1> HIDE DEF r
<1> QED
  BY <1>1, <1>2 DEF OnlyMoves, Alike

(* A context that ends moves nobody else. *)
LEMMA CanceledAlike ==
    ASSUME NEW k \in ThreadType
    PROVE  LET c == [k EXCEPT !.canceled = TRUE]
           IN  /\ c.at = k.at /\ c.on = k.on /\ c.next = k.next
               /\ c.pos = k.pos /\ c.linked = k.linked /\ c.copy = k.copy
  BY DEF ThreadType

(* Nobody but t moves where the context of a transfer's owner ends. *)
LEMMA OwnerAlone ==
    ASSUME thread \in [Threads -> ThreadType], NEW t \in Threads, NEW y, NEW r
    PROVE  LET base == OwnerEnded(t, y, r)
           IN  /\ base[t] = r
               /\ \A d \in Threads \ {t} :
                     /\ base[d].at = thread[d].at /\ base[d].on = thread[d].on /\ base[d].next = thread[d].next
                     /\ base[d].pos = thread[d].pos /\ base[d].linked = thread[d].linked
                     /\ base[d].copy = thread[d].copy
<1> DEFINE base == OwnerEnded(t, y, r)
<1>0. base = [u \in Threads |-> IF u = t THEN r
                               ELSE IF u \in Owner(y) THEN [thread[u] EXCEPT !.canceled = TRUE]
                               ELSE thread[u]]
  BY DEF OwnerEnded
<1> HIDE DEF base
<1>1. ASSUME NEW d \in Threads \ {t}
      PROVE  /\ base[d].at = thread[d].at /\ base[d].on = thread[d].on /\ base[d].next = thread[d].next
             /\ base[d].pos = thread[d].pos /\ base[d].linked = thread[d].linked
             /\ base[d].copy = thread[d].copy
  <2>1. CASE base[d] = [thread[d] EXCEPT !.canceled = TRUE]
    BY <2>1, CanceledAlike
  <2>2. CASE base[d] = thread[d]
    BY <2>2
  <2> QED
    BY <1>0, <2>1, <2>2
<1>2. base[t] = r
  BY <1>0
<1> QED
  BY <1>1, <1>2 DEF base

(* Whoever has the removed file open has it no longer. *)
LEMMA UnlinkedGoes ==
    ASSUME NEW base \in [Threads -> ThreadType], NEW y, thread' = Unlinked(y, base), NEW d \in Threads
    PROVE  /\ thread'[d].at = base[d].at /\ thread'[d].on = base[d].on /\ thread'[d].next = base[d].next
           /\ thread'[d].pos = base[d].pos /\ thread'[d].copy = base[d].copy
           /\ partial'[y] = partial[y] \/ base[d].on # y => thread'[d].linked = base[d].linked
           /\ partial'[y] # partial[y] /\ base[d].on = y => ~thread'[d].linked
<1>0. base[d] \in ThreadType
  OBVIOUS
<1>1. CASE partial'[y] = partial[y] \/ base[d].on # y
  <2>1. thread'[d] = base[d]
    BY <1>1 DEF Unlinked
  <2> QED
    BY <1>1, <2>1
<1>2. CASE ~(partial'[y] = partial[y] \/ base[d].on # y)
  <2>1. thread'[d] = [base[d] EXCEPT !.linked = FALSE]
    BY <1>2 DEF Unlinked
  <2>2. partial'[y] # partial[y] /\ base[d].on = y
    BY <1>2
  <2>3. /\ thread'[d].at = base[d].at /\ thread'[d].on = base[d].on /\ thread'[d].next = base[d].next
        /\ thread'[d].pos = base[d].pos /\ thread'[d].copy = base[d].copy /\ ~thread'[d].linked
    BY <1>0, <2>1 DEF ThreadType
  <2> QED
    BY <2>2, <2>3
<1> QED
  BY <1>1, <1>2

(* A worker starts: its goroutine rests, or goes on as the worker. *)
LEMMA SpawnAlone ==
    ASSUME thread \in [Threads -> ThreadType], NEW t \in Threads, NEW y, NEW place, Spawn(t, y, place)
    PROVE  \E u \in Threads :
               /\ \A d \in Threads \ {t, u} : Alike(d)
               /\ thread'[u].at = place /\ thread'[u].on = y
               /\ t # u => thread'[t].at = "idle" /\ thread'[t].on = None
<1> DEFINE worker == [Idle EXCEPT !.at = place, !.on = y]
           rest == Resting(t)
<1>1. PICK u \in Threads :
          thread' = [v \in Threads |->
               IF v = u THEN worker
               ELSE IF v = t THEN rest
               ELSE IF v \in Owner(y) THEN [thread[v] EXCEPT !.canceled = TRUE]
               ELSE thread[v]]
  BY DEF Spawn
<1>2. worker.at = place /\ worker.on = y /\ rest.at = "idle" /\ rest.on = None
  BY DEF Idle, Resting
<1> HIDE DEF worker, rest
<1>3. ASSUME NEW d \in Threads \ {t, u}
      PROVE  Alike(d)
  <2>1. CASE thread'[d] = [thread[d] EXCEPT !.canceled = TRUE]
    BY <2>1, CanceledAlike DEF Alike
  <2>2. CASE thread'[d] = thread[d]
    BY <2>2 DEF Alike
  <2> QED
    BY <1>1, <2>1, <2>2
<1>4. thread'[u] = worker /\ (t # u => thread'[t] = rest)
  BY <1>1
<1> QED
  BY <1>2, <1>3, <1>4

------------------------------------------------------------------------------
(* Steps that leave the files alone *)

(* Whoever sends has no incoming transfer, nor has one with nothing to do. *)
LEMMA NotMine ==
    ASSUME Inv, NEW x \in Incoming
    PROVE  /\ x # None /\ x \in Transfers /\ x \notin Outgoing
           /\ \A t \in Threads : Going(thread[t]) \in OutPlaces => thread[t].on \in Outgoing /\ thread[t].on # x
<1>1. x # None /\ x \in Transfers /\ x \notin Outgoing
  BY NoneAssumption, DirectionsAssumption DEF Transfers
<1>2. ASSUME NEW t \in Threads, Going(thread[t]) \in OutPlaces
      PROVE  thread[t].on \in Outgoing
  BY <1>2, TypedThread DEF OnTrack
<1> QED
  BY <1>1, <1>2

(* Going to a place where no file is in hand. *)
LEMMA GotoFile ==
    ASSUME Inv, NEW x \in Incoming, FileInv(x), NEW t \in Threads, NEW place, Goto(t, place),
           place \notin InHand \union Linked \union {"save"}, UNCHANGED <<item, row, partial, dest, discarded>>
    PROVE  FileInv(x)'
<1>1. OnlyMoves(t) /\ thread'[t].at = place
  BY TypedThread, GotoAlone
<1>2. Follows(t, x)
  BY <1>1 DEF Follows, Going, InHand
<1>3. SameDisk(x) /\ SameItem(x)
  BY DEF SameDisk, SameItem
<1> QED
  BY <1>1, <1>2, <1>3, OneGoes

(* Being done with it. *)
LEMMA DoneFile ==
    ASSUME Inv, NEW x \in Incoming, FileInv(x), NEW t \in Threads, Done(t),
           UNCHANGED <<item, row, partial, dest, discarded>>
    PROVE  FileInv(x)'
<1>1. OnlyMoves(t) /\ thread'[t].on # x
  BY TypedThread, DoneAlone, NotMine
<1>2. SameDisk(x) /\ SameItem(x)
  BY DEF SameDisk, SameItem
<1> QED
  BY <1>1, <1>2, OneElsewhere

(* The steps that only go somewhere, or are done. *)
LEMMA QuietFile ==
    ASSUME Inv, NEW x \in Incoming, FileInv(x), NEW t \in Threads,
           \/ Advance(t) \/ PassiveResponse(t) \/ BeginClassic(t) \/ StillWanted(t) \/ PassiveTimeout(t)
           \/ AskResume(t) \/ ConnectFails(t) \/ TransferFails(t) \/ TurnOff(t) \/ TurnOffAndCancel(t) \/ Close(t)
    PROVE  FileInv(x)'
<1>1. UNCHANGED <<item, row, partial, dest, discarded>>
  BY DEF Advance, PassiveResponse, BeginClassic, StillWanted, PassiveTimeout, AskResume, ConnectFails,
         TransferFails, TurnOff, TurnOffAndCancel, Close, manager, disk, bounds
<1>2. CASE Done(t)
  BY <1>1, <1>2, DoneFile
<1>3. CASE \E place \in {"start", "respond", "listening", "failed", "publish", "fail", "turnOff", "cancelAll"} :
               Goto(t, place)
  BY <1>1, <1>3, GotoFile DEF InHand, Writing, Linked
<1> QED
  BY <1>2, <1>3 DEF Advance, PassiveResponse, BeginClassic, StillWanted, PassiveTimeout, AskResume, ConnectFails,
         TransferFails, TurnOff, TurnOffAndCancel, Close

(* What is stored of a transfer is its copy, the row it had, or nothing. *)
LEMMA PersistedCopy ==
    ASSUME NEW y, NEW x, NEW copy, CopyInv(x, copy), CopyInv(x, row[y])
    PROVE  CopyInv(x, Persisted(y, copy))
<1>1. CopyInv(x, Unknown)
  BY DEF CopyInv, Unknown
<1>2. Persisted(y, copy) \in {copy, row[y], Unknown}
  BY DEF Persisted
<1> QED
  BY <1>1, <1>2

(* A copy is stored. *)
LEMMA SaveStepFile ==
    ASSUME Inv, NEW x \in Incoming, FileInv(x), NEW t \in Threads, SaveStep(t)
    PROVE  FileInv(x)'
<1> DEFINE y == thread[t].on
           copy == thread[t].copy
<1>1. /\ thread[t].at = "save" /\ row' = [row EXCEPT ![y] = Persisted(y, copy)]
      /\ UNCHANGED <<item, partial, dest, discarded>>
  BY DEF SaveStep, At, manager, bounds
<1>2. SameDisk(x) /\ QuietItem(x)
  BY <1>1 DEF SameDisk, QuietItem
<1>3. CopyInv(x, row'[x])
  <2>1. CASE y = x
    <3>1. CopyInv(x, copy) /\ CopyInv(x, row[y])
      BY <1>1, <2>1 DEF FileInv, CopiesInv
    <3>2. CopyInv(x, Persisted(y, copy))
      BY <3>1, PersistedCopy
    <3>3. row'[x] = Persisted(y, copy)
      BY <1>1, <2>1, NotMine DEF Inv, TypeInv
    <3> QED
      BY <3>2, <3>3
  <2>2. CASE y # x
    <3>1. row'[x] = row[x]
      BY <1>1, <2>2
    <3> QED
      BY <3>1 DEF FileInv, CopiesInv
  <2> QED
    BY <2>1, <2>2
<1>4. CASE Done(t)
  <2>1. OnlyMoves(t) /\ Follows(t, x)
    BY <1>4, TypedThread, DoneAlone, NotMine DEF Follows
  <2> QED
    BY <1>2, <1>3, <2>1, OneKept
<1>5. CASE thread' = [thread EXCEPT ![t].at = thread[t].next, ![t].copy = Unknown, ![t].next = "idle"]
  <2>1. /\ OnlyMoves(t) /\ thread'[t].at = thread[t].next /\ thread'[t].on = thread[t].on
        /\ thread'[t].pos = thread[t].pos /\ thread'[t].linked = thread[t].linked
        /\ thread[t].next # "save"
    BY <1>5, TypedThread DEF OnlyMoves, Alike, ThreadType
  <2>2. Going(thread'[t]) = Going(thread[t])
    BY <1>1, <2>1 DEF Going
  <2>3. Follows(t, x)
    BY <2>1, <2>2 DEF Follows, Has, Writes
  <2> QED
    BY <1>2, <1>3, <2>1, <2>3, OneKept
<1> QED
  BY <1>4, <1>5 DEF SaveStep

(* The peer's answer to a resume: what is resumed has a first chunk. *)
LEMMA ResumeAcceptFile ==
    ASSUME Inv, NEW x \in Incoming, FileInv(x), NEW t \in Threads, ResumeAccept(t)
    PROVE  FileInv(x)'
<1>1. thread[t].at = "resumeAccept" /\ UNCHANGED <<item, row, partial, dest, discarded>>
  BY DEF ResumeAccept, At, manager, disk, bounds
<1>2. CASE Done(t)
  BY <1>1, <1>2, DoneFile
<1>3. CASE Goto(t, "setup") /\ item[thread[t].on].status = "connecting" /\ item[thread[t].on].offset > 0
  <2>1. OnlyMoves(t) /\ thread'[t].at = "setup" /\ thread'[t].on = thread[t].on
    BY <1>3, TypedThread, GotoAlone
  <2>2. thread[t].on = x => item[x].status = "connecting" /\ item[x].bytes # 0
    BY <1>3 DEF FileInv, ItemInv
  <2>3. Follows(t, x)
    BY <2>1, <2>2 DEF Follows, Going, Linked, Writing
  <2>4. SameDisk(x) /\ SameItem(x)
    BY <1>1 DEF SameDisk, SameItem
  <2> QED
    BY <2>1, <2>3, <2>4, OneGoes
<1> QED
  BY <1>2, <1>3 DEF ResumeAccept

(* The last chunk was written: what is in the file is in its place. *)
LEMMA TransferEndsFile ==
    ASSUME Inv, NEW x \in Incoming, FileInv(x), NEW t \in Threads, TransferEnds(t)
    PROVE  FileInv(x)'
<1>1. /\ thread[t].pos = Size /\ UNCHANGED <<item, row, partial, dest, discarded>>
      /\ \/ thread[t].at = "receiving" /\ Goto(t, "finalize")
         \/ thread[t].at = "sending" /\ Goto(t, "complete")
  BY DEF TransferEnds, At, manager, disk, bounds
<1>2. SameDisk(x) /\ SameItem(x)
  BY <1>1 DEF SameDisk, SameItem
<1>3. CASE thread[t].at = "receiving" /\ Goto(t, "finalize")
  <2>1. /\ OnlyMoves(t) /\ thread'[t].at = "finalize" /\ thread'[t].on = thread[t].on
        /\ thread'[t].pos = thread[t].pos /\ thread'[t].linked = thread[t].linked
    BY <1>3, TypedThread, GotoAlone
  <2>2. Follows(t, x)
    BY <1>1, <1>3, <2>1 DEF Follows, Going, Has, Writes, InHand, Writing, Linked
  <2> QED
    BY <1>2, <2>1, <2>2, OneGoes
<1>4. CASE thread[t].at = "sending" /\ Goto(t, "complete")
  <2>1. OnlyMoves(t) /\ thread'[t].on = thread[t].on
    BY <1>4, TypedThread, GotoAlone
  <2>2. thread[t].on # x
    BY <1>4, NotMine DEF Going, OutPlaces
  <2> QED
    BY <1>2, <2>1, <2>2, OneElsewhere
<1> QED
  BY <1>1, <1>3, <1>4

(* The peer is there: the position is read, the file is not open yet. *)
LEMMA ConnectedFile ==
    ASSUME Inv, NEW x \in Incoming, FileInv(x), NEW t \in Threads, Connected(t)
    PROVE  FileInv(x)'
<1>1. thread[t].at \in {"connectSend", "connectReceive"} /\ UNCHANGED <<item, row, partial, dest, discarded>>
  BY DEF Connected, Waiting, At, manager, disk, bounds
<1>2. CASE Done(t)
  BY <1>1, <1>2, DoneFile
<1>3. CASE thread' = [thread EXCEPT ![t].at = "mark", ![t].pos = item[thread[t].on].offset]
  <2>1. OnlyMoves(t) /\ thread'[t].at = "mark" /\ thread'[t].on = thread[t].on
    BY <1>3, TypedThread DEF OnlyMoves, Alike, ThreadType
  <2>2. thread[t].on = x => thread[t].at = "connectReceive"
    BY <1>1, NotMine DEF Going, OutPlaces
  <2>3. Follows(t, x)
    BY <2>1, <2>2 DEF Follows, Going, Has, InHand, Writing, Linked
  <2>4. SameDisk(x) /\ SameItem(x)
    BY <1>1 DEF SameDisk, SameItem
  <2> QED
    BY <2>1, <2>3, <2>4, OneGoes
<1> QED
  BY <1>2, <1>3 DEF Connected

(* A change of the manager's transfer y that is saved on the way to next. *)
LEMMA SavedFile ==
    ASSUME Inv, NEW x \in Incoming, FileInv(x), NEW t \in Threads, NEW y, NEW next,
           thread' = [thread EXCEPT ![t] = Saving(t, y, item'[y], next)],
           SameDisk(x), row'[x] = row[x], y # x => item'[x] = item[x],
           y = x => QuietItem(x),
           next \notin Writing \union Linked \union {"save"},
           y = x /\ next \in InHand => Has(t, x)
    PROVE  FileInv(x)'
<1>1. /\ OnlyMoves(t) /\ thread'[t].at = "save" /\ thread'[t].on = y /\ thread'[t].next = next
      /\ thread'[t].copy = item'[y]
  <2>1. PICK copy : copy = item'[y]
    OBVIOUS
  <2>2. PICK r : r = Saving(t, y, copy, next)
    OBVIOUS
  <2>3. r.at = "save" /\ r.on = y /\ r.next = next /\ r.copy = copy
    BY <2>2, SavingGoes, TypedThread
  <2>4. thread \in [Threads -> ThreadType] /\ thread' = [thread EXCEPT ![t] = r]
    BY <2>1, <2>2, TypedThread
  <2>5. OnlyMoves(t) /\ thread'[t] = r
    BY <2>4 DEF OnlyMoves, Alike
  <2> QED
    BY <2>1, <2>3, <2>5
<1>2. QuietItem(x)
  <2>1. CASE y = x
    BY <2>1
  <2>2. CASE y # x
    BY <2>2 DEF QuietItem
  <2> QED
    BY <2>1, <2>2
<1>3. Follows(t, x)
  BY <1>1 DEF Follows, Going
<1>4. CopyInv(x, row'[x])
  BY DEF FileInv, CopiesInv
<1> QED
  BY <1>1, <1>2, <1>3, <1>4, OneKept

(* markTransferring: only what is under way goes on. *)
LEMMA MarkTransferringFile ==
    ASSUME Inv, NEW x \in Incoming, FileInv(x), NEW t \in Threads, MarkTransferring(t)
    PROVE  FileInv(x)'
<1> DEFINE y == thread[t].on
           next == IF y \in Incoming THEN "openFile" ELSE "sending"
<1>1. thread[t].at = "mark" /\ UNCHANGED <<row, partial, dest, discarded>>
  BY DEF MarkTransferring, At, disk, bounds
<1>2. CASE Done(t) /\ UNCHANGED item
  BY <1>1, <1>2, DoneFile
<1>3. CASE /\ item[y].status \in {"negotiating", "connecting"}
           /\ item' = [item EXCEPT ![y].status = "transferring"] /\ Save(t, y, next)
  <2>1. SameDisk(x) /\ row'[x] = row[x]
    BY <1>1 DEF SameDisk
  <2>2. y # x => item'[x] = item[x]
    BY <1>3, NotMine DEF Inv, TypeInv
  <2>3. y = x => QuietItem(x)
    <3> SUFFICES ASSUME y = x PROVE QuietItem(x)
      OBVIOUS
    <3>1. item'[x] = [item[x] EXCEPT !.status = "transferring"] /\ item[x] \in ItemType
      BY <1>3, NotMine DEF Inv, TypeInv
    <3>2. item'[x].status = "transferring" /\ item'[x].bytes = item[x].bytes /\ item'[x].offset = item[x].offset
      BY <3>1 DEF ItemType
    <3> QED
      BY <1>3, <3>2 DEF QuietItem, Underway, Fresh
  <2>4. next \notin Writing \union Linked \union {"save"} /\ (y = x /\ next \in InHand => Has(t, x))
    BY <1>1 DEF Writing, Linked, InHand, Has, Going
  <2>5. thread' = [thread EXCEPT ![t] = Saving(t, y, item'[y], next)]
    BY <1>3 DEF Save
  <2> HIDE DEF y, next
  <2> QED
    BY <2>1, <2>2, <2>3, <2>4, <2>5, SavedFile
<1> QED
  BY <1>2, <1>3 DEF MarkTransferring

(* A request is let in. *)
LEMMA AdmitFile ==
    ASSUME Inv, NEW x \in Incoming, FileInv(x), NEW t \in Threads, NEW y \in Transfers,
           NEW request \in Requests(y), Admit(t, y, request)
    PROVE  FileInv(x)'
<1>1. /\ thread' = [thread EXCEPT ![t].at = request, ![t].on = y]
      /\ UNCHANGED <<item, row, partial, dest, discarded>>
  BY DEF Admit, manager, disk, bounds
<1>2. OnlyMoves(t) /\ thread'[t].at = request
  BY <1>1, TypedThread DEF OnlyMoves, Alike, ThreadType
<1>3. request \notin InHand \union Linked \union {"save"}
  BY DEF Requests, InHand, Writing, Linked
<1>4. Follows(t, x)
  BY <1>2, <1>3 DEF Follows, Going, InHand
<1>5. SameDisk(x) /\ SameItem(x)
  BY <1>1 DEF SameDisk, SameItem
<1> QED
  BY <1>2, <1>4, <1>5, OneGoes

(* The offer of a new transfer, or of one that can be resumed. *)
LEMMA AddIncomingOfferFile ==
    ASSUME Inv, NEW x \in Incoming, FileInv(x), NEW t \in Threads, AddIncomingOffer(t)
    PROVE  FileInv(x)'
<1> DEFINE y == thread[t].on
<1>1. UNCHANGED <<row, partial, dest, discarded>>
  BY DEF AddIncomingOffer, disk, bounds
<1>2. CASE Done(t) /\ UNCHANGED item
  BY <1>1, <1>2, DoneFile
<1>3. CASE /\ item[y].status \in {"absent", "resumable"}
           /\ item' = [item EXCEPT ![y].status = "offered", ![y].offer = TRUE] /\ Save(t, y, "idle")
  <2>1. SameDisk(x) /\ row'[x] = row[x]
    BY <1>1 DEF SameDisk
  <2>2. y # x => item'[x] = item[x]
    BY <1>3, NotMine DEF Inv, TypeInv
  <2>3. y = x => QuietItem(x)
    <3> SUFFICES ASSUME y = x PROVE QuietItem(x)
      OBVIOUS
    <3>1. item'[x] = [item[x] EXCEPT !.status = "offered", !.offer = TRUE] /\ item[x] \in ItemType
      BY <1>3, NotMine DEF Inv, TypeInv
    <3>2. item'[x].status = "offered" /\ item'[x].bytes = item[x].bytes /\ item'[x].offset = item[x].offset
      BY <3>1 DEF ItemType
    <3> QED
      BY <1>3, <3>2 DEF QuietItem, Underway, Fresh
  <2>4. "idle" \notin Writing \union Linked \union {"save"} \union InHand
    BY DEF Writing, Linked, InHand
  <2>5. thread' = [thread EXCEPT ![t] = Saving(t, y, item'[y], "idle")]
    BY <1>3 DEF Save
  <2> HIDE DEF y
  <2> QED
    BY <2>1, <2>2, <2>3, <2>4, <2>5, SavedFile
<1> QED
  BY <1>2, <1>3 DEF AddIncomingOffer

(* Declined before anyone had it. *)
LEMMA DeclineFile ==
    ASSUME Inv, NEW x \in Incoming, FileInv(x), NEW t \in Threads, NEW y \in Transfers, Decline(t, y)
    PROVE  FileInv(x)'
<1>1. /\ item[y].status = "offered" /\ UNCHANGED <<row, partial, dest, discarded>>
      /\ item' = [item EXCEPT ![y].status = "declined", ![y].finished = TRUE] /\ Save(t, y, "idle")
  BY DEF Decline, disk, bounds
<1>2. SameDisk(x) /\ row'[x] = row[x] /\ (y # x => item'[x] = item[x])
  BY <1>1, NotMine DEF SameDisk, Inv, TypeInv
<1>3. y = x => QuietItem(x)
  <2> SUFFICES ASSUME y = x PROVE QuietItem(x)
    OBVIOUS
  <2>1. item'[x] = [item[x] EXCEPT !.status = "declined", !.finished = TRUE] /\ item[x] \in ItemType
    BY <1>1, NotMine DEF Inv, TypeInv
  <2>2. item'[x].status = "declined" /\ item'[x].bytes = item[x].bytes /\ item'[x].offset = item[x].offset
    BY <2>1 DEF ItemType
  <2> QED
    BY <1>1, <2>2 DEF QuietItem, Underway, Fresh
<1>4. "idle" \notin Writing \union Linked \union {"save"} \union InHand
  BY DEF Writing, Linked, InHand
<1>5. thread' = [thread EXCEPT ![t] = Saving(t, y, item'[y], "idle")]
  BY <1>1 DEF Save
<1> QED
  BY <1>2, <1>3, <1>4, <1>5, SavedFile

(* Locate stores what the manager knows. *)
LEMMA LocateFile ==
    ASSUME Inv, NEW x \in Incoming, FileInv(x), NEW t \in Threads, NEW y \in Transfers, Locate(t, y)
    PROVE  FileInv(x)'
<1>1. UNCHANGED <<item, row, partial, dest, discarded>> /\ thread' = [thread EXCEPT ![t] = Saving(t, y, item'[y], "idle")]
  BY DEF Locate, manager, disk, bounds
<1>2. SameDisk(x) /\ QuietItem(x)
  BY <1>1 DEF SameDisk, QuietItem
<1>3. "idle" \notin Writing \union Linked \union {"save"} \union InHand
  BY DEF Writing, Linked, InHand
<1> QED
  BY <1>1, <1>2, <1>3, SavedFile

(* The list of those to cancel. *)
LEMMA CancelAllFile ==
    ASSUME Inv, NEW x \in Incoming, FileInv(x), NEW t \in Threads, CancelAll(t)
    PROVE  FileInv(x)'
<1> DEFINE r == [Idle EXCEPT !.todo = {y \in Transfers : item[y].status \in Active}]
<1>1. thread' = [thread EXCEPT ![t] = r] /\ UNCHANGED <<item, row, partial, dest, discarded>>
  BY DEF CancelAll, manager, disk, bounds
<1>2. r.on = None
  BY DEF Idle
<1> HIDE DEF r
<1>3. OnlyMoves(t) /\ thread'[t].on # x
  BY <1>1, <1>2, NotMine, TypedThread DEF OnlyMoves, Alike
<1>4. SameDisk(x) /\ SameItem(x)
  BY <1>1 DEF SameDisk, SameItem
<1> QED
  BY <1>3, <1>4, OneElsewhere

(* The steps of a goroutine that sends. *)
LEMMA SendsFile ==
    ASSUME Inv, NEW x \in Incoming, FileInv(x), NEW t \in Threads,
           \/ QueueOutgoing(t) \/ QueuedCopy(t) \/ ResumeRequest(t) \/ PublishPort(t) \/ BeginPassive(t)
           \/ OfferPassive(t)
    PROVE  FileInv(x)'
<1> DEFINE y == thread[t].on
<1>1. thread[t].on \in Outgoing /\ thread[t].on # x /\ x # None
  BY NotMine DEF QueueOutgoing, QueuedCopy, ResumeRequest, PublishPort, BeginPassive, OfferPassive, At, Going,
     OutPlaces
<1>2. UNCHANGED <<row, partial, dest, discarded>>
  BY DEF QueueOutgoing, QueuedCopy, ResumeRequest, PublishPort, BeginPassive, OfferPassive, disk, bounds
<1>3. item'[x] = item[x]
  BY <1>1, NotMine DEF Inv, TypeInv, QueueOutgoing, QueuedCopy, ResumeRequest, PublishPort, BeginPassive, OfferPassive, manager
<1>4. SameDisk(x) /\ SameItem(x)
  BY <1>2, <1>3 DEF SameDisk, SameItem
<1>5. CASE Done(t)
  BY <1>1, <1>4, <1>5, TypedThread, DoneAlone, OneElsewhere
<1>6. CASE \E place \in {"queued", "start", "offerClassic", "offerPassive", "failed"} : Goto(t, place)
  BY <1>1, <1>4, <1>6, TypedThread, GotoAlone, OneElsewhere
<1>7. CASE \E copy \in {item[y], [item[y] EXCEPT !.status = "negotiating"]}, next \in {"start", "passive"} :
               thread' = [thread EXCEPT ![t] = Saving(t, y, copy, next)]
  <2>1. PICK copy \in {item[y], [item[y] EXCEPT !.status = "negotiating"]}, next \in {"start", "passive"} :
               thread' = [thread EXCEPT ![t] = Saving(t, y, copy, next)]
    BY <1>7
  <2>2. OnlyMoves(t) /\ thread'[t].on = y
    BY <2>1, TypedThread, SavingAlone
  <2> QED
    BY <1>1, <1>4, <2>2, OneElsewhere
<1>8. Done(t) \/ (\E place \in {"queued", "start", "offerClassic", "offerPassive", "failed"} : Goto(t, place))
      \/ \E copy \in {item[y], [item[y] EXCEPT !.status = "negotiating"]}, next \in {"start", "passive"} :
             thread' = [thread EXCEPT ![t] = Saving(t, y, copy, next)]
  BY DEF QueueOutgoing, QueuedCopy, ResumeRequest, PublishPort, BeginPassive, OfferPassive
<1> QED
  BY <1>5, <1>6, <1>7, <1>8

(* Retry sends again. *)
LEMMA RetryFile ==
    ASSUME Inv, NEW x \in Incoming, FileInv(x), NEW t \in Threads, NEW y \in Transfers, Retry(t, y)
    PROVE  FileInv(x)'
<1>1. y \in Outgoing /\ y # x
  BY NotMine DEF Retry
<1>2. SameDisk(x) /\ SameItem(x)
  BY <1>1, NotMine DEF Retry, disk, SameDisk, SameItem, Inv, TypeInv
<1>3. thread' = [thread EXCEPT ![t] = Saving(t, y, item'[y], "start")]
  BY DEF Retry, Save
<1>4. OnlyMoves(t) /\ thread'[t].on = y
  BY <1>3, TypedThread, SavingAlone
<1> QED
  BY <1>1, <1>2, <1>4, OneElsewhere

(* The next one of the queue of outgoing transfers. *)
LEMMA StartNextFile ==
    ASSUME Inv, NEW x \in Incoming, FileInv(x), NEW t \in Threads, StartNext(t)
    PROVE  FileInv(x)'
<1> DEFINE y == Head(queue)
<1>1. UNCHANGED <<row, partial, dest, discarded>>
  BY DEF StartNext, disk, bounds
<1>2. CASE Done(t) /\ UNCHANGED item
  BY <1>1, <1>2, DoneFile
<1>3. CASE UNCHANGED <<item, thread>>
  <2>1. SameDisk(x) /\ SameItem(x) /\ \A d \in Threads : Alike(d)
    BY <1>1, <1>3 DEF SameDisk, SameItem, Alike
  <2>2. {} \in SUBSET Threads /\ (\A d \in Threads \ {} : Alike(d)) /\ \A d \in {} : thread'[d].on # x
    BY <2>1
  <2> QED
    BY <2>1, <2>2, Elsewhere
<1>4. CASE /\ queue # <<>> /\ item' = [item EXCEPT ![y].status = "negotiating"]
           /\ \E mode \in {"beginClassic", "beginPassive"} : Save(t, y, mode)
  <2>1. y \in Outgoing /\ y # x
    BY <1>4, NotMine DEF Inv, TypeInv
  <2>2. PICK mode \in {"beginClassic", "beginPassive"} : thread' = [thread EXCEPT ![t] = Saving(t, y, item'[y], mode)]
    BY <1>4 DEF Save
  <2> HIDE DEF y
  <2>3. OnlyMoves(t) /\ thread'[t].on = y
    BY <2>2, TypedThread, SavingAlone
  <2>4. SameDisk(x) /\ SameItem(x)
    BY <1>1, <1>4, <2>1 DEF SameDisk, SameItem
  <2> QED
    BY <2>1, <2>3, <2>4, OneElsewhere
<1> QED
  BY <1>2, <1>3, <1>4 DEF StartNext

(* A worker starts that sends. *)
LEMMA SenderStartsFile ==
    ASSUME Inv, NEW x \in Incoming, FileInv(x), NEW t \in Threads, Respond(t) \/ OfferClassic(t) \/ AwaitPassive(t)
    PROVE  FileInv(x)'
<1> DEFINE y == thread[t].on
<1>1. y # x /\ x # None /\ UNCHANGED <<item, row, partial, dest, discarded>>
  BY NotMine DEF Respond, OfferClassic, AwaitPassive, At, Going, OutPlaces, disk, bounds
<1>2. CASE Goto(t, "failed")
  BY <1>1, <1>2, GotoFile DEF InHand, Writing, Linked
<1>3. CASE \E place \in {"connectSend", "awaitPassive"} : Spawn(t, y, place)
  <2>1. PICK place \in {"connectSend", "awaitPassive"} : Spawn(t, y, place)
    BY <1>3
  <2>2. PICK u \in Threads :
            /\ \A d \in Threads \ {t, u} : Alike(d)
            /\ thread'[u].on = y
            /\ t # u => thread'[t].on = None
    BY <2>1, TypedThread, SpawnAlone
  <2>3. {t, u} \in SUBSET Threads /\ \A d \in {t, u} : thread'[d].on # x
    BY <1>1, <2>2
  <2>4. SameDisk(x) /\ SameItem(x)
    BY <1>1 DEF SameDisk, SameItem
  <2> QED
    BY <2>2, <2>3, <2>4, Elsewhere
<1> QED
  BY <1>2, <1>3 DEF Respond, OfferClassic, AwaitPassive

------------------------------------------------------------------------------
(* Steps that end a transfer, or know more of it *)

(* progress: what was written is known of, once there is a chunk on the disk. *)
LEMMA ProgressFile ==
    ASSUME Inv, NEW x \in Incoming, FileInv(x), NEW t \in Threads, Progress(t)
    PROVE  FileInv(x)'
<1> DEFINE y == thread[t].on
           pos == thread[t].pos
           back == IF y \in Incoming THEN "receiving" ELSE "sending"
<1>1. thread[t].at \in {"received", "sent"} /\ UNCHANGED <<row, partial, dest, discarded>>
  BY DEF Progress, At, disk, bounds
<1>2. SameDisk(x) /\ row'[x] = row[x] /\ CopyInv(x, row'[x])
  BY <1>1 DEF SameDisk, FileInv, CopiesInv
<1>3. \/ UNCHANGED item /\ Goto(t, back)
      \/ /\ item[y].status = "transferring" /\ item' = [item EXCEPT ![y].bytes = pos]
         /\ Goto(t, back) \/ thread' = [thread EXCEPT ![t] = Saving(t, y, item'[y], back)]
  BY DEF Progress, Save
<1>4. /\ OnlyMoves(t) /\ thread'[t].on = y /\ Going(thread'[t]) = back
      /\ thread'[t].pos = pos /\ thread'[t].linked = thread[t].linked
      /\ thread'[t].at = "save" => thread'[t].copy = item'[y]
  <2>1. thread \in [Threads -> ThreadType] /\ back # "save"
    BY TypedThread
  <2>2. CASE Goto(t, back)
    BY <2>1, <2>2, GotoAlone DEF Going
  <2>3. CASE thread' = [thread EXCEPT ![t] = Saving(t, y, item'[y], back)]
    <3>1. PICK copy : copy = item'[y]
      OBVIOUS
    <3>2. PICK r : r = Saving(t, y, copy, back)
      OBVIOUS
    <3>3. /\ r.at = "save" /\ r.on = y /\ r.next = back /\ r.copy = copy
          /\ r.pos = pos /\ r.linked = thread[t].linked
      BY <3>2, SavingGoes, TypedThread
    <3>4. thread' = [thread EXCEPT ![t] = r]
      BY <2>3, <3>1, <3>2
    <3>5. OnlyMoves(t) /\ thread'[t] = r
      BY <2>1, <3>4 DEF OnlyMoves, Alike
    <3> QED
      BY <3>1, <3>3, <3>5 DEF Going
  <2> QED
    BY <1>3, <2>2, <2>3
<1>5. CASE y # x
  <2>1. item'[x] = item[x]
    BY <1>3, <1>5, NotMine DEF Inv, TypeInv
  <2>2. SameItem(x)
    BY <1>2, <2>1 DEF SameItem
  <2> QED
    BY <1>2, <1>4, <1>5, <2>2, OneElsewhere
<1>6. CASE y = x
  <2>1. thread[t].at = "received" /\ Going(thread[t]) = "received" /\ back = "receiving"
    BY <1>1, <1>6, NotMine DEF Going, OutPlaces
  <2>2. Writes(t, x)
    BY <1>6, <2>1 DEF Writes, Writing
  <2>3. pos # 0 /\ (thread[t].linked => 1..pos \subseteq partial[x]) /\ (~thread[t].linked => Lost(t, x))
    BY <2>1, <2>2 DEF FileInv, WriterInv
  <2>4. Follows(t, x)
    BY <1>4, <1>6, <2>1, <2>2 DEF Follows, Has, Writes, InHand, Writing, Linked
  <2>5. CASE UNCHANGED item
    <3>1. SameItem(x)
      BY <1>2, <2>5 DEF SameItem
    <3> QED
      BY <1>2, <1>4, <2>4, <3>1, OneGoes
  <2>6. CASE item[y].status = "transferring" /\ item' = [item EXCEPT ![y].bytes = pos]
    <3>1. item'[x] = [item[x] EXCEPT !.bytes = pos] /\ item[x] \in ItemType
      BY <1>6, <2>6, NotMine DEF Inv, TypeInv
    <3>2. item'[x].status = "transferring" /\ item'[x].bytes = pos /\ item[x].status = "transferring"
      BY <1>6, <2>6, <3>1 DEF ItemType
    <3>3. HasChunk(x) \/ dest[x] # NoFile
      <4>1. CASE thread[t].linked
        <5>1. 1 \in 1..pos
          BY <2>3, TypedThread, SizeAssumption
        <5> QED
          BY <2>3, <4>1, <5>1 DEF HasChunk
      <4>2. CASE ~thread[t].linked
        BY <2>3, <3>2, <4>2 DEF Lost, Gone, Dead
      <4> QED
        BY <4>1, <4>2
    <3>4. QuietItem(x)
      BY <2>3, <3>2, <3>3 DEF QuietItem
    <3> QED
      BY <1>2, <1>4, <2>4, <3>4, OneKept
  <2> QED
    BY <1>3, <2>5, <2>6
<1> QED
  BY <1>5, <1>6

(* complete: the file has its final name by then. *)
LEMMA CompleteFile ==
    ASSUME Inv, NEW x \in Incoming, FileInv(x), NEW t \in Threads, Complete(t)
    PROVE  FileInv(x)'
<1> DEFINE y == thread[t].on
<1>1. thread[t].at = "complete" /\ UNCHANGED <<row, partial, dest, discarded>>
  BY DEF Complete, At, disk, bounds
<1>2. CASE Done(t) /\ UNCHANGED item
  BY <1>1, <1>2, DoneFile
<1>3. CASE /\ item[y].status = "transferring"
           /\ item' = [item EXCEPT ![y].status = "completed", ![y].finished = TRUE,
                                          ![y].bytes = Size, ![y].resumable = FALSE]
           /\ thread' = OwnerEnded(t, y, Saving(t, y, item'[y], "advance"))
  <2>1. PICK copy : copy = item'[y]
    OBVIOUS
  <2>2. PICK r : r = Saving(t, y, copy, "advance")
    OBVIOUS
  <2>3. r.at = "save" /\ r.on = y /\ r.next = "advance" /\ r.copy = copy
    BY <2>2, SavingGoes, TypedThread
  <2>4. thread' = OwnerEnded(t, y, r)
    BY <1>3, <2>1, <2>2
  <2>5. OnlyMoves(t) /\ thread'[t] = r
    <3>1. PICK base : base = OwnerEnded(t, y, r)
      OBVIOUS
    <3>2. /\ base[t] = r
          /\ \A d \in Threads \ {t} :
               /\ base[d].at = thread[d].at /\ base[d].on = thread[d].on /\ base[d].next = thread[d].next
               /\ base[d].pos = thread[d].pos /\ base[d].linked = thread[d].linked
               /\ base[d].copy = thread[d].copy
      BY <3>1, TypedThread, OwnerAlone
    <3>3. thread' = base
      BY <2>4, <3>1
    <3> QED
      BY <3>2, <3>3 DEF OnlyMoves, Alike
  <2>6. SameDisk(x) /\ row'[x] = row[x] /\ CopyInv(x, row'[x])
    BY <1>1 DEF SameDisk, FileInv, CopiesInv
  <2>7. CASE y # x
    <3>1. SameItem(x)
      BY <1>3, <2>6, <2>7, NotMine DEF Inv, TypeInv, SameItem
    <3> QED
      BY <2>3, <2>5, <2>6, <2>7, <3>1, OneElsewhere
  <2>8. CASE y = x
    <3>1. /\ item[x] \in ItemType
          /\ item'[x] = [item[x] EXCEPT !.status = "completed", !.finished = TRUE, !.bytes = Size, !.resumable = FALSE]
      BY <1>3, <2>8, NotMine DEF Inv, TypeInv
    <3>2. item'[x].status = "completed" /\ item'[x].bytes = Size /\ Size # 0
      BY <3>1, SizeAssumption DEF ItemType
    <3>3. dest[x] # NoFile /\ dest[x] = Whole
      BY <1>1, <1>3, <2>8 DEF FileInv, LinkerInv, Going, Linked, Gone
    <3>4. QuietItem(x)
      BY <1>3, <2>8, <3>2, <3>3 DEF QuietItem, Fresh
    <3>5. Follows(t, x)
      BY <2>1, <2>3, <2>5, <2>8 DEF Follows, Going, InHand, Writing, Linked
    <3> QED
      BY <2>5, <2>6, <3>4, <3>5, OneKept
  <2> QED
    BY <2>7, <2>8
<1> QED
  BY <1>2, <1>3 DEF Complete, manager

(* A transfer ends: where its partial file is removed, none of it is known.   *)
LEMMA EndsFile ==
    ASSUME Inv, NEW x \in Incoming, FileInv(x), NEW t \in Threads, NEW y \in Transfers, NEW ended \in ItemType,
           NEW r \in ThreadType, r.at = "save", r.on = y, r.next = "advance", r.copy = ended,
           thread' = Unlinked(y, OwnerEnded(t, y, r)),
           item' = [item EXCEPT ![y] = ended], Cleanup(y), UNCHANGED <<dest, row, discarded>>,
           ended.bytes = item[y].bytes, ended.offset = item[y].offset,
           ended.status \in {"resumable", "failed", "canceled"},
           item[y].status \notin {"absent", "removed"},
           ended.status = "resumable" => item[y].bytes # 0,
           y \in Incoming /\ ended.path /\ ~ended.resumable => item[y].bytes = 0 \/ partial[y] = NoFile
    PROVE  FileInv(x)'
<1>1. /\ thread'[t].at = "save" /\ thread'[t].on = y /\ thread'[t].next = "advance" /\ thread'[t].copy = ended
      /\ \A d \in Threads \ {t} :
            /\ thread'[d].at = thread[d].at /\ thread'[d].on = thread[d].on /\ thread'[d].next = thread[d].next
            /\ thread'[d].pos = thread[d].pos /\ thread'[d].copy = thread[d].copy
            /\ partial'[y] = partial[y] \/ thread[d].on # y => thread'[d].linked = thread[d].linked
            /\ partial'[y] # partial[y] /\ thread[d].on = y => ~thread'[d].linked
  <2>1. PICK base : base = OwnerEnded(t, y, r)
    OBVIOUS
  <2>2. base \in [Threads -> ThreadType]
    BY <2>1, TypedThread, OwnerCanceled
  <2>3. /\ base[t] = r
        /\ \A d \in Threads \ {t} :
             /\ base[d].at = thread[d].at /\ base[d].on = thread[d].on /\ base[d].next = thread[d].next
             /\ base[d].pos = thread[d].pos /\ base[d].linked = thread[d].linked
             /\ base[d].copy = thread[d].copy
    BY <2>1, TypedThread, OwnerAlone
  <2>4. thread' = Unlinked(y, base)
    BY <2>1
  <2>5. ASSUME NEW d \in Threads
        PROVE  /\ thread'[d].at = base[d].at /\ thread'[d].on = base[d].on /\ thread'[d].next = base[d].next
               /\ thread'[d].pos = base[d].pos /\ thread'[d].copy = base[d].copy
               /\ partial'[y] = partial[y] \/ base[d].on # y => thread'[d].linked = base[d].linked
               /\ partial'[y] # partial[y] /\ base[d].on = y => ~thread'[d].linked
    BY <2>2, <2>4, UnlinkedGoes
  <2>6. thread'[t].at = "save" /\ thread'[t].on = y /\ thread'[t].next = "advance" /\ thread'[t].copy = ended
    BY <2>3, <2>5
  <2>7. ASSUME NEW d \in Threads \ {t}
        PROVE  /\ thread'[d].at = thread[d].at /\ thread'[d].on = thread[d].on /\ thread'[d].next = thread[d].next
               /\ thread'[d].pos = thread[d].pos /\ thread'[d].copy = thread[d].copy
               /\ partial'[y] = partial[y] \/ thread[d].on # y => thread'[d].linked = thread[d].linked
               /\ partial'[y] # partial[y] /\ thread[d].on = y => ~thread'[d].linked
    BY <2>3, <2>5
  <2> QED
    BY <2>6, <2>7
<1>2. row'[x] = row[x] /\ dest'[x] = dest[x] /\ discarded' = discarded /\ CopyInv(x, row'[x])
  BY DEF FileInv, CopiesInv
<1>3. CASE y # x
  <2>1. item'[x] = item[x] /\ partial'[x] = partial[x]
    BY <1>3, NotMine DEF Inv, TypeInv, Cleanup
  <2>2. SameItem(x) /\ SameDisk(x)
    BY <1>2, <2>1 DEF SameItem, SameDisk
  <2> DEFINE moved == {t} \union {d \in Threads : thread[d].on = y}
  <2>3. ASSUME NEW d \in Threads \ moved
        PROVE  Alike(d)
    <3>1. d \in Threads \ {t} /\ thread[d].on # y
      OBVIOUS
    <3> QED
      BY <1>1, <3>1 DEF Alike
  <2>4. moved \in SUBSET Threads /\ \A d \in moved : thread'[d].on # x
    BY <1>1, <1>3
  <2> HIDE DEF moved
  <2> QED
    BY <2>2, <2>3, <2>4, Elsewhere
<1>4. CASE y = x /\ partial'[x] = partial[x]
  <2>1. SameDisk(x)
    BY <1>2, <1>4 DEF SameDisk
  <2>2. OnlyMoves(t)
    BY <1>1, <1>4 DEF OnlyMoves, Alike
  <2>3. item'[x] = ended
    BY <1>4 DEF Inv, TypeInv
  <2>4. QuietItem(x)
    BY <1>4, <2>3 DEF QuietItem, Underway, Fresh
  <2>5. Follows(t, x)
    BY <1>1, <1>4, <2>3 DEF Follows, Going, InHand, Writing, Linked
  <2> QED
    BY <1>2, <2>1, <2>2, <2>4, <2>5, OneKept
<1>5. CASE y = x /\ partial'[x] # partial[x]
  <2>1. item'[x] = ended
    BY <1>5 DEF Inv, TypeInv
  <2>2. partial'[x] = NoFile /\ x \in Incoming /\ ~ended.resumable /\ ended.path
    <3>1. partial' = IF x \in Incoming /\ ~item'[x].resumable /\ item'[x].path
                     THEN [partial EXCEPT ![x] = NoFile] ELSE partial
      BY <1>5 DEF Cleanup
    <3> QED
      BY <1>5, <2>1, <3>1 DEF Inv, TypeInv
  <2>3. item[x].bytes = 0 /\ ended.bytes = 0 /\ ended.offset = 0 /\ ended.status \in {"failed", "canceled"}
    BY <1>5, <2>2 DEF FileInv, ItemInv
  <2>3a. Going(thread'[t]) = "advance" /\ \A d \in Threads \ {t} : Going(thread'[d]) = Going(thread[d])
    BY <1>1 DEF Going
  <2>3b. "advance" \notin InHand \union Linked /\ Writing \subseteq InHand
    BY DEF InHand, Writing, Linked
  <2>4. \A d \in Threads : Has(d, x)' => Has(d, x)
    BY <1>1, <2>3a, <2>3b DEF Has
  <2>5. ASSUME NEW d \in Threads, Writes(d, x)'
        PROVE  d # t /\ Writes(d, x) /\ Has(d, x) /\ ~thread'[d].linked
    <3>1. d # t
      BY <2>5, <2>3a, <2>3b DEF Writes
    <3>2. Writes(d, x) /\ thread[d].on = y
      BY <1>1, <1>5, <2>5, <2>3a, <3>1 DEF Writes
    <3>3. Has(d, x)
      BY <2>3b, <3>2 DEF Has, Writes
    <3>4. ~thread'[d].linked
      BY <1>1, <1>5, <3>1, <3>2
    <3> QED
      BY <3>1, <3>2, <3>3, <3>4
  <2>6. DiskInv(x)'
    BY <1>2, <2>2 DEF FileInv, DiskInv
  <2>7. ItemInv(x)'
    BY <2>1, <2>3 DEF ItemInv
  <2>8. CopiesInv(x)'
    <3>1. \A c : CopyInv(x, c) => CopyInv(x, c)'
      BY <1>2, <1>5, <2>3 DEF CopyInv
    <3>2. CopyInv(x, ended)'
      BY <2>3 DEF CopyInv
    <3>3. \A d \in Threads : \A c : thread'[d].on = x /\ thread'[d].at = "save" /\ c = thread'[d].copy => CopyInv(x, c)'
      BY <1>1, <3>1, <3>2 DEF FileInv, CopiesInv
    <3>4. \A c : c = row'[x] => CopyInv(x, c)'
      BY <1>2, <3>1
    <3> QED
      BY <3>3, <3>4 DEF CopiesInv, CopyInv
  <2>9. HandsInv(x)'
    BY <1>2, <1>5, <2>1, <2>3, <2>4 DEF FileInv, HandsInv, Fresh
  <2>10. ASSUME NEW d \in Threads PROVE WriterInv(d, x)'
    <3> SUFFICES ASSUME Writes(d, x)' PROVE WriterInv(d, x)'
      BY DEF WriterInv
    <3>1. /\ d # t /\ Writes(d, x) /\ Has(d, x) /\ ~thread'[d].linked
          /\ Going(thread'[d]) = Going(thread[d]) /\ thread'[d].pos = thread[d].pos
      BY <1>1, <2>5, <2>3a
    <3>2. dest[x] = NoFile => \A e \in Threads : Has(e, x) => e = d
      BY <1>5, <2>3, <3>1 DEF FileInv, HandsInv
    <3>3. Dead(x)'
      BY <2>1, <2>3 DEF Dead
    <3>4. Lost(d, x)'
      BY <1>2, <2>2, <2>4, <3>2, <3>3 DEF Lost
    <3> QED
      BY <3>1, <3>4 DEF FileInv, WriterInv
  <2>11. ASSUME NEW d \in Threads PROVE LinkerInv(d, x)'
    <3> SUFFICES ASSUME thread'[d].on = x, Going(thread'[d]) \in Linked PROVE LinkerInv(d, x)'
      BY DEF LinkerInv
    <3>1. thread[d].on = x /\ Going(thread[d]) \in Linked
      BY <1>1, <2>3a, <2>3b
    <3>2. dest[x] # NoFile /\ dest[x] = Whole
      BY <1>5, <3>1 DEF FileInv, LinkerInv, Gone
    <3> QED
      BY <1>2, <3>2 DEF LinkerInv
  <2> QED
    BY <2>6, <2>7, <2>8, <2>9, <2>10, <2>11 DEF FileInv
<1> QED
  BY <1>3, <1>4, <1>5

(* One transfer less to cancel, and nothing else changes. *)
LEMMA TodoKeeps ==
    ASSUME NEW k \in ThreadType, NEW todo \in SUBSET Transfers
    PROVE  LET r == [k EXCEPT !.todo = todo]
           IN  r \in ThreadType /\ r.at = k.at /\ r.on = k.on /\ r.next = k.next /\ r.copy = k.copy
  BY DEF ThreadType

(* finishWithError, also the late one of a worker that was replaced. *)
LEMMA FinishWithErrorFile ==
    ASSUME Inv, NEW x \in Incoming, FileInv(x), NEW t \in Threads, FinishWithError(t)
    PROVE  FileInv(x)'
<1> DEFINE y == thread[t].on
           resume == y \in Incoming /\ item[y].path /\ item[y].bytes > 0 /\ partial[y] # NoFile
           s == IF resume THEN "resumable" ELSE IF At(t, "fail") /\ Canceled(t) THEN "canceled" ELSE "failed"
           i == [item[y] EXCEPT !.status = s, !.resumable = @ \/ resume, !.finished = @ \/ ~resume]
<1>1. thread[t].at \in {"fail", "failed"}
  BY DEF FinishWithError, At
<1>2. y \in Transfers /\ item[y] \in ItemType
  BY <1>1, OnType DEF OnPlaces
<1>3. CASE ~Exists(y)
  <2>1. Done(t) /\ UNCHANGED <<item, row, partial, dest, discarded>>
    BY <1>3 DEF FinishWithError, manager, disk, bounds
  <2> QED
    BY <2>1, DoneFile
<1>4. CASE Exists(y)
  <2>1. EndWith(t, y, i)
    BY <1>4 DEF FinishWithError
  <2>2. /\ i \in ItemType /\ i.status = s /\ i.bytes = item[y].bytes /\ i.offset = item[y].offset
        /\ i.path = item[y].path /\ (~i.resumable => ~resume)
    <3> DEFINE more == item[y].resumable \/ resume
               last == item[y].finished \/ ~resume
    <3>1. more \in BOOLEAN /\ last \in BOOLEAN /\ (~more => ~resume)
      BY <1>2 DEF ItemType
    <3>2. i = [item[y] EXCEPT !.status = s, !.resumable = more, !.finished = last]
      BY <1>2 DEF ItemType
    <3>3. s \in Statuses
      BY DEF Statuses, Ended
    <3> HIDE DEF more, last, s, i, resume
    <3>4. PICK m : m = [item[y] EXCEPT !.status = s, !.resumable = more, !.finished = last]
      OBVIOUS
    <3>5. PICK j \in ItemType : j = item[y]
      BY <1>2
    <3>6. m = [j EXCEPT !.status = s, !.resumable = more, !.finished = last]
      BY <3>4, <3>5
    <3>7. /\ m \in ItemType /\ m.status = s /\ m.resumable = more
          /\ m.bytes = j.bytes /\ m.offset = j.offset /\ m.path = j.path
      BY <3>1, <3>3, <3>6 DEF ItemType
    <3> QED
      BY <3>1, <3>2, <3>4, <3>5, <3>7
  <2>3. item[y].bytes \in 0..Size
    BY <1>2 DEF ItemType
  <2>4. /\ s \in {"resumable", "failed", "canceled"} /\ (s = "resumable" => item[y].bytes # 0)
        /\ y \in Incoming /\ item[y].path /\ ~resume => item[y].bytes = 0 \/ partial[y] = NoFile
    BY <2>3, SizeAssumption
  <2>5. item[y].status \notin {"absent", "removed"}
    BY <1>4 DEF Exists
  <2> HIDE DEF i, y, s, resume
  <2>6. /\ item' = [item EXCEPT ![y] = i] /\ thread' = Unlinked(y, OwnerEnded(t, y, Saving(t, y, i, "advance")))
        /\ UNCHANGED <<row, dest, discarded>> /\ Cleanup(y)
    BY <2>1 DEF EndWith, bounds
  <2>7. PICK r \in ThreadType : r = Saving(t, y, i, "advance") /\ r.at = "save" /\ r.on = y /\ r.next = "advance"
    BY <1>2, <2>2, TypedThread, SavingType DEF Places, OnPlaces
  <2>8. r.copy = i
    BY <2>7, TypedThread, SavingGoes
  <2>9. thread' = Unlinked(y, OwnerEnded(t, y, r))
    BY <2>6, <2>7
  <2>10. /\ i.status \in {"resumable", "failed", "canceled"} /\ (i.status = "resumable" => item[y].bytes # 0)
         /\ y \in Incoming /\ i.path /\ ~i.resumable => item[y].bytes = 0 \/ partial[y] = NoFile
    BY <2>2, <2>4
  <2> QED
    BY <1>2, <2>2, <2>5, <2>6, <2>7, <2>8, <2>9, <2>10, EndsFile
<1> QED
  BY <1>3, <1>4

(* Cancel while a worker has the file open. *)
LEMMA CancelLockedFile ==
    ASSUME Inv, NEW x \in Incoming, FileInv(x), NEW t \in Threads, NEW y \in Transfers, CancelLocked(t, y)
    PROVE  FileInv(x)'
<1> DEFINE resume == y \in Incoming /\ item[y].path /\ item[y].bytes > 0
           s == IF resume THEN "resumable" ELSE "canceled"
           i == [item[y] EXCEPT !.status = s, !.resumable = @ \/ resume, !.finished = @ \/ ~resume]
           todo == thread[t].todo \ {y}
           r == [Saving(t, y, i, "advance") EXCEPT !.todo = todo]
<1>1. item[y] \in ItemType
  BY DEF Inv, TypeInv
<1>2. /\ item' = [item EXCEPT ![y] = i] /\ item'[y] = i
      /\ thread' = Unlinked(y, OwnerEnded(t, y, [Saving(t, y, item'[y], "advance") EXCEPT !.todo = thread[t].todo \ {y}]))
      /\ UNCHANGED <<row, dest, discarded>> /\ Cleanup(y)
      /\ item[y].status \in Active \union {"resumable"}
  BY DEF CancelLocked, Inv, TypeInv, bounds
<1>3. /\ i \in ItemType /\ i.status = s /\ i.bytes = item[y].bytes /\ i.offset = item[y].offset
      /\ i.path = item[y].path /\ (~i.resumable => ~resume)
  <2> DEFINE more == item[y].resumable \/ resume
             last == item[y].finished \/ ~resume
  <2>1. more \in BOOLEAN /\ last \in BOOLEAN /\ (~more => ~resume)
    BY <1>1 DEF ItemType
  <2>2. i = [item[y] EXCEPT !.status = s, !.resumable = more, !.finished = last]
    BY <1>1 DEF ItemType
  <2>3. s \in Statuses
    BY DEF Statuses, Ended
  <2> HIDE DEF more, last, s, i, resume
  <2>4. PICK m : m = [item[y] EXCEPT !.status = s, !.resumable = more, !.finished = last]
    OBVIOUS
  <2>5. PICK j \in ItemType : j = item[y]
    BY <1>1
  <2>6. m = [j EXCEPT !.status = s, !.resumable = more, !.finished = last]
    BY <2>4, <2>5
  <2>7. /\ m \in ItemType /\ m.status = s /\ m.resumable = more
        /\ m.bytes = j.bytes /\ m.offset = j.offset /\ m.path = j.path
    BY <2>1, <2>3, <2>6 DEF ItemType
  <2> QED
    BY <2>1, <2>2, <2>4, <2>5, <2>7
<1>4. item[y].bytes \in 0..Size
  BY <1>1 DEF ItemType
<1>5. /\ s \in {"resumable", "failed", "canceled"} /\ (s = "resumable" => item[y].bytes # 0)
      /\ y \in Incoming /\ item[y].path /\ ~resume => item[y].bytes = 0 \/ partial[y] = NoFile
  BY <1>4, SizeAssumption
<1> HIDE DEF i, s, resume
<1>6. r \in ThreadType /\ r.at = "save" /\ r.on = y /\ r.next = "advance" /\ r.copy = i
  <2>1. PICK k \in ThreadType : k = Saving(t, y, i, "advance") /\ k.at = "save" /\ k.on = y /\ k.next = "advance"
    BY <1>3, TypedThread, SavingType DEF Places, OnPlaces
  <2>2. k.copy = i
    BY <2>1, TypedThread, SavingGoes
  <2>3. todo \in SUBSET Transfers /\ r = [k EXCEPT !.todo = todo]
    BY <2>1, TypedThread
  <2> HIDE DEF todo, r
  <2> QED
    BY <2>1, <2>2, <2>3, TodoKeeps
<1>7. thread' = Unlinked(y, OwnerEnded(t, y, r))
  BY <1>2
<1> HIDE DEF r
<1>8. item[y].status \notin {"absent", "removed"}
  BY <1>2 DEF Active
<1>9. /\ i.status \in {"resumable", "failed", "canceled"} /\ (i.status = "resumable" => item[y].bytes # 0)
      /\ y \in Incoming /\ i.path /\ ~i.resumable => item[y].bytes = 0 \/ partial[y] = NoFile
  BY <1>3, <1>5
<1> QED
  BY <1>2, <1>3, <1>6, <1>7, <1>8, <1>9, EndsFile

(* The same for each transfer of a CancelAll. *)
LEMMA CancelNextFile ==
    ASSUME Inv, NEW x \in Incoming, FileInv(x), NEW t \in Threads, CancelNext(t)
    PROVE  FileInv(x)'
<1>1. thread[t].at = "idle"
  BY DEF CancelNext, At
<1>2. PICK y \in thread[t].todo :
          \/ CancelLocked(t, y)
          \/ thread' = [thread EXCEPT ![t].todo = @ \ {y}] /\ UNCHANGED <<manager, disk, bounds>>
  BY DEF CancelNext
<1>3. CASE CancelLocked(t, y)
  BY <1>3, TypedThread, CancelLockedFile
<1>4. CASE thread' = [thread EXCEPT ![t].todo = @ \ {y}] /\ UNCHANGED <<manager, disk, bounds>>
  <2> DEFINE todo == thread[t].todo \ {y}
             r == [thread[t] EXCEPT !.todo = todo]
  <2>1. todo \in SUBSET Transfers /\ thread' = [thread EXCEPT ![t] = r]
    BY <1>4, TypedThread
  <2> HIDE DEF todo
  <2>2. r.at = thread[t].at
    BY <2>1, TypedThread, TodoType
  <2> HIDE DEF r
  <2>3. OnlyMoves(t) /\ thread'[t].at = "idle"
    BY <1>1, <2>1, <2>2, TypedThread DEF OnlyMoves, Alike
  <2>4. Follows(t, x)
    BY <2>3 DEF Follows, Going, InHand, Writing, Linked
  <2>5. SameDisk(x) /\ SameItem(x)
    BY <1>4 DEF SameDisk, SameItem, manager, disk, bounds
  <2> QED
    BY <2>3, <2>4, <2>5, OneGoes
<1> QED
  BY <1>2, <1>3, <1>4

------------------------------------------------------------------------------
(* Steps that forget, begin and hand over a transfer *)

(* A record of nothing. *)
LEMMA Nothing ==
    /\ Unknown.status = "absent" /\ Unknown.bytes = 0 /\ Unknown.offset = 0
    /\ Removed.status = "removed" /\ Removed.bytes = 0 /\ Removed.offset = 0
    /\ \A x : CopyInv(x, Unknown)
  BY DEF Unknown, Removed, CopyInv

(* The manager forgets a transfer whose file stays where it is. *)
LEMMA ForgottenFile ==
    ASSUME NEW x, FileInv(x), \A d \in Threads : Alike(d), SameDisk(x),
           item'[x] = Removed, row'[x] = row[x] \/ row'[x] = Unknown
    PROVE  FileInv(x)'
<1>1. /\ partial'[x] = partial[x] /\ dest'[x] = dest[x] /\ (x \in discarded' <=> x \in discarded)
      /\ HasChunk(x)' = HasChunk(x)
  BY DEF SameDisk, HasChunk
<1>2. item'[x].status = "removed" /\ item'[x].bytes = 0 /\ item'[x].offset = 0
  BY Nothing
<1>3. \A d \in Threads : /\ Going(thread'[d]) = Going(thread[d])
                         /\ Has(d, x)' = Has(d, x) /\ Writes(d, x)' = Writes(d, x)
  BY AlikeGoes
<1>4. DiskInv(x)' /\ ItemInv(x)'
  BY <1>1, <1>2 DEF FileInv, DiskInv, ItemInv
<1>5. CopiesInv(x)'
  <2>1. \A c : CopyInv(x, c) => CopyInv(x, c)'
    BY <1>1, <1>2 DEF CopyInv
  <2>2. \A c : c = row'[x] => CopyInv(x, c)'
    BY <2>1, Nothing DEF FileInv, CopiesInv
  <2>3. \A d \in Threads : \A c : thread'[d].on = x /\ thread'[d].at = "save" /\ c = thread'[d].copy => CopyInv(x, c)'
    BY <2>1 DEF FileInv, CopiesInv, Alike
  <2> QED
    BY <2>2, <2>3 DEF CopiesInv, CopyInv
<1>6. HandsInv(x)'
  BY <1>2 DEF HandsInv, Fresh
<1>7. ASSUME NEW d \in Threads PROVE WriterInv(d, x)'
  <2> SUFFICES ASSUME Writes(d, x)' PROVE WriterInv(d, x)'
    BY DEF WriterInv
  <2>1. Writes(d, x) /\ thread'[d].pos = thread[d].pos /\ thread'[d].linked = thread[d].linked
    BY <1>3 DEF Alike
  <2>2. Lost(d, x) => Lost(d, x)'
    BY <1>1, <1>2, <1>3 DEF Lost, Gone, Dead
  <2> QED
    BY <1>1, <1>3, <2>1, <2>2 DEF FileInv, WriterInv
<1>8. ASSUME NEW d \in Threads PROVE LinkerInv(d, x)'
  <2> SUFFICES ASSUME thread'[d].on = x, Going(thread'[d]) \in Linked PROVE LinkerInv(d, x)'
    BY DEF LinkerInv
  <2>1. thread[d].on = x /\ Going(thread[d]) \in Linked
    BY <1>3 DEF Alike
  <2> QED
    BY <1>1, <1>2, <2>1 DEF FileInv, LinkerInv, Gone
<1> QED
  BY <1>4, <1>5, <1>6, <1>7, <1>8 DEF FileInv

(* Its row goes, or nothing does. *)
LEMMA RowGoesFile ==
    ASSUME NEW x, FileInv(x), \A d \in Threads : Alike(d), SameDisk(x),
           item'[x] = item[x], row'[x] = row[x] \/ row'[x] = Unknown
    PROVE  FileInv(x)'
<1>1. QuietItem(x)
  BY DEF QuietItem
<1>2. CopyInv(x, row'[x])
  BY Nothing DEF FileInv, CopiesInv
<1>3. {} \in SUBSET Threads /\ (\A d \in Threads \ {} : Alike(d)) /\ \A d \in {} : Follows(d, x)
  OBVIOUS
<1> QED
  BY <1>1, <1>2, <1>3, FileKept

(* RemoveHistory and ClearHistory. *)
LEMMA HistoryFile ==
    ASSUME Inv, NEW x \in Incoming, FileInv(x), NEW t \in Threads,
           ClearHistory(t) \/ \E y \in Transfers : RemoveHistory(t, y)
    PROVE  FileInv(x)'
<1>1. (\A d \in Threads : Alike(d)) /\ SameDisk(x)
  BY DEF ClearHistory, RemoveHistory, Alike, SameDisk, bounds
<1>2. CASE ClearHistory(t)
  <2>1. item'[x] = item[x] \/ item'[x] = Removed
    BY <1>2, NotMine DEF ClearHistory
  <2>2. row'[x] = row[x] \/ row'[x] = Unknown
    BY <1>2, NotMine DEF ClearHistory
  <2> QED
    BY <1>1, <2>1, <2>2, ForgottenFile, RowGoesFile
<1>3. ASSUME NEW y \in Transfers, RemoveHistory(t, y)
      PROVE  FileInv(x)'
  <2>1. /\ item' = [item EXCEPT ![y] = Removed]
        /\ row' = [row EXCEPT ![y] = IF @.finished THEN Unknown ELSE @]
    BY <1>3 DEF RemoveHistory, Forget
  <2>2. item'[x] = item[x] \/ item'[x] = Removed
    BY <2>1, NotMine DEF Inv, TypeInv
  <2>3. row'[x] = row[x] \/ row'[x] = Unknown
    BY <2>1, NotMine DEF Inv, TypeInv
  <2> QED
    BY <1>1, <2>2, <2>3, ForgottenFile, RowGoesFile
<1> QED
  BY <1>2, <1>3

(* The user discards the partial file, whoever writes it. *)
LEMMA DiscardPartialFile ==
    ASSUME Inv, NEW x \in Incoming, FileInv(x), NEW t \in Threads, NEW y \in Transfers, DiscardPartial(t, y)
    PROVE  FileInv(x)'
<1>1. /\ item' = [item EXCEPT ![y] = Removed] /\ row' = [row EXCEPT ![y] = IF @.finished THEN Unknown ELSE @]
      /\ partial' = [partial EXCEPT ![y] = NoFile] /\ thread' = Unlinked(y, thread)
      /\ discarded' = discarded \union {y} /\ dest' = dest
  BY DEF DiscardPartial, Forget
<1>2. ASSUME NEW d \in Threads
      PROVE  /\ thread'[d].at = thread[d].at /\ thread'[d].on = thread[d].on /\ thread'[d].next = thread[d].next
             /\ thread'[d].pos = thread[d].pos /\ thread'[d].copy = thread[d].copy
             /\ partial'[y] = partial[y] \/ thread[d].on # y => thread'[d].linked = thread[d].linked
             /\ partial'[y] # partial[y] /\ thread[d].on = y => ~thread'[d].linked
  BY <1>1, TypedThread, UnlinkedGoes
<1>3. CASE y # x
  <2>1. SameItem(x) /\ SameDisk(x)
    BY <1>1, <1>3, NotMine DEF Inv, TypeInv, SameItem, SameDisk
  <2> DEFINE moved == {d \in Threads : thread[d].on = y}
  <2>2. moved \in SUBSET Threads /\ (\A d \in Threads \ moved : Alike(d)) /\ \A d \in moved : thread'[d].on # x
    BY <1>2, <1>3 DEF Alike
  <2> HIDE DEF moved
  <2> QED
    BY <2>1, <2>2, Elsewhere
<1>4. CASE y = x
  <2>1. /\ item'[x] = Removed /\ (row'[x] = row[x] \/ row'[x] = Unknown) /\ partial'[x] = NoFile
        /\ dest'[x] = dest[x] /\ x \in discarded'
    BY <1>1, <1>4, NotMine DEF Inv, TypeInv
  <2>2. item'[x].status = "removed" /\ item'[x].bytes = 0 /\ item'[x].offset = 0
    BY <2>1, Nothing
  <2>3. \A d \in Threads : Going(thread'[d]) = Going(thread[d])
    BY <1>2 DEF Going
  <2>4. Gone(x)'
    BY <2>1, <2>2 DEF Gone
  <2>5. DiskInv(x)' /\ ItemInv(x)' /\ HandsInv(x)'
    BY <2>1, <2>2 DEF DiskInv, ItemInv, HandsInv, Fresh
  <2>6. CopiesInv(x)'
    <3>1. \A c : CopyInv(x, c) => CopyInv(x, c)'
      BY <2>1 DEF CopyInv
    <3>2. \A c : c = row'[x] => CopyInv(x, c)'
      BY <2>1, <3>1, Nothing DEF FileInv, CopiesInv
    <3>3. \A d \in Threads : \A c : thread'[d].on = x /\ thread'[d].at = "save" /\ c = thread'[d].copy => CopyInv(x, c)'
      BY <1>2, <3>1 DEF FileInv, CopiesInv
    <3> QED
      BY <3>2, <3>3 DEF CopiesInv, CopyInv
  <2>7. ASSUME NEW d \in Threads PROVE WriterInv(d, x)'
    <3> SUFFICES ASSUME Writes(d, x)' PROVE WriterInv(d, x)'
      BY DEF WriterInv
    <3>1. Writes(d, x) /\ thread[d].on = y /\ thread'[d].pos = thread[d].pos
      BY <1>2, <1>4, <2>3 DEF Writes
    <3>2. ~thread'[d].linked
      <4>1. CASE partial'[y] = partial[y]
        BY <1>2, <1>4, <2>1, <3>1, <4>1 DEF FileInv, WriterInv
      <4>2. CASE partial'[y] # partial[y]
        BY <1>2, <3>1, <4>2
      <4> QED
        BY <4>1, <4>2
    <3> QED
      BY <2>3, <2>4, <3>1, <3>2 DEF FileInv, WriterInv, Lost
  <2>8. ASSUME NEW d \in Threads PROVE LinkerInv(d, x)'
    BY <1>2, <2>1, <2>3, <2>4 DEF FileInv, LinkerInv
  <2> QED
    BY <2>5, <2>6, <2>7, <2>8 DEF FileInv
<1> QED
  BY <1>3, <1>4

(* Accept: a transfer whose partial file has no chunk is in nobody's hand. *)
LEMMA AcceptFile ==
    ASSUME Inv, NEW x \in Incoming, FileInv(x), NEW t \in Threads, NEW y \in Transfers, Accept(t, y)
    PROVE  FileInv(x)'
<1> DEFINE offset == Length(partial[y])
           next == IF offset > 0 THEN "askResume" ELSE "setup"
<1>1. /\ item[y].status \in {"offered", "resumable"} /\ UNCHANGED <<row, partial, dest, discarded>>
      /\ item' = [item EXCEPT ![y].status = "connecting", ![y].path = TRUE,
                              ![y].offset = offset, ![y].bytes = offset]
      /\ thread' = [thread EXCEPT ![t] = Saving(t, y, item'[y], next)]
  BY DEF Accept, Save, disk, bounds
<1>2. /\ offset \in 0..Size /\ (offset # 0 => offset \in partial[y])
      /\ \A m \in partial[y] : m <= offset
  BY LengthIsLast DEF Inv, TypeInv
<1> HIDE DEF offset
<1>3. PICK copy : copy = item'[y]
  OBVIOUS
<1>4. /\ OnlyMoves(t) /\ thread'[t].at = "save" /\ thread'[t].on = y /\ thread'[t].next = next
      /\ thread'[t].copy = copy
  <2>1. PICK r : r = Saving(t, y, copy, next)
    OBVIOUS
  <2>2. r.at = "save" /\ r.on = y /\ r.next = next /\ r.copy = copy
    BY <2>1, SavingGoes, TypedThread
  <2>3. thread \in [Threads -> ThreadType] /\ thread' = [thread EXCEPT ![t] = r]
    BY <1>1, <1>3, <2>1, TypedThread
  <2>4. OnlyMoves(t) /\ thread'[t] = r
    BY <2>3 DEF OnlyMoves, Alike
  <2> QED
    BY <2>2, <2>4
<1>5. SameDisk(x) /\ row'[x] = row[x] /\ CopyInv(x, row'[x])
  BY <1>1 DEF SameDisk, FileInv, CopiesInv
<1>6. CASE y # x
  <2>1. SameItem(x)
    BY <1>1, <1>5, <1>6, NotMine DEF Inv, TypeInv, SameItem
  <2> QED
    BY <1>4, <1>5, <1>6, <2>1, OneElsewhere
<1>7. CASE y = x
  <2>1. item'[x].status = "connecting" /\ item'[x].offset = offset /\ item'[x].bytes = offset
    <3>1. /\ item[x] \in ItemType
          /\ item'[x] = [item[x] EXCEPT !.status = "connecting", !.path = TRUE, !.offset = offset, !.bytes = offset]
      BY <1>1, <1>7, NotMine DEF Inv, TypeInv
    <3> QED
      BY <3>1 DEF ItemType
  <2>2. CASE offset # 0
    <3>1. HasChunk(x)
      <4>1. PICK n \in 0..Size : partial[x] = 1..n
        BY <1>2, <1>7, <2>2 DEF FileInv, DiskInv, NoFile
      <4>2. n \in Nat /\ n # 0
        BY <1>2, <1>7, <2>2, <4>1, SizeAssumption
      <4> QED
        BY <4>1, <4>2 DEF HasChunk
    <3>2. QuietItem(x)
      BY <1>1, <1>7, <2>1, <2>2, <3>1 DEF QuietItem, Fresh
    <3>3. next = "askResume"
      BY <1>2, <2>2, SizeAssumption
    <3>4. Follows(t, x)
      BY <1>3, <1>4, <1>7, <3>3 DEF Follows, Going, InHand, Writing, Linked
    <3> QED
      BY <1>4, <1>5, <3>2, <3>4, OneKept
  <2>3. CASE offset = 0
    <3>1. ~HasChunk(x) /\ partial'[x] = partial[x] /\ dest'[x] = dest[x] /\ discarded' = discarded
      BY <1>1, <1>2, <1>7, <2>3 DEF HasChunk
    <3>2. Going(thread'[t]) = "setup"
      BY <1>4, <2>3 DEF Going
    <3>3. \A d \in Threads \ {t} : /\ Going(thread'[d]) = Going(thread[d])
                                   /\ Has(d, x)' = Has(d, x) /\ Writes(d, x)' = Writes(d, x)
      BY <1>4, AlikeGoes DEF OnlyMoves
    <3>4. DiskInv(x)' /\ ItemInv(x)'
      BY <2>1, <2>3, <3>1 DEF FileInv, DiskInv, ItemInv
    <3>5. CopiesInv(x)'
      <4>1. \A c : CopyInv(x, c) => CopyInv(x, c)'
        BY <3>1 DEF CopyInv
      <4>2. CopyInv(x, copy)'
        BY <1>3, <1>7, <2>1, <2>3 DEF CopyInv
      <4>3. \A c : c = row'[x] => CopyInv(x, c)'
        BY <1>5, <4>1
      <4>4. \A d \in Threads : \A c : thread'[d].on = x /\ thread'[d].at = "save" /\ c = thread'[d].copy => CopyInv(x, c)'
        BY <1>4, <4>1, <4>2 DEF FileInv, CopiesInv, Alike, OnlyMoves
      <4> QED
        BY <4>3, <4>4 DEF CopiesInv, CopyInv
    <3>6. HandsInv(x)'
      <4> SUFFICES ASSUME dest[x] = NoFile PROVE HandsInv(x)'
        BY <3>1 DEF HandsInv
      <4>1. \A d \in Threads : ~Has(d, x)
        <5>1. CASE item[x].bytes = 0
          BY <1>1, <1>7, <5>1 DEF FileInv, HandsInv, Fresh
        <5>2. CASE item[x].bytes # 0
          BY <3>1, <5>2 DEF FileInv, ItemInv, Untouched
        <5> QED
          BY <5>1, <5>2
      <4>2. \A d \in Threads : Has(d, x)' => d = t
        BY <3>3, <4>1
      <4> QED
        BY <2>1, <4>2 DEF HandsInv, Fresh
    <3>7. ASSUME NEW d \in Threads PROVE WriterInv(d, x)'
      <4> SUFFICES ASSUME Writes(d, x)' PROVE WriterInv(d, x)'
        BY DEF WriterInv
      <4>1. d # t
        BY <3>2 DEF Writes, Writing
      <4>2. /\ Writes(d, x) /\ Going(thread'[d]) = Going(thread[d])
            /\ thread'[d].pos = thread[d].pos /\ thread'[d].linked = thread[d].linked
        BY <1>4, <3>3, <4>1 DEF OnlyMoves, Alike
      <4>3. Lost(d, x) => Lost(d, x)'
        BY <1>1, <1>7, <3>1 DEF Lost, Gone, Dead
      <4> QED
        BY <3>1, <4>2, <4>3 DEF FileInv, WriterInv
    <3>8. ASSUME NEW d \in Threads PROVE LinkerInv(d, x)'
      <4> SUFFICES ASSUME thread'[d].on = x, Going(thread'[d]) \in Linked PROVE LinkerInv(d, x)'
        BY DEF LinkerInv
      <4>1. d # t
        BY <3>2 DEF Linked
      <4>2. thread[d].on = x /\ Going(thread[d]) \in Linked
        BY <1>4, <3>3, <4>1 DEF OnlyMoves, Alike
      <4> QED
        BY <1>1, <1>7, <3>1, <4>2 DEF FileInv, LinkerInv, Gone
    <3> QED
      BY <3>4, <3>5, <3>6, <3>7, <3>8 DEF FileInv
  <2> QED
    BY <2>2, <2>3
<1> QED
  BY <1>6, <1>7

(* beginReceive hands the transfer to a worker. *)
LEMMA BeginReceiveFile ==
    ASSUME Inv, NEW x \in Incoming, FileInv(x), NEW t \in Threads, BeginReceive(t)
    PROVE  FileInv(x)'
<1> DEFINE y == thread[t].on
<1>1. thread[t].at = "setup" /\ UNCHANGED <<item, row, partial, dest, discarded>>
  BY DEF BeginReceive, At, disk, bounds
<1>2. SameItem(x) /\ SameDisk(x) /\ x # None
  BY <1>1, NotMine DEF SameItem, SameDisk
<1>3. CASE Goto(t, "failed")
  BY <1>1, <1>3, GotoFile DEF InHand, Writing, Linked
<1>4. CASE Spawn(t, y, "connectReceive")
  <2>1. PICK u \in Threads :
            /\ \A d \in Threads \ {t, u} : Alike(d)
            /\ thread'[u].at = "connectReceive" /\ thread'[u].on = y
            /\ t # u => thread'[t].at = "idle" /\ thread'[t].on = None
    BY <1>4, TypedThread, SpawnAlone
  <2>2. CASE y # x
    <3>1. {t, u} \in SUBSET Threads /\ \A d \in {t, u} : thread'[d].on # x
      BY <1>2, <2>1, <2>2
    <3> QED
      BY <1>2, <2>1, <3>1, Elsewhere
  <2>3. CASE y = x
    <3>1. Has(t, x) /\ ~Writes(t, x)
      BY <1>1, <2>3 DEF Has, Writes, Going, InHand, Writing
    <3>2. /\ item'[x] = item[x] /\ row'[x] = row[x] /\ partial'[x] = partial[x] /\ dest'[x] = dest[x]
          /\ discarded' = discarded
      BY <1>1
    <3>3. \A d \in Threads \ {t, u} : /\ Going(thread'[d]) = Going(thread[d]) /\ thread'[d].on = thread[d].on
                                      /\ Has(d, x)' = Has(d, x) /\ Writes(d, x)' = Writes(d, x)
      BY <2>1, AlikeGoes DEF Alike
    <3>4. \A d \in {t, u} : /\ thread'[d].on = x => d = u
                            /\ thread'[d].at # "save" /\ Going(thread'[d]) \notin Linked \union Writing
      BY <1>2, <2>1 DEF Going, Linked, Writing
    <3>5. \A d \in Threads : Has(d, x)' => d = u \/ (d # t /\ Has(d, x))
      BY <3>3, <3>4 DEF Has
    <3>6. \A d \in Threads : Writes(d, x)' => d \notin {t, u} /\ Writes(d, x)
      BY <3>3, <3>4 DEF Writes
    <3>7. Untouched(x) => FALSE
      BY <3>1 DEF Untouched
    <3>8. DiskInv(x)' /\ ItemInv(x)'
      BY <3>2, <3>7 DEF FileInv, DiskInv, ItemInv, HasChunk
    <3>9. CopiesInv(x)'
      <4>1. \A c : CopyInv(x, c) => CopyInv(x, c)'
        BY <3>2 DEF CopyInv, HasChunk
      <4>2. \A c : c = row'[x] => CopyInv(x, c)'
        BY <3>2, <4>1 DEF FileInv, CopiesInv
      <4>3. \A d \in Threads : \A c : thread'[d].on = x /\ thread'[d].at = "save" /\ c = thread'[d].copy => CopyInv(x, c)'
        BY <2>1, <3>4, <4>1 DEF FileInv, CopiesInv, Alike
      <4> QED
        BY <4>2, <4>3 DEF CopiesInv, CopyInv
    <3>10. HandsInv(x)'
      <4> SUFFICES ASSUME item[x].bytes = 0, dest[x] = NoFile PROVE HandsInv(x)'
        BY <3>2 DEF HandsInv
      <4>1. /\ item[x].status \notin Fresh
            /\ item[x].status # "removed" => \A d \in Threads : Has(d, x) => d = t
        BY <3>1 DEF FileInv, HandsInv
      <4>2. item[x].status # "removed" => \A d \in Threads : Has(d, x)' => d = u
        BY <3>5, <4>1
      <4> QED
        BY <3>2, <4>1, <4>2 DEF HandsInv
    <3>11. ASSUME NEW d \in Threads PROVE WriterInv(d, x)'
      <4> SUFFICES ASSUME Writes(d, x)' PROVE WriterInv(d, x)'
        BY DEF WriterInv
      <4>1. /\ d \notin {t, u} /\ Writes(d, x) /\ Going(thread'[d]) = Going(thread[d])
            /\ thread'[d].pos = thread[d].pos /\ thread'[d].linked = thread[d].linked
        BY <2>1, <3>3, <3>6 DEF Alike
      <4>2. Lost(d, x) => Lost(d, x)'
        BY <3>1, <3>2, <4>1 DEF Lost, Gone
      <4> QED
        BY <3>2, <4>1, <4>2 DEF FileInv, WriterInv
    <3>12. ASSUME NEW d \in Threads PROVE LinkerInv(d, x)'
      BY <3>2, <3>3, <3>4 DEF FileInv, LinkerInv, Gone
    <3> QED
      BY <3>8, <3>9, <3>10, <3>11, <3>12 DEF FileInv
  <2> QED
    BY <2>2, <2>3
<1> QED
  BY <1>3, <1>4 DEF BeginReceive

------------------------------------------------------------------------------
(* Steps that change the files *)

(* The whole file is not the file that is not there. *)
LEMMA WholeIsFile == Whole # NoFile /\ 1..0 = {} /\ {} # NoFile
<1>1. 0 \notin 1..Size /\ 0 \in NoFile
  BY SizeAssumption DEF NoFile
<1>2. 1..0 = {}
  OBVIOUS
<1>3. {} # NoFile
  BY DEF NoFile
<1> QED
  BY <1>1, <1>2, <1>3 DEF Whole

(* The receiver opens the file: a fresh one, or the one it asked to resume. *)
LEMMA OpenFileFile ==
    ASSUME Inv, NEW x \in Incoming, FileInv(x), NEW t \in Threads, OpenFile(t)
    PROVE  FileInv(x)'
<1> DEFINE y == thread[t].on
           pos == thread[t].pos
           opened == thread' = [thread EXCEPT ![t].at = "receiving", ![t].linked = TRUE]
           refused == \/ Canceled(t) \/ (pos = 0 /\ partial[y] # NoFile)
                      \/ (pos > 0 /\ Length(partial[y]) # pos)
<1>1. /\ thread[t].at = "openFile" /\ UNCHANGED <<item, row, dest, discarded>>
      /\ partial' = IF partial[y] = NoFile THEN [partial EXCEPT ![y] = {}] ELSE partial
      /\ IF refused THEN Goto(t, "fail") ELSE opened
  BY DEF OpenFile, At, manager, bounds
<1> HIDE DEF refused
<1>2. /\ OnlyMoves(t) /\ thread'[t].on = y /\ thread'[t].pos = pos /\ thread'[t].at \in {"fail", "receiving"}
      /\ thread'[t].at = "receiving" => ~refused /\ thread'[t].linked
  <2>1. CASE refused /\ Goto(t, "fail")
    BY <2>1, TypedThread, GotoAlone
  <2>2. CASE ~refused /\ opened
    <3>1. OnlyMoves(t) /\ thread'[t].on = y /\ thread'[t].pos = pos /\ thread'[t].at = "receiving"
      BY <2>2, TypedThread DEF OnlyMoves, Alike, ThreadType
    <3>2. thread'[t].linked = TRUE
      BY <2>2, TypedThread DEF ThreadType
    <3> QED
      BY <2>2, <3>1, <3>2
  <2> QED
    BY <1>1, <2>1, <2>2
<1>3. SameItem(x)
  BY <1>1 DEF SameItem
<1>4. CASE y # x
  <2>1. SameDisk(x)
    BY <1>1, <1>4, NotMine DEF SameDisk, Inv, TypeInv
  <2> QED
    BY <1>2, <1>3, <1>4, <2>1, OneElsewhere
<1>5. CASE y = x
  <2>1. Has(t, x) /\ ~Writes(t, x)
    BY <1>1, <1>5 DEF Has, Writes, Going, InHand, Writing
  <2>2. /\ partial'[x] = IF partial[x] = NoFile THEN {} ELSE partial[x]
        /\ partial'[x] # NoFile /\ (HasChunk(x)' <=> HasChunk(x))
    <3>1. CASE partial[x] = NoFile
      <4>1. partial'[x] = {} /\ 1 \notin partial[x]
        BY <1>1, <1>5, <3>1, NotMine DEF Inv, TypeInv, NoFile
      <4> QED
        BY <3>1, <4>1, WholeIsFile DEF HasChunk
    <3>2. CASE partial[x] # NoFile
      <4>1. partial'[x] = partial[x]
        BY <1>1, <1>5, <3>2
      <4> QED
        BY <3>2, <4>1 DEF HasChunk
    <3> QED
      BY <3>1, <3>2
  <2>3. item'[x] = item[x] /\ row'[x] = row[x] /\ dest'[x] = dest[x] /\ discarded' = discarded
    BY <1>1
  <2>4. /\ \A d \in Threads \ {t} : /\ Going(thread'[d]) = Going(thread[d])
                                    /\ Has(d, x)' = Has(d, x) /\ Writes(d, x)' = Writes(d, x)
        /\ Going(thread'[t]) = thread'[t].at /\ "fail" \notin InHand \union Linked /\ "receiving" \notin Linked
    BY <1>2, AlikeGoes DEF OnlyMoves, Going, InHand, Writing, Linked
  <2>5. \A d \in Threads : Has(d, x)' => Has(d, x)
    BY <2>1, <2>4
  <2>6. DiskInv(x)' /\ ItemInv(x)'
    <3>1. 0 \in 0..Size
      BY SizeAssumption
    <3>2. DiskInv(x)'
      BY <2>2, <2>3, <3>1, WholeIsFile DEF FileInv, DiskInv
    <3>3. ItemInv(x)'
      BY <2>1, <2>2, <2>3 DEF FileInv, ItemInv, Untouched
    <3> QED
      BY <3>2, <3>3
  <2>7. CopiesInv(x)'
    <3>1. \A c : CopyInv(x, c) => CopyInv(x, c)'
      BY <2>2, <2>3 DEF CopyInv
    <3>2. \A c : c = row'[x] => CopyInv(x, c)'
      BY <2>3, <3>1 DEF FileInv, CopiesInv
    <3>3. \A d \in Threads : \A c : thread'[d].on = x /\ thread'[d].at = "save" /\ c = thread'[d].copy => CopyInv(x, c)'
      BY <1>2, <3>1 DEF FileInv, CopiesInv, Alike, OnlyMoves
    <3> QED
      BY <3>2, <3>3 DEF CopiesInv, CopyInv
  <2>8. HandsInv(x)'
    BY <2>3, <2>5 DEF FileInv, HandsInv
  <2>9. ASSUME NEW d \in Threads PROVE WriterInv(d, x)'
    <3> SUFFICES ASSUME Writes(d, x)' PROVE WriterInv(d, x)'
      BY DEF WriterInv
    <3>1. CASE d = t
      <4>1. thread'[t].at = "receiving" /\ Going(thread'[t]) = "receiving" /\ ~refused /\ thread'[t].linked
        BY <1>2, <2>4, <3>1 DEF Writes, Writing
      <4>2. 1..pos \subseteq partial'[x]
        <5>1. CASE pos = 0
          BY <5>1
        <5>2. CASE pos # 0
          <6>1. pos > 0 /\ Length(partial[x]) = pos
            BY <1>5, <4>1, <5>2, TypedThread, SizeAssumption DEF refused
          <6>2. pos \in partial[x] /\ \A m \in partial[x] : m <= pos
            BY <6>1, <5>2, NotMine, LengthIsLast DEF Inv, TypeInv
          <6>3. partial[x] # NoFile
            BY <5>2, <6>2 DEF NoFile
          <6>4. PICK n \in 0..Size : partial[x] = 1..n
            BY <6>3 DEF FileInv, DiskInv
          <6>5. 1..pos \subseteq 1..n
            BY <6>2, <6>4, SizeAssumption
          <6> QED
            BY <2>2, <6>3, <6>4, <6>5
        <5> QED
          BY <5>1, <5>2
      <4> QED
        BY <1>2, <2>2, <3>1, <4>1, <4>2 DEF WriterInv
    <3>2. CASE d # t
      <4>1. /\ Writes(d, x) /\ Has(d, x) /\ Going(thread'[d]) = Going(thread[d])
            /\ thread'[d].pos = thread[d].pos /\ thread'[d].linked = thread[d].linked
        BY <1>2, <2>4, <3>2 DEF OnlyMoves, Alike, Writes, Has, InHand
      <4>2. Lost(d, x) => Lost(d, x)'
        BY <2>1, <2>3, <3>2 DEF Lost, Gone
      <4>3. thread[d].linked => partial'[x] = partial[x]
        BY <2>2, <4>1 DEF FileInv, WriterInv
      <4> QED
        BY <2>2, <4>1, <4>2, <4>3 DEF FileInv, WriterInv
    <3> QED
      BY <3>1, <3>2
  <2>10. ASSUME NEW d \in Threads PROVE LinkerInv(d, x)'
    <3> SUFFICES ASSUME thread'[d].on = x, Going(thread'[d]) \in Linked PROVE LinkerInv(d, x)'
      BY DEF LinkerInv
    <3>1. d # t
      BY <1>2, <2>4
    <3>2. thread[d].on = x /\ Going(thread[d]) \in Linked
      BY <1>2, <2>4, <3>1 DEF OnlyMoves, Alike
    <3> QED
      BY <2>3, <3>2 DEF FileInv, LinkerInv, Gone
  <2> QED
    BY <2>6, <2>7, <2>8, <2>9, <2>10 DEF FileInv
<1> QED
  BY <1>4, <1>5

(* A chunk behind the last one, in the file that is there or in a removed one. *)
LEMMA ChunkFile ==
    ASSUME Inv, NEW x \in Incoming, FileInv(x), NEW t \in Threads, Chunk(t)
    PROVE  FileInv(x)'
<1> DEFINE y == thread[t].on
           pos == thread[t].pos + 1
           place == IF y \in Incoming THEN "received" ELSE "sent"
<1>1. /\ thread[t].at \in {"receiving", "sending"} /\ pos <= Size /\ UNCHANGED <<item, row, dest, discarded>>
      /\ partial' = IF thread[t].linked THEN [partial EXCEPT ![y] = @ \union {pos}] ELSE partial
      /\ thread' = [thread EXCEPT ![t].pos = pos, ![t].at = place]
  BY DEF Chunk, At, manager, bounds
<1>2. /\ OnlyMoves(t) /\ thread'[t].at = place /\ thread'[t].on = y
      /\ thread'[t].pos = pos /\ thread'[t].linked = thread[t].linked
  <2> HIDE DEF place, pos
  <2> QED
    BY <1>1, TypedThread DEF OnlyMoves, Alike, ThreadType
<1>3. thread[t].pos \in Nat /\ pos \in 1..Size
  BY <1>1, TypedThread, SizeAssumption
<1>4. SameItem(x)
  BY <1>1 DEF SameItem
<1>5. CASE y # x
  <2>1. SameDisk(x)
    BY <1>1, <1>5, NotMine DEF SameDisk, Inv, TypeInv
  <2> QED
    BY <1>2, <1>4, <1>5, <2>1, OneElsewhere
<1>6. CASE y = x
  <2>1. thread[t].at = "receiving" /\ Going(thread[t]) = "receiving" /\ Going(thread'[t]) = "received"
    BY <1>1, <1>2, <1>6, NotMine DEF Going, OutPlaces
  <2>2. Has(t, x) /\ Writes(t, x) /\ "received" \notin Linked
    BY <1>6, <2>1 DEF Has, Writes, InHand, Writing, Linked
  <2>3. /\ thread[t].linked => partial[x] # NoFile /\ 1..thread[t].pos \subseteq partial[x]
        /\ ~thread[t].linked => Lost(t, x)
    BY <2>2 DEF FileInv, WriterInv
  <2>4. /\ thread[t].linked => partial'[x] = partial[x] \union {pos}
        /\ ~thread[t].linked => partial'[x] = partial[x]
    BY <1>1, <1>6, NotMine DEF Inv, TypeInv
  <2>5. partial[x] \subseteq partial'[x] /\ (HasChunk(x) => HasChunk(x)')
    BY <2>4 DEF HasChunk
  <2>6. partial'[x] = partial[x] \/ (partial[x] # NoFile /\ \E n \in 0..Size : partial'[x] = 1..n)
    <3> SUFFICES ASSUME thread[t].linked PROVE partial[x] # NoFile /\ \E n \in 0..Size : partial'[x] = 1..n
      BY <2>4
    <3>1. PICK n \in 0..Size : partial[x] = 1..n
      BY <2>3 DEF FileInv, DiskInv
    <3>2. CASE pos <= n
      <4>1. partial'[x] = 1..n
        <5>1. pos \in 1..n /\ partial'[x] = 1..n \union {pos}
          BY <1>3, <2>4, <3>1, <3>2, SizeAssumption
        <5> QED
          BY <5>1
      <4> QED
        BY <2>3, <4>1
    <3>3. CASE ~(pos <= n)
      <4>1. n = thread[t].pos
        <5>1. 1..thread[t].pos \subseteq 1..n /\ n \in Nat
          BY <2>3, <3>1, SizeAssumption
        <5>2. CASE thread[t].pos = 0
          BY <1>3, <3>3, <5>1, <5>2
        <5>3. CASE thread[t].pos # 0
          <6>1. thread[t].pos \in 1..thread[t].pos
            BY <1>3, <5>3
          <6>2. thread[t].pos <= n
            BY <5>1, <6>1
          <6> QED
            BY <1>3, <3>3, <5>1, <6>2
        <5> QED
          BY <5>2, <5>3
      <4>2. partial'[x] = 1..pos
        <5>1. n \in Nat /\ pos = n + 1 /\ partial'[x] = 1..n \union {pos}
          BY <1>3, <2>4, <3>1, <4>1
        <5>2. \A k \in Nat : 1..k \union {k + 1} = 1..(k + 1)
          OBVIOUS
        <5> QED
          BY <5>1, <5>2
      <4> QED
        BY <1>3, <2>3, <4>2
    <3> QED
      BY <3>2, <3>3
  <2>7. partial[x] # NoFile => partial'[x] # NoFile
    <3>1. \A n \in 0..Size : 0 \notin 1..n
      BY SizeAssumption
    <3> QED
      BY <2>6, <3>1 DEF NoFile
  <2>8. item'[x] = item[x] /\ row'[x] = row[x] /\ dest'[x] = dest[x] /\ discarded' = discarded
    BY <1>1
  <2>9. \A d \in Threads \ {t} : /\ Going(thread'[d]) = Going(thread[d])
                                 /\ Has(d, x)' = Has(d, x) /\ Writes(d, x)' = Writes(d, x)
    BY <1>2, AlikeGoes DEF OnlyMoves
  <2>10. \A d \in Threads : Has(d, x)' => Has(d, x)
    BY <2>2, <2>9
  <2>11. DiskInv(x)' /\ ItemInv(x)'
    BY <2>2, <2>5, <2>6, <2>8 DEF FileInv, DiskInv, ItemInv, Untouched
  <2>12. CopiesInv(x)'
    <3>1. \A c : CopyInv(x, c) => CopyInv(x, c)'
      BY <2>5, <2>8 DEF CopyInv
    <3>2. \A c : c = row'[x] => CopyInv(x, c)'
      BY <2>8, <3>1 DEF FileInv, CopiesInv
    <3>3. \A d \in Threads : \A c : thread'[d].on = x /\ thread'[d].at = "save" /\ c = thread'[d].copy => CopyInv(x, c)'
      BY <1>2, <3>1 DEF FileInv, CopiesInv, Alike, OnlyMoves
    <3> QED
      BY <3>2, <3>3 DEF CopiesInv, CopyInv
  <2>13. HandsInv(x)'
    BY <2>8, <2>10 DEF FileInv, HandsInv
  <2>14. ASSUME NEW d \in Threads, Lost(d, x), Has(d, x) PROVE Lost(d, x)'
    <3>1. CASE thread[t].linked
      BY <2>2, <2>3, <2>8, <2>10, <2>14, <3>1 DEF Lost, Gone, Dead
    <3>2. CASE ~thread[t].linked
      BY <2>4, <2>8, <2>10, <2>14, <3>2 DEF Lost, Gone, Dead
    <3> QED
      BY <3>1, <3>2
  <2>15. ASSUME NEW d \in Threads PROVE WriterInv(d, x)'
    <3> SUFFICES ASSUME Writes(d, x)' PROVE WriterInv(d, x)'
      BY DEF WriterInv
    <3>1. CASE d = t
      <4>1. thread[t].linked => 1..pos \subseteq partial'[x] /\ partial'[x] # NoFile
        BY <1>3, <2>3, <2>4, <2>7
      <4>2. ~thread[t].linked => Lost(t, x)'
        BY <2>2, <2>3, <2>14
      <4>3. pos # 0 /\ Going(thread'[t]) = "received"
        BY <1>3, <2>1
      <4> QED
        BY <1>2, <3>1, <4>1, <4>2, <4>3 DEF WriterInv
    <3>2. CASE d # t
      <4>1. /\ Writes(d, x) /\ Has(d, x) /\ Going(thread'[d]) = Going(thread[d])
            /\ thread'[d].pos = thread[d].pos /\ thread'[d].linked = thread[d].linked
        BY <1>2, <2>9, <3>2 DEF OnlyMoves, Alike, Writes, Has, InHand
      <4> QED
        BY <2>5, <2>7, <2>14, <4>1 DEF FileInv, WriterInv
    <3> QED
      BY <3>1, <3>2
  <2>16. ASSUME NEW d \in Threads PROVE LinkerInv(d, x)'
    <3> SUFFICES ASSUME thread'[d].on = x, Going(thread'[d]) \in Linked PROVE LinkerInv(d, x)'
      BY DEF LinkerInv
    <3>1. d # t
      BY <2>1, <2>2
    <3>2. thread[d].on = x /\ Going(thread[d]) \in Linked
      BY <1>2, <2>9, <3>1 DEF OnlyMoves, Alike
    <3> QED
      BY <2>8, <3>2 DEF FileInv, LinkerInv, Gone
  <2> QED
    BY <2>11, <2>12, <2>13, <2>15, <2>16 DEF FileInv
<1> QED
  BY <1>5, <1>6

(* The final name: whoever gets there first links the whole file. *)
LEMMA LinkDestinationFile ==
    ASSUME Inv, NEW x \in Incoming, FileInv(x), NEW t \in Threads, LinkDestination(t)
    PROVE  FileInv(x)'
<1> DEFINE y == thread[t].on
<1>1. thread[t].at = "finalize" /\ UNCHANGED <<item, row, partial, discarded>>
  BY DEF LinkDestination, At, manager, bounds
<1>2. CASE Goto(t, "failed") /\ UNCHANGED dest
  BY <1>1, <1>2, GotoFile DEF InHand, Writing, Linked
<1>3. CASE dest[y] = NoFile /\ partial[y] # NoFile /\ dest' = [dest EXCEPT ![y] = partial[y]] /\ Goto(t, "unlink")
  <2>1. OnlyMoves(t) /\ thread'[t].at = "unlink" /\ thread'[t].on = y
    BY <1>3, TypedThread, GotoAlone
  <2>2. CASE y # x
    <3>1. SameItem(x) /\ SameDisk(x)
      BY <1>1, <1>3, <2>2, NotMine DEF SameItem, SameDisk, Inv, TypeInv
    <3> QED
      BY <2>1, <2>2, <3>1, OneElsewhere
  <2>3. CASE y = x
    <3>1. Going(thread[t]) = "finalize" /\ Writes(t, x) /\ Going(thread'[t]) = "unlink"
      BY <1>1, <2>1, <2>3 DEF Writes, Going, Writing
    <3>2. /\ item'[x] = item[x] /\ row'[x] = row[x] /\ partial'[x] = partial[x] /\ discarded' = discarded
          /\ dest[x] = NoFile /\ partial[x] # NoFile /\ dest'[x] = partial[x]
      BY <1>1, <1>3, <2>3, NotMine DEF Inv, TypeInv
    <3>3. dest'[x] = Whole \/ Gone(x)
      <4>1. CASE thread[t].linked
        <5>1. 1..Size \subseteq partial[x]
          BY <3>1, <4>1 DEF FileInv, WriterInv
        <5>2. PICK n \in 0..Size : partial[x] = 1..n
          BY <3>2 DEF FileInv, DiskInv
        <5>3. Size \in 1..n /\ n <= Size
          BY <5>1, <5>2, SizeAssumption
        <5>4. n = Size
          BY <5>3, SizeAssumption
        <5> QED
          BY <3>2, <5>2, <5>4 DEF Whole
      <4>2. CASE ~thread[t].linked
        BY <3>1, <3>2, <4>2 DEF FileInv, WriterInv, Lost
      <4> QED
        BY <4>1, <4>2
    <3>4. Gone(x) => Gone(x)' /\ x \in discarded'
      BY <3>2 DEF Gone
    <3>5. \A d \in Threads \ {t} : /\ Going(thread'[d]) = Going(thread[d]) /\ thread'[d].on = thread[d].on
                                   /\ Has(d, x)' = Has(d, x) /\ Writes(d, x)' = Writes(d, x)
      BY <2>1, AlikeGoes DEF OnlyMoves, Alike
    <3>6. dest[x] # Whole
      BY <3>2, WholeIsFile
    <3>7. DiskInv(x)' /\ HandsInv(x)'
      BY <3>2, <3>3, <3>4 DEF FileInv, DiskInv, HandsInv
    <3>8. ItemInv(x)'
      BY <3>2, <3>6 DEF FileInv, ItemInv
    <3>9. CopiesInv(x)'
      <4>1. \A c : CopyInv(x, c) => CopyInv(x, c)'
        BY <3>2, <3>6 DEF CopyInv
      <4>2. \A c : c = row'[x] => CopyInv(x, c)'
        BY <3>2, <4>1 DEF FileInv, CopiesInv
      <4>3. \A d \in Threads : \A c : thread'[d].on = x /\ thread'[d].at = "save" /\ c = thread'[d].copy => CopyInv(x, c)'
        BY <2>1, <4>1 DEF FileInv, CopiesInv, Alike, OnlyMoves
      <4> QED
        BY <4>2, <4>3 DEF CopiesInv, CopyInv
    <3>10. ASSUME NEW d \in Threads PROVE WriterInv(d, x)'
      <4> SUFFICES ASSUME Writes(d, x)' PROVE WriterInv(d, x)'
        BY DEF WriterInv
      <4>1. d # t
        BY <3>1 DEF Writes, Writing
      <4>2. /\ Writes(d, x) /\ Going(thread'[d]) = Going(thread[d])
            /\ thread'[d].pos = thread[d].pos /\ thread'[d].linked = thread[d].linked
        BY <2>1, <3>5, <4>1 DEF OnlyMoves, Alike
      <4>3. Lost(d, x)'
        BY <3>2 DEF Lost
      <4> QED
        BY <3>2, <4>2, <4>3 DEF FileInv, WriterInv
    <3>11. ASSUME NEW d \in Threads PROVE LinkerInv(d, x)'
      <4> SUFFICES ASSUME thread'[d].on = x, Going(thread'[d]) \in Linked PROVE LinkerInv(d, x)'
        BY DEF LinkerInv
      <4>1. CASE d = t
        BY <3>2, <3>3, <3>4 DEF LinkerInv
      <4>2. CASE d # t
        BY <3>2, <3>5, <4>2 DEF FileInv, LinkerInv
      <4> QED
        BY <4>1, <4>2
    <3> QED
      BY <3>7, <3>8, <3>9, <3>10, <3>11 DEF FileInv
  <2> QED
    BY <2>2, <2>3
<1> QED
  BY <1>2, <1>3 DEF LinkDestination

(* The end of the old name. *)
LEMMA UnlinkPartialFile ==
    ASSUME Inv, NEW x \in Incoming, FileInv(x), NEW t \in Threads, UnlinkPartial(t)
    PROVE  FileInv(x)'
<1> DEFINE y == thread[t].on
           place == IF partial[y] = NoFile THEN "failed" ELSE "complete"
           base == [thread EXCEPT ![t].at = place]
<1>1. /\ thread[t].at = "unlink" /\ UNCHANGED <<item, row, dest, discarded>>
      /\ partial' = [partial EXCEPT ![y] = NoFile] /\ thread' = Unlinked(y, base)
  BY DEF UnlinkPartial, At, manager, bounds
<1>2. /\ base \in [Threads -> ThreadType] /\ base[t].at = place /\ base[t].on = y
      /\ \A d \in Threads \ {t} : base[d] = thread[d]
  <2>1. place \in Places /\ place \in {"failed", "complete"}
    BY DEF Places, OnPlaces
  <2> HIDE DEF place
  <2> QED
    BY <2>1, TypedThread DEF ThreadType
<1> HIDE DEF base
<1>3. ASSUME NEW d \in Threads
      PROVE  /\ thread'[d].at = base[d].at /\ thread'[d].on = base[d].on /\ thread'[d].next = base[d].next
             /\ thread'[d].pos = base[d].pos /\ thread'[d].copy = base[d].copy
             /\ partial'[y] = partial[y] \/ base[d].on # y => thread'[d].linked = base[d].linked
             /\ partial'[y] # partial[y] /\ base[d].on = y => ~thread'[d].linked
  BY <1>1, <1>2, UnlinkedGoes
<1>4. thread'[t].on = y /\ thread'[t].at \in {"failed", "complete"} /\ Going(thread'[t]) = thread'[t].at
  BY <1>2, <1>3 DEF Going
<1>5. ASSUME NEW d \in Threads \ {t}
      PROVE  /\ thread'[d].at = thread[d].at /\ thread'[d].on = thread[d].on /\ thread'[d].next = thread[d].next
             /\ thread'[d].pos = thread[d].pos /\ thread'[d].copy = thread[d].copy
             /\ partial'[y] = partial[y] \/ thread[d].on # y => thread'[d].linked = thread[d].linked
             /\ partial'[y] # partial[y] /\ thread[d].on = y => ~thread'[d].linked
             /\ Going(thread'[d]) = Going(thread[d])
  BY <1>2, <1>3 DEF Going
<1>6. CASE y # x
  <2>1. SameItem(x) /\ SameDisk(x)
    BY <1>1, <1>6, NotMine DEF SameItem, SameDisk, Inv, TypeInv
  <2> DEFINE moved == {t} \union {d \in Threads : thread[d].on = y}
  <2>2. ASSUME NEW d \in Threads \ moved
        PROVE  Alike(d)
    <3>1. d \in Threads \ {t} /\ thread[d].on # y
      OBVIOUS
    <3> QED
      BY <1>5, <3>1 DEF Alike
  <2>3. moved \in SUBSET Threads /\ \A d \in moved : thread'[d].on # x
    BY <1>4, <1>5, <1>6
  <2> HIDE DEF moved
  <2> QED
    BY <2>1, <2>2, <2>3, Elsewhere
<1>7. CASE y = x
  <2>1. Going(thread[t]) = "unlink" /\ dest[x] # NoFile /\ (dest[x] = Whole \/ Gone(x))
    BY <1>1, <1>7 DEF FileInv, LinkerInv, Going, Linked
  <2>2. /\ item'[x] = item[x] /\ row'[x] = row[x] /\ dest'[x] = dest[x] /\ discarded' = discarded
        /\ partial'[x] = NoFile
    BY <1>1, <1>7, NotMine DEF Inv, TypeInv
  <2>3. Gone(x) => Gone(x)'
    BY <2>2 DEF Gone
  <2>4. DiskInv(x)' /\ ItemInv(x)' /\ HandsInv(x)'
    BY <2>1, <2>2 DEF FileInv, DiskInv, ItemInv, HandsInv
  <2>5. CopiesInv(x)'
    <3>1. \A c : CopyInv(x, c) => CopyInv(x, c)'
      BY <2>1, <2>2 DEF CopyInv
    <3>2. \A c : c = row'[x] => CopyInv(x, c)'
      BY <2>2, <3>1 DEF FileInv, CopiesInv
    <3>3. \A d \in Threads : \A c : thread'[d].on = x /\ thread'[d].at = "save" /\ c = thread'[d].copy => CopyInv(x, c)'
      BY <1>4, <1>5, <3>1 DEF FileInv, CopiesInv
    <3> QED
      BY <3>2, <3>3 DEF CopiesInv, CopyInv
  <2>6. ASSUME NEW d \in Threads PROVE WriterInv(d, x)'
    <3> SUFFICES ASSUME Writes(d, x)' PROVE WriterInv(d, x)'
      BY DEF WriterInv
    <3>1. d # t
      BY <1>4 DEF Writes, Writing
    <3>2. Writes(d, x) /\ thread[d].on = y
      BY <1>5, <1>7, <3>1 DEF Writes
    <3>3. ~thread'[d].linked
      <4>1. CASE partial'[y] = partial[y]
        BY <1>5, <1>7, <2>2, <3>1, <3>2, <4>1 DEF FileInv, WriterInv
      <4>2. CASE partial'[y] # partial[y]
        BY <1>5, <3>1, <3>2, <4>2
      <4> QED
        BY <4>1, <4>2
    <3>4. Lost(d, x)'
      BY <2>1, <2>2 DEF Lost
    <3> QED
      BY <1>5, <3>1, <3>2, <3>3, <3>4 DEF FileInv, WriterInv
  <2>7. ASSUME NEW d \in Threads PROVE LinkerInv(d, x)'
    <3>1. CASE d = t
      BY <2>1, <2>2, <2>3, <3>1 DEF LinkerInv
    <3>2. CASE d # t
      BY <1>5, <2>2, <2>3, <3>2 DEF FileInv, LinkerInv
    <3> QED
      BY <3>1, <3>2
  <2> QED
    BY <2>4, <2>5, <2>6, <2>7 DEF FileInv
<1> QED
  BY <1>6, <1>7

(* What a restart makes of a row is good for the file that is on the disk. *)
LEMMA RestoredCopy ==
    ASSUME Inv, NEW x \in Incoming, CopyInv(x, row[x])
    PROVE  /\ CopyInv(x, Restored(x)) /\ Restored(x).status \notin Underway
           /\ Restored(x).bytes \in {0, row[x].bytes}
           /\ Restored(x).bytes = 0 /\ row[x].bytes # 0 => Restored(x).status \in {"absent", "removed"}
<1> DEFINE r == row[x]
           resume == x \in Incoming /\ r.path /\ r.bytes > 0
           s == IF resume THEN "resumable" ELSE "failed"
           kept == [r EXCEPT !.offer = FALSE, !.token = FALSE]
           changed == [r EXCEPT !.status = s, !.resumable = @ \/ resume, !.finished = ~resume,
                                !.offer = FALSE, !.token = FALSE]
<1>1. r \in ItemType
  BY NotMine DEF Inv, TypeInv
<1>2. Restored(x) \in {Unknown, Removed, kept, changed}
  BY DEF Restored
<1>3. kept.status = r.status /\ kept.bytes = r.bytes /\ kept.offset = r.offset
  BY <1>1 DEF ItemType
<1>4. changed.status = s /\ changed.bytes = r.bytes /\ changed.offset = r.offset
  <2> HIDE DEF s, resume, r
  <2> QED
    BY <1>1 DEF ItemType
<1>5. s \in {"resumable", "failed"}
  OBVIOUS
<1>6. Restored(x).status \notin Active /\ Underway \subseteq Active
  BY NotMine, RestoredType DEF Underway, Active
<1>7. CopyInv(x, r)
  OBVIOUS
<1>8. CopyInv(x, Unknown) /\ CopyInv(x, Removed) /\ CopyInv(x, kept) /\ CopyInv(x, changed)
  <2> HIDE DEF r, s, kept, changed
  <2> QED
    BY <1>3, <1>4, <1>5, <1>7, Nothing DEF CopyInv
<1> HIDE DEF kept, changed, s, resume
<1> QED
  BY <1>2, <1>3, <1>4, <1>6, <1>8, Nothing

(* What was known before a restart is not unknown after it. *)
LEMMA RestoredKnown ==
    ASSUME Inv, NEW x \in Incoming, item[x].status # "absent", row[x].status # "absent"
    PROVE  Restored(x).status # "absent"
<1> DEFINE r == row[x]
           resume == x \in Incoming /\ r.path /\ r.bytes > 0
           s == IF resume THEN "resumable" ELSE "failed"
           kept == [r EXCEPT !.offer = FALSE, !.token = FALSE]
           changed == [r EXCEPT !.status = s, !.resumable = @ \/ resume, !.finished = ~resume,
                                !.offer = FALSE, !.token = FALSE]
<1>1. r \in ItemType
  BY NotMine DEF Inv, TypeInv
<1>2. Restored(x) \in {Removed, kept, changed}
  BY DEF Restored
<1>3. kept.status = r.status
  BY <1>1 DEF ItemType
<1>4. changed.status = s
  <2> HIDE DEF s, resume, r
  <2> QED
    BY <1>1 DEF ItemType
<1>5. s # "absent"
  OBVIOUS
<1> HIDE DEF kept, changed, s
<1> QED
  BY <1>2, <1>3, <1>4, <1>5, Nothing

(* A restart leaves the files, the rows and no goroutine. *)
LEMMA RestartFile ==
    ASSUME Inv, NEW x \in Incoming, FileInv(x), Restart
    PROVE  FileInv(x)'
<1>1. /\ item'[x] = Restored(x)
      /\ row'[x] = row[x] \/ row'[x] = Persisted(x, Restored(x))
      /\ thread' = [t \in Threads |-> Idle]
      /\ UNCHANGED <<partial, dest, discarded>>
  BY NotMine DEF Restart
<1>2. \A t \in Threads : thread'[t].on = None /\ x # None
  BY <1>1, NotMine DEF Idle
<1>3. CopyInv(x, row[x])
  BY DEF FileInv, CopiesInv
<1>4. PICK i : i = item'[x] /\ i = Restored(x)
  BY <1>1
<1>5. /\ CopyInv(x, i) /\ i.status \notin Underway /\ i.bytes \in {0, row[x].bytes}
      /\ i.bytes = 0 /\ row[x].bytes # 0 => i.status \in {"absent", "removed"}
  BY <1>3, <1>4, RestoredCopy
<1>6. DiskInv(x)'
  BY <1>1 DEF FileInv, DiskInv
<1>7. ItemInv(x)'
  <2>1. \A d \in Threads : ~Has(d, x)'
    BY <1>2 DEF Has
  <2>2. /\ i.status = "completed" => dest'[x] = Whole
        /\ i.bytes = 0 => i.offset = 0
        /\ i.status \in {"absent", "removed"} => i.bytes = 0
    BY <1>1, <1>5 DEF CopyInv
  <2>3. i.bytes # 0 => HasChunk(x)' \/ dest'[x] # NoFile \/ Untouched(x)'
    BY <1>1, <1>4, <1>5, <2>1 DEF CopyInv, HasChunk, Untouched
  <2> QED
    BY <1>4, <2>2, <2>3 DEF ItemInv
<1>8. HandsInv(x)'
  BY <1>2 DEF HandsInv, Has
<1>9. CopiesInv(x)'
  <2>1. PICK r : r = row'[x]
    OBVIOUS
  <2>2. CopyInv(x, r)
    BY <1>1, <1>3, <1>4, <1>5, <2>1, PersistedCopy
  <2>3. r.bytes # 0 /\ HasChunk(x) /\ (item[x].bytes # 0 \/ item[x].status = "removed") =>
            i.bytes # 0 \/ i.status = "removed"
    <3> SUFFICES ASSUME r.bytes # 0, item[x].bytes # 0 \/ item[x].status = "removed" PROVE i.bytes # 0 \/ i.status = "removed"
      OBVIOUS
    <3>1. r = row[x] \/ r = i \/ r = Unknown
      BY <1>1, <1>4, <2>1 DEF Persisted
    <3>2. CASE r = i
      BY <3>2
    <3>3. CASE r = row[x]
      <4>1. i.status # "absent"
        <5>1. item[x].status # "absent"
          BY DEF FileInv, ItemInv
        <5>2. row[x].status # "absent"
          BY <1>3, <3>3 DEF CopyInv
        <5> QED
          BY <1>4, <5>1, <5>2, RestoredKnown
      <4> QED
        BY <1>5, <3>3, <4>1
    <3>4. r # Unknown
      BY Nothing
    <3> QED
      BY <3>1, <3>2, <3>3, <3>4
  <2>4. CopyInv(x, r)'
    BY <1>1, <1>4, <2>2, <2>3 DEF CopyInv, HasChunk
  <2>5. \A c : c = row'[x] => CopyInv(x, c)'
    BY <2>1, <2>4
  <2> QED
    BY <1>2, <2>5 DEF CopiesInv, CopyInv
<1>10. \A d \in Threads : WriterInv(d, x)' /\ LinkerInv(d, x)'
  BY <1>2 DEF WriterInv, LinkerInv, Writes
<1> QED
  BY <1>6, <1>7, <1>8, <1>9, <1>10 DEF FileInv

------------------------------------------------------------------------------
(* Every step *)

Files == \A x \in Incoming : FileInv(x)

(* Nothing is there in the beginning. *)
LEMMA InitFiles == Init => Files
<1> SUFFICES ASSUME Init, NEW x \in Incoming PROVE FileInv(x)
  BY DEF Files
<1>1. x \in Transfers /\ x # None
  BY NoneAssumption DEF Transfers
<1>2. /\ item[x] = Unknown /\ row[x] = Unknown /\ partial[x] = NoFile /\ dest[x] = NoFile
      /\ \A d \in Threads : thread[d].on = None
  BY <1>1 DEF Init, InitialRows, Idle
<1>3. DiskInv(x) /\ ItemInv(x) /\ CopiesInv(x)
  BY <1>1, <1>2, Nothing DEF DiskInv, ItemInv, CopiesInv
<1>4. HandsInv(x) /\ \A d \in Threads : WriterInv(d, x) /\ LinkerInv(d, x)
  BY <1>1, <1>2 DEF HandsInv, WriterInv, LinkerInv, Has, Writes
<1> QED
  BY <1>3, <1>4 DEF FileInv

(* Nothing of a transfer changes. *)
LEMMA StillFile ==
    ASSUME NEW x, FileInv(x), UNCHANGED <<item, row, partial, dest, thread, discarded>>
    PROVE  FileInv(x)'
<1>1. (\A d \in Threads : Alike(d)) /\ SameDisk(x) /\ item'[x] = item[x] /\ row'[x] = row[x]
  BY DEF Alike, SameDisk
<1> QED
  BY <1>1, RowGoesFile

(* The calls of the user, the peer and the shutdown. *)
LEMMA CallFile ==
    ASSUME Inv, NEW x \in Incoming, FileInv(x), NEW t \in Threads, Call(t)
    PROVE  FileInv(x)'
<1>1. ASSUME NEW y \in Transfers, NEW request \in Requests(y), Admit(t, y, request)
      PROVE  FileInv(x)'
  BY <1>1, AdmitFile
<1>2. ASSUME NEW y \in Transfers, Accept(t, y) \/ Retry(t, y) \/ Cancel(t, y) \/ Decline(t, y)
      PROVE  FileInv(x)'
  BY <1>2, AcceptFile, RetryFile, CancelLockedFile, DeclineFile DEF Cancel
<1>3. ASSUME NEW y \in Transfers, DiscardPartial(t, y) \/ RemoveHistory(t, y) \/ Locate(t, y)
      PROVE  FileInv(x)'
  BY <1>3, DiscardPartialFile, HistoryFile, LocateFile
<1>4. CASE TurnOn(t)
  BY <1>4, StillFile DEF TurnOn, disk, bounds
<1>5. CASE ClearHistory(t) \/ TurnOffAndCancel(t) \/ Close(t)
  BY <1>5, HistoryFile, QuietFile
<1> QED
  BY <1>1, <1>2, <1>3, <1>4, <1>5 DEF Call

(* The invariant of the files is inductive, given the one of the queue. *)
LEMMA NextFiles == Inv /\ Files /\ [Next]_vars => Files'
<1> SUFFICES ASSUME Inv, [Next]_vars, NEW x \in Incoming, FileInv(x) PROVE FileInv(x)'
  BY DEF Files
<1>1. CASE Restart
  BY <1>1, RestartFile
<1>2. ASSUME NEW t \in Threads, Call(t)
      PROVE  FileInv(x)'
  BY <1>2, CallFile
<1>3. ASSUME NEW t \in Threads, TurnOff(t)
      PROVE  FileInv(x)'
  BY <1>3, QuietFile
<1>4. ASSUME NEW t \in Threads, EndStep(t) \/ CancelAll(t) \/ CancelNext(t)
      PROVE  FileInv(x)'
  BY <1>4, SaveStepFile, QuietFile, FinishWithErrorFile, CompleteFile, CancelAllFile, CancelNextFile DEF EndStep
<1>5. ASSUME NEW t \in Threads, RequestStep(t)
      PROVE  FileInv(x)'
  BY <1>5, AddIncomingOfferFile, SendsFile, ResumeAcceptFile, QuietFile, SenderStartsFile DEF RequestStep
<1>6. ASSUME NEW t \in Threads, OutgoingStep(t)
      PROVE  FileInv(x)'
  BY <1>6, StartNextFile, QuietFile, SendsFile, SenderStartsFile DEF OutgoingStep
<1>7. ASSUME NEW t \in Threads, ReceiveStep(t)
      PROVE  FileInv(x)'
  BY <1>7, QuietFile, BeginReceiveFile, MarkTransferringFile, OpenFileFile, ProgressFile, LinkDestinationFile,
     UnlinkPartialFile DEF ReceiveStep
<1>8. ASSUME NEW t \in Threads, PeerStep(t)
      PROVE  FileInv(x)'
  BY <1>8, ConnectedFile, QuietFile, ChunkFile, TransferEndsFile DEF PeerStep
<1>9. CASE UNCHANGED vars
  BY <1>9, StillFile DEF vars, manager, disk, bounds
<1> QED
  BY <1>1, <1>2, <1>3, <1>4, <1>5, <1>6, <1>7, <1>8, <1>9 DEF Next, LocalStep

(* So it holds in every reachable state. *)
LEMMA AlwaysFiles == SafetySpec => []Files
  BY InitFiles, NextFiles, AlwaysInv, PTL DEF SafetySpec

(* What says it is completed has the whole file under its final name, and    *)
(* nothing but the whole file ever gets that name, unless the user discarded  *)
(* its partial file (receiveFile, finalizePartial, transport.go; Accept,      *)
(* finishWithError, Cancel and DiscardPartial, manager.go): through every     *)
(* cancel, resume, second worker, late failure and restart, for every number  *)
(* of chunks and goroutines.                                                  *)
THEOREM CompletedAreWhole == SafetySpec => []CompletedIsWhole
<1>1. Files => CompletedIsWhole
  BY DEF Files, FileInv, DiskInv, ItemInv, CompletedIsWhole
<1> QED
  BY AlwaysFiles, <1>1, PTL
=============================================================================
