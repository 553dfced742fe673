-------------------------- MODULE MessageStoreProofs --------------------------
(***************************************************************************)
(* Theorems about MessageStore, for every number of writers and messages,  *)
(* every capacity of the buffer and every number of failing inserts.       *)
(***************************************************************************)
EXTENDS MessageStore, SequenceTheorems, TLAPS

Flushing == {"flush", "drain", "insert"}
OwnPlaces == {"idle", "offerAgain", "put", "return", "create", "bulk"} \union Kinds
Places   == OwnPlaces \union Flushing \union {"done"}

ThreadType ==
    [at : Places, msg : Message \union {None}, batch : Seq(Message), after : Places, final : BOOLEAN]

(* What a goroutine is about: a flush is for the sake of what comes after it. *)
Purpose(k) == IF k.at \in Flushing THEN k.after ELSE k.at

(* The message a writer has in hand fits what it does. *)
OnTrack(t) ==
    LET k == thread[t]
        purpose == Purpose(k)
    IN  /\ t = Loop => purpose \in {"idle", "done"}
        /\ t # Loop => purpose \in OwnPlaces /\ (k.at \in Flushing => purpose \in {"offerAgain", "put", "return"})
        /\ purpose \notin {"idle", "done"} => k.msg \in Message /\ k.msg.by = t /\ k.msg.n <= calls
        /\ purpose \in {"buffered", "offerAgain"} => k.msg.kind = "buffered"
        /\ purpose \in {"sync", "put", "return"} => k.msg.kind = "sync"
        /\ purpose = "create" => k.msg.kind \in {"sync", "direct"}
        /\ purpose = "direct" => k.msg.kind = "direct"
        /\ purpose \in {"history", "bulk"} => k.msg.kind = "history"

(* Who drains and inserts holds the lock, and nobody else has a batch. *)
LockHeld(t) ==
    /\ thread[t].at \in {"drain", "insert"} <=> lock = t
    /\ lock # t => thread[t].batch = <<>>

TypeInv ==
    /\ buffer \in Seq(Message) /\ rows \in Seq(Message)
    /\ lock \in Threads \union {None}
    /\ closed \in BOOLEAN
    /\ thread \in [Threads -> ThreadType]
    /\ calls \in 0..MaxCalls
    /\ accepted \subseteq Message /\ shown \subseteq Message /\ failed \subseteq Message
    /\ \A t \in Threads : OnTrack(t) /\ LockHeld(t)

(* What the buffer took is in it, in a batch or in the table, or it was lost   *)
(* with its batch, or by the close.                                            *)
Settled(m) == Stored(m) \/ m \in failed \/ closed
In(m, seq) == \E i \in DOMAIN seq : seq[i] = m
Found(m)   == In(m, buffer) \/ (\E t \in Threads : In(m, thread[t].batch)) \/ Settled(m)

(* WriteMessageSync put its message before the flush it ends with, and that   *)
(* flush cannot leave it behind.                                              *)
SyncSettles(t) ==
    Purpose(thread[t]) = "return" =>
        /\ thread[t].msg \in accepted
        /\ thread[t].at = "insert" => In(thread[t].msg, thread[t].batch) \/ Settled(thread[t].msg)
        /\ thread[t].at = "return" => Settled(thread[t].msg)

VisibleInv ==
    /\ \A m \in accepted : Found(m)
    /\ \A t \in Threads : SyncSettles(t)
    /\ SyncIsVisible

(* The order of one goroutine's messages along the table, the batch that is  *)
(* being inserted, the buffer and the message that is not yet there.         *)
Mine(a, b)       == Ordered(a) /\ Ordered(b) /\ a.by = b.by
Sorted(seq)      == \A i, j \in DOMAIN seq : i < j /\ Mine(seq[i], seq[j]) => seq[i].n < seq[j].n
Before(seq, m)   == \A i \in DOMAIN seq : Mine(seq[i], m) => seq[i].n < m.n
AllBefore(s1, s2) == \A j \in DOMAIN s2 : Before(s1, s2[j])
NoneOf(seq, t)   == \A i \in DOMAIN seq : seq[i].by # t
Numbered(seq)    == \A i \in DOMAIN seq : seq[i].n <= calls

Unput == {"buffered", "offerAgain", "sync", "put", "direct", "create"}

PipelineSorted ==
    /\ Sorted(rows) /\ Sorted(buffer) /\ AllBefore(rows, buffer)
    /\ \A t \in Threads :
          LET batch == thread[t].batch
          IN  Sorted(batch) /\ AllBefore(rows, batch) /\ AllBefore(batch, buffer)

AllNumbered ==
    Numbered(rows) /\ Numbered(buffer) /\ \A t \in Threads : Numbered(thread[t].batch)

NewIsLast ==
    \A w \in Writers :
        Purpose(thread[w]) \in Unput =>
            /\ Before(rows, thread[w].msg) /\ Before(buffer, thread[w].msg)
            /\ \A t \in Threads : Before(thread[t].batch, thread[w].msg)

(* The flush that WriteMessageSync begins with leaves nothing of its goroutine *)
(* between the message it puts next and the table.                            *)
SyncIsAlone ==
    \A w \in Writers :
        LET k == thread[w]
        IN  /\ Purpose(k) = "put" /\ k.at = "insert" => NoneOf(buffer, w)
            /\ k.at = "put" \/ (k.at = "create" /\ k.msg.kind = "sync") =>
                  NoneOf(buffer, w) /\ \A t \in Threads : NoneOf(thread[t].batch, w)

OrderInv ==
    /\ AllNumbered
    /\ ~closed => PipelineSorted /\ NewIsLast /\ SyncIsAlone

Inv == TypeInv /\ VisibleInv /\ OrderInv

------------------------------------------------------------------------------
(* What a step does to the goroutine that takes it *)

Moves(t, at, msg, batch, after) ==
    /\ thread' \in [Threads -> ThreadType]
    /\ \A d \in Threads \ {t} : thread'[d] = thread[d]
    /\ thread'[t].at = at /\ thread'[t].msg = msg /\ thread'[t].batch = batch /\ thread'[t].after = after

LEMMA RecordEffect ==
    ASSUME thread \in [Threads -> ThreadType], NEW t \in Threads, NEW r \in ThreadType,
           thread' = [thread EXCEPT ![t] = r]
    PROVE  Moves(t, r.at, r.msg, r.batch, r.after)
  BY DEF Moves

LEMMA GotoEffect ==
    ASSUME thread \in [Threads -> ThreadType], NEW t \in Threads, NEW place \in Places, Goto(t, place)
    PROVE  Moves(t, place, thread[t].msg, thread[t].batch, thread[t].after)
  BY DEF Goto, ThreadType, Moves

LEMMA DoneEffect ==
    ASSUME thread \in [Threads -> ThreadType], NEW t \in Threads, Done(t)
    PROVE  Moves(t, "idle", None, <<>>, "idle")
<1>1. Resting \in ThreadType
  BY EmptySeq DEF Resting, ThreadType, Places, OwnPlaces
<1>2. Resting.at = "idle" /\ Resting.msg = None /\ Resting.batch = <<>> /\ Resting.after = "idle"
  BY DEF Resting
<1> QED
  BY <1>1, <1>2 DEF Done, Moves

LEMMA FlushEffect ==
    ASSUME thread \in [Threads -> ThreadType], NEW t \in Threads, NEW place \in Places, FlushThen(t, place)
    PROVE  Moves(t, "flush", thread[t].msg, thread[t].batch, place)
  BY DEF FlushThen, ThreadType, Moves, Places, Flushing

LEMMA FlushedEffect ==
    ASSUME thread \in [Threads -> ThreadType], NEW t \in Threads, Flushed(t)
    PROVE  Moves(t, thread[t].after, thread[t].msg, <<>>, thread[t].after)
<1> DEFINE none == <<>>
           place == thread[t].after
           no == FALSE
<1>1. none \in Seq(Message) /\ place \in Places /\ no \in BOOLEAN
  BY EmptySeq DEF ThreadType
<1>2. thread' = [thread EXCEPT ![t].at = place, ![t].batch = none, ![t].final = no]
  BY DEF Flushed
<1> DEFINE r == [thread[t] EXCEPT !.at = place, !.batch = none, !.final = no]
<1>3. thread' = [thread EXCEPT ![t] = r]
  BY <1>2
<1> HIDE DEF none, no, place
<1>4. /\ r \in ThreadType /\ r.at = place /\ r.batch = none
      /\ r.msg = thread[t].msg /\ r.after = thread[t].after
  BY <1>1 DEF ThreadType
<1> HIDE DEF r
<1>5. Moves(t, place, thread[t].msg, none, place)
  BY <1>3, <1>4, RecordEffect DEF place
<1> QED
  BY <1>5 DEF none, place

LEMMA FinalEffect ==
    ASSUME thread \in [Threads -> ThreadType], NEW t \in Threads,
           NEW place \in Places, NEW next \in Places, NEW final \in BOOLEAN,
           thread' = [thread EXCEPT ![t].at = place, ![t].after = next, ![t].final = final]
    PROVE  Moves(t, place, thread[t].msg, thread[t].batch, next)
<1> DEFINE r == [thread[t] EXCEPT !.at = place, !.after = next, !.final = final]
<1>1. thread' = [thread EXCEPT ![t] = r]
  OBVIOUS
<1>2. r \in ThreadType /\ r.at = place /\ r.after = next /\ r.msg = thread[t].msg /\ r.batch = thread[t].batch
  BY DEF ThreadType
<1> HIDE DEF r
<1> QED
  BY <1>1, <1>2, RecordEffect

LEMMA DrainEffect ==
    ASSUME thread \in [Threads -> ThreadType], NEW t \in Threads, NEW m \in Message,
           thread' = [thread EXCEPT ![t].batch = Append(@, m)]
    PROVE  Moves(t, thread[t].at, thread[t].msg, Append(thread[t].batch, m), thread[t].after)
<1> DEFINE more == Append(thread[t].batch, m)
<1>1. more \in Seq(Message)
  BY AppendProperties DEF ThreadType
<1>2. thread' = [thread EXCEPT ![t].batch = more]
  OBVIOUS
<1> HIDE DEF more
<1> DEFINE r == [thread[t] EXCEPT !.batch = more]
<1>3. thread' = [thread EXCEPT ![t] = r]
  BY <1>2
<1>4. /\ r \in ThreadType /\ r.batch = more
      /\ r.at = thread[t].at /\ r.msg = thread[t].msg /\ r.after = thread[t].after
  BY <1>1 DEF ThreadType
<1> HIDE DEF r
<1>5. Moves(t, thread[t].at, thread[t].msg, more, thread[t].after)
  BY <1>3, <1>4, RecordEffect
<1> QED
  BY <1>5 DEF more

LEMMA WriteEffect ==
    ASSUME thread \in [Threads -> ThreadType], NEW t \in Threads, NEW kind \in Kinds, NEW m \in Message,
           thread' = [thread EXCEPT ![t].at = kind, ![t].msg = m]
    PROVE  Moves(t, kind, m, thread[t].batch, thread[t].after)
<1> DEFINE r == [thread[t] EXCEPT !.at = kind, !.msg = m]
<1>1. thread' = [thread EXCEPT ![t] = r]
  OBVIOUS
<1>2. kind \in Places
  BY DEF Places, OwnPlaces
<1>3. r \in ThreadType /\ r.at = kind /\ r.msg = m /\ r.batch = thread[t].batch /\ r.after = thread[t].after
  BY <1>2 DEF ThreadType
<1> HIDE DEF r
<1> QED
  BY <1>1, <1>3, RecordEffect

------------------------------------------------------------------------------
(* What is known of a message and of a goroutine *)

LEMMA MessageFields ==
    ASSUME NEW m \in Message
    PROVE  m.n \in 1..MaxCalls /\ m.by \in Writers /\ m.kind \in Kinds /\ m.id \in MsgIds \union {None}
  BY DEF Message

LEMMA Here ==
    ASSUME Inv, NEW t \in Threads
    PROVE  /\ TypeInv /\ thread[t] \in ThreadType /\ OnTrack(t) /\ LockHeld(t)
           /\ thread[t].at \in Places /\ thread[t].after \in Places /\ thread[t].batch \in Seq(Message)
  BY DEF Inv, TypeInv, ThreadType

(* The others stay where they are, and the lock is not theirs more or less than it was. *)
OnlyMoves(t) ==
    /\ thread' \in [Threads -> ThreadType]
    /\ \A d \in Threads \ {t} : thread'[d] = thread[d] /\ (lock' = d <=> lock = d)
    /\ OnTrack(t)' /\ LockHeld(t)'

LEMMA TypeStays ==
    ASSUME TypeInv, NEW t \in Threads, OnlyMoves(t),
           buffer' \in Seq(Message), rows' \in Seq(Message), lock' \in Threads \union {None}, closed' \in BOOLEAN,
           calls' \in 0..MaxCalls, calls <= calls',
           accepted' \subseteq Message, shown' \subseteq Message, failed' \subseteq Message
    PROVE  TypeInv'
<1>1. ASSUME NEW d \in Threads
      PROVE  OnTrack(d)' /\ LockHeld(d)'
  <2>1. CASE d = t
    BY <2>1 DEF OnlyMoves
  <2>2. CASE d # t
    <3>1. thread'[d] = thread[d] /\ (lock' = d <=> lock = d) /\ OnTrack(d) /\ LockHeld(d)
      BY <2>2 DEF OnlyMoves, TypeInv
    <3>2. LockHeld(d)'
      BY <3>1 DEF LockHeld
    <3>3. thread[d].msg \in Message /\ thread[d].msg.n <= calls => thread[d].msg.n <= calls'
      BY MessageFields, BoundsAssumption DEF TypeInv
    <3>4. OnTrack(d)'
      BY <3>1, <3>3 DEF OnTrack, Purpose
    <3> QED
      BY <3>2, <3>4
  <2> QED
    BY <2>1, <2>2
<1> QED
  BY <1>1 DEF TypeInv, OnlyMoves

------------------------------------------------------------------------------
(* Messages are found and settled for good *)

Grows ==
    /\ \A i \in DOMAIN rows : i \in DOMAIN rows' /\ rows'[i] = rows[i]
    /\ failed \subseteq failed' /\ (closed => closed')

LEMMA SettledStays ==
    ASSUME Grows, NEW m
    PROVE  (Stored(m) => Stored(m)') /\ (Settled(m) => Settled(m)')
  BY DEF Grows, Settled, Stored

LEMMA VisibleStays ==
    ASSUME Inv, NEW t \in Threads, OnlyMoves(t), Grows, accepted \subseteq accepted',
           \A m \in accepted : In(m, buffer) \/ In(m, thread[t].batch) => Found(m)',
           \A m \in accepted' : m \in accepted \/ In(m, buffer'),
           SyncSettles(t)',
           \A m \in shown' : m \in shown \/ Stored(m)' \/ m \in failed'
    PROVE  VisibleInv'
<1>1. ASSUME NEW m \in accepted'
      PROVE  Found(m)'
  <2>1. CASE m \in accepted
    <3>1. Found(m)
      BY <2>1 DEF Inv, VisibleInv
    <3>2. CASE Settled(m)
      BY <3>2, SettledStays DEF Found
    <3>3. CASE \E d \in Threads \ {t} : In(m, thread[d].batch)
      BY <3>3 DEF Found, OnlyMoves
    <3> QED
      BY <2>1, <3>1, <3>2, <3>3 DEF Found
  <2>2. CASE m \notin accepted
    BY <1>1, <2>2 DEF Found
  <2> QED
    BY <2>1, <2>2
<1>2. ASSUME NEW d \in Threads
      PROVE  SyncSettles(d)'
  <2>1. CASE d = t
    BY <2>1
  <2>2. CASE d # t
    <3>1. thread'[d] = thread[d] /\ SyncSettles(d)
      BY <2>2 DEF Inv, VisibleInv, OnlyMoves
    <3>2. \A m : Settled(m) => Settled(m)'
      BY SettledStays
    <3> QED
      BY <3>1, <3>2 DEF SyncSettles
  <2> QED
    BY <2>1, <2>2
<1>3. SyncIsVisible'
  <2>1. ASSUME NEW m \in shown
        PROVE  Stored(m)' \/ m \in failed'
    <3>1. Stored(m) \/ m \in failed
      BY DEF Inv, VisibleInv, SyncIsVisible
    <3> QED
      BY <3>1, SettledStays DEF Grows
  <2> QED
    BY <2>1 DEF SyncIsVisible
<1> QED
  BY <1>1, <1>2, <1>3 DEF VisibleInv

------------------------------------------------------------------------------
(* Messages keep their order *)

LEMMA EmptyInOrder ==
    ASSUME NEW seq, NEW t, NEW m
    PROVE  Sorted(<<>>) /\ AllBefore(<<>>, seq) /\ AllBefore(seq, <<>>) /\ Before(<<>>, m)
           /\ NoneOf(<<>>, t) /\ Numbered(<<>>)
  BY DEF Sorted, AllBefore, Before, NoneOf, Numbered

(* A step that puts no message anywhere. *)
LEMMA OrderStays ==
    ASSUME Inv, NEW t \in Threads, OnlyMoves(t), UNCHANGED <<buffer, rows, calls>>, closed => closed',
           thread'[t].batch \in {thread[t].batch, <<>>},
           Purpose(thread'[t]) \in Unput => Purpose(thread[t]) \in Unput /\ thread'[t].msg = thread[t].msg,
           ~closed' /\ Purpose(thread'[t]) = "put" /\ thread'[t].at = "insert" => NoneOf(buffer, t),
           ~closed' /\ (thread'[t].at = "put" \/ (thread'[t].at = "create" /\ thread'[t].msg.kind = "sync")) =>
               NoneOf(buffer, t) /\ \A d \in Threads : NoneOf(thread'[d].batch, t)
    PROVE  OrderInv'
<1>1. \A d \in Threads : thread'[d].batch \in {thread[d].batch, <<>>}
  BY DEF OnlyMoves
<1>2. AllNumbered'
  BY <1>1, EmptyInOrder DEF Inv, OrderInv, AllNumbered, Numbered
<1>3. ASSUME ~closed'
      PROVE  PipelineSorted' /\ NewIsLast' /\ SyncIsAlone'
  <2>1. PipelineSorted /\ NewIsLast /\ SyncIsAlone
    BY <1>3 DEF Inv, OrderInv
  <2>2. PipelineSorted'
    BY <1>1, <2>1, EmptyInOrder DEF PipelineSorted
  <2>3. ASSUME NEW w \in Writers, Purpose(thread'[w]) \in Unput
        PROVE  /\ Before(rows', thread'[w].msg) /\ Before(buffer', thread'[w].msg)
               /\ \A d \in Threads : Before(thread'[d].batch, thread'[w].msg)
    <3>1. w \in Threads /\ Purpose(thread[w]) \in Unput /\ thread'[w].msg = thread[w].msg
      BY <2>3 DEF OnlyMoves, Threads
    <3> QED
      BY <1>1, <2>1, <3>1, EmptyInOrder DEF NewIsLast
  <2>4. ASSUME NEW w \in Writers
        PROVE  /\ Purpose(thread'[w]) = "put" /\ thread'[w].at = "insert" => NoneOf(buffer', w)
               /\ thread'[w].at = "put" \/ (thread'[w].at = "create" /\ thread'[w].msg.kind = "sync") =>
                     NoneOf(buffer', w) /\ \A d \in Threads : NoneOf(thread'[d].batch, w)
    <3>1. CASE w = t
      BY <1>3, <3>1
    <3>2. CASE w # t
      <4>1. thread'[w] = thread[w]
        BY <3>2 DEF OnlyMoves, Threads
      <4> QED
        BY <1>1, <2>1, <4>1, EmptyInOrder DEF SyncIsAlone
    <3> QED
      BY <3>1, <3>2
  <2> QED
    BY <2>2, <2>3, <2>4 DEF NewIsLast, SyncIsAlone
<1> QED
  BY <1>2, <1>3 DEF OrderInv

------------------------------------------------------------------------------
(* Steps that move one goroutine and no message *)

LEMMA ThreadStep ==
    ASSUME Inv, NEW t \in Threads, OnlyMoves(t), UNCHANGED <<buffer, rows, calls, accepted, failed, closed>>,
           lock' \in Threads \union {None},
           thread'[t].batch = thread[t].batch \/ (thread'[t].batch = <<>> /\ (closed \/ thread[t].batch = <<>>)),
           Purpose(thread'[t]) \in Unput => Purpose(thread[t]) \in Unput /\ thread'[t].msg = thread[t].msg,
           ~closed /\ Purpose(thread'[t]) = "put" /\ thread'[t].at = "insert" => NoneOf(buffer, t),
           ~closed /\ (thread'[t].at = "put" \/ (thread'[t].at = "create" /\ thread'[t].msg.kind = "sync")) =>
               NoneOf(buffer, t) /\ \A d \in Threads : NoneOf(thread'[d].batch, t),
           SyncSettles(t)',
           shown' \subseteq Message, \A m \in shown' : m \in shown \/ Stored(m) \/ m \in failed
    PROVE  Inv'
<1>1. TypeInv'
  BY TypeStays, BoundsAssumption DEF Inv, TypeInv
<1>2. Grows /\ \A m : (Stored(m)' <=> Stored(m)) /\ (In(m, buffer)' <=> In(m, buffer))
  BY DEF Grows, Stored, In
<1>3. ASSUME NEW m \in accepted, In(m, buffer) \/ In(m, thread[t].batch)
      PROVE  Found(m)'
  <2>1. CASE In(m, buffer)
    BY <1>2, <2>1 DEF Found
  <2>2. CASE closed
    BY <2>2 DEF Found, Settled
  <2>3. CASE thread'[t].batch = thread[t].batch /\ In(m, thread[t].batch)
    BY <2>3 DEF Found
  <2>4. CASE thread[t].batch = <<>> /\ In(m, thread[t].batch)
    BY <2>4 DEF In
  <2> QED
    BY <1>3, <2>1, <2>2, <2>3, <2>4
<1>4. VisibleInv'
  BY <1>2, <1>3, VisibleStays
<1>5. OrderInv'
  BY OrderStays
<1> QED
  BY <1>1, <1>4, <1>5 DEF Inv

(* With the lock free nobody has a batch; the holder is the only one who has. *)
LEMMA Batches ==
    ASSUME TypeInv
    PROVE  /\ \A t, d \in Threads : lock = t /\ d # t => thread[d].batch = <<>>
           /\ lock = None => \A d \in Threads : thread[d].batch = <<>>
  BY NamesAssumption DEF TypeInv, LockHeld, Threads

LEMMA StartFlushStep ==
    ASSUME Inv, NEW t \in Threads, StartFlush(t)
    PROVE  Inv'
<1>1. /\ thread[t].at = "flush" /\ lock = None
      /\ UNCHANGED <<buffer, rows, calls, accepted, failed, closed, shown>>
  BY DEF StartFlush, At, store, closing, history
<1>2. TypeInv /\ OnTrack(t) /\ \A d \in Threads : thread[d].batch = <<>>
  BY <1>1, Here, Batches
<1>3. CASE Flushed(t) /\ UNCHANGED lock /\ (closed \/ buffer = <<>>)
  <2>1. Moves(t, thread[t].after, thread[t].msg, <<>>, thread[t].after)
    BY <1>2, <1>3, FlushedEffect DEF TypeInv
  <2>2. Purpose(thread[t]) = thread[t].after /\ Purpose(thread'[t]) = thread[t].after
        /\ thread'[t].at \in OwnPlaces \union {"done"} /\ thread'[t].msg = thread[t].msg
    BY <1>1, <1>2, <2>1, NamesAssumption DEF Purpose, Moves, OnTrack, Flushing, Kinds, OwnPlaces
  <2>3. OnlyMoves(t)
    BY <1>1, <1>2, <1>3, <2>1, <2>2, NamesAssumption
       DEF OnlyMoves, Moves, OnTrack, LockHeld, Threads, OwnPlaces, Kinds, Flushing
  <2>4. SyncSettles(t)'
    <3>1. ASSUME NEW m \in accepted PROVE Settled(m)'
      <4>1. Settled(m) \/ buffer = <<>>
        BY <1>3 DEF Settled
      <4>2. Settled(m)
        BY <1>2, <4>1 DEF Inv, VisibleInv, Found, In
      <4> QED
        BY <1>1, <4>2 DEF Settled, Stored
    <3>2. thread[t].after = "return" => thread[t].msg \in accepted
      BY <2>2 DEF Inv, VisibleInv, SyncSettles
    <3> QED
      BY <1>1, <2>1, <2>2, <3>1, <3>2 DEF SyncSettles, Moves
  <2>5. ~closed => NoneOf(buffer, t) /\ \A d \in Threads : NoneOf(thread'[d].batch, t)
    BY <1>2, <1>3, <2>1, EmptyInOrder DEF Moves
  <2> QED
    BY <1>1, <1>2, <1>3, <2>1, <2>2, <2>3, <2>4, <2>5, ThreadStep DEF Moves, TypeInv
<1>4. CASE lock' = t /\ Goto(t, "drain")
  <2>1. Moves(t, "drain", thread[t].msg, thread[t].batch, thread[t].after)
    BY <1>2, <1>4, GotoEffect DEF TypeInv, Places, Flushing
  <2>2. Purpose(thread[t]) = thread[t].after /\ Purpose(thread'[t]) = thread[t].after
    BY <1>1, <2>1 DEF Purpose, Moves, Flushing
  <2>3. OnlyMoves(t)
    BY <1>1, <1>2, <1>4, <2>1, <2>2, NamesAssumption
       DEF OnlyMoves, Moves, OnTrack, LockHeld, Threads, Flushing
  <2>4. SyncSettles(t)'
    BY <1>1, <2>1, <2>2 DEF Inv, VisibleInv, SyncSettles, Moves
  <2> QED
    BY <1>1, <1>2, <1>4, <2>1, <2>2, <2>3, <2>4, ThreadStep DEF Moves, TypeInv
<1> QED
  BY <1>3, <1>4 DEF StartFlush

LEMMA DrainedStep ==
    ASSUME Inv, NEW t \in Threads, Drained(t)
    PROVE  Inv'
<1>1. /\ thread[t].at = "drain" /\ buffer = <<>>
      /\ UNCHANGED <<buffer, rows, calls, accepted, failed, closed, shown>>
  BY DEF Drained, At, store, closing, history
<1>2. /\ TypeInv /\ OnTrack(t) /\ lock = t /\ Purpose(thread[t]) = thread[t].after
      /\ \A d \in Threads \ {t} : thread[d].batch = <<>>
  BY <1>1, Here, Batches DEF LockHeld, Purpose, Flushing
<1>3. CASE Goto(t, "insert") /\ UNCHANGED lock
  <2>1. Moves(t, "insert", thread[t].msg, thread[t].batch, thread[t].after)
    BY <1>2, <1>3, GotoEffect DEF TypeInv, Places, Flushing
  <2>2. Purpose(thread'[t]) = thread[t].after
    BY <2>1 DEF Purpose, Moves, Flushing
  <2>3. OnlyMoves(t)
    BY <1>1, <1>2, <1>3, <2>1, <2>2, NamesAssumption
       DEF OnlyMoves, Moves, OnTrack, LockHeld, Threads, Flushing
  <2>4. ASSUME thread[t].after = "return"
        PROVE  thread[t].msg \in accepted /\ (In(thread[t].msg, thread[t].batch) \/ Settled(thread[t].msg))
    <3>1. thread[t].msg \in accepted
      BY <1>2, <2>4 DEF Inv, VisibleInv, SyncSettles
    <3>2. Found(thread[t].msg)
      BY <3>1 DEF Inv, VisibleInv
    <3> QED
      BY <1>1, <1>2, <3>1, <3>2 DEF Found, In
  <2>5. \A m : Settled(m) => Settled(m)'
    BY <1>1 DEF Settled, Stored
  <2>6. SyncSettles(t)'
    BY <1>1, <2>1, <2>2, <2>4, <2>5 DEF SyncSettles, Moves
  <2>7. NoneOf(buffer, t)
    BY <1>1, EmptyInOrder
  <2> QED
    BY <1>1, <1>2, <1>3, <2>1, <2>2, <2>3, <2>6, <2>7, ThreadStep DEF Moves, TypeInv
<1>4. CASE closed /\ Flushed(t) /\ lock' = None
  <2>1. Moves(t, thread[t].after, thread[t].msg, <<>>, thread[t].after)
    BY <1>2, <1>4, FlushedEffect DEF TypeInv
  <2>2. Purpose(thread'[t]) = thread[t].after
        /\ thread'[t].at \in OwnPlaces \union {"done"} /\ thread'[t].msg = thread[t].msg
    BY <1>1, <1>2, <2>1, NamesAssumption DEF Purpose, Moves, OnTrack, Flushing, Kinds, OwnPlaces
  <2>3. OnlyMoves(t)
    BY <1>1, <1>2, <1>4, <2>1, <2>2, NamesAssumption
       DEF OnlyMoves, Moves, OnTrack, LockHeld, Threads, OwnPlaces, Kinds, Flushing
  <2>4. SyncSettles(t)'
    BY <1>1, <1>2, <1>4, <2>1, <2>2 DEF SyncSettles, Moves, Settled, Inv, VisibleInv
  <2> QED
    BY <1>1, <1>2, <1>4, <2>1, <2>2, <2>3, <2>4, ThreadStep DEF Moves, TypeInv
<1> QED
  BY <1>3, <1>4 DEF Drained

(* A writer goes on with what it has in hand, lock and batch aside. *)
LEMMA WriterMoves ==
    ASSUME Inv, NEW w \in Writers, thread[w].at \notin Flushing \union {"done"},
           NEW place \in OwnPlaces \union {"flush"}, NEW msg, NEW after,
           Moves(w, place, msg, <<>>, after) \/ Moves(w, place, msg, thread[w].batch, after),
           UNCHANGED <<lock, calls>>,
           OnTrack(w)'
    PROVE  w \in Threads /\ OnlyMoves(w) /\ thread[w].batch = <<>> /\ thread'[w].batch = <<>>
<1>1. w \in Threads /\ LockHeld(w) /\ thread[w].batch = <<>> /\ lock # w
  BY Here DEF LockHeld, Flushing, Threads
<1>2. thread'[w].batch = <<>> /\ thread'[w].at = place
  BY <1>1 DEF Moves
<1>3. LockHeld(w)'
  BY <1>1, <1>2 DEF LockHeld, OwnPlaces, Kinds
<1> QED
  BY <1>1, <1>2, <1>3 DEF OnlyMoves, Moves

LEMMA Leaves ==
    ASSUME Inv, NEW w \in Writers, thread[w].at \in OwnPlaces, Done(w), UNCHANGED <<lock, calls>>
    PROVE  /\ w \in Threads /\ OnlyMoves(w)
           /\ Moves(w, "idle", None, <<>>, "idle") /\ Purpose(thread'[w]) = "idle" /\ thread[w].batch = <<>>
<1>1. Moves(w, "idle", None, <<>>, "idle")
  BY DoneEffect DEF Inv, TypeInv, Threads
<1>2. Purpose(thread'[w]) = "idle"
  BY <1>1 DEF Moves, Purpose, Flushing
<1>3. OnTrack(w)'
  BY <1>1, <1>2, NamesAssumption DEF OnTrack, Moves, Flushing, OwnPlaces, Threads
<1> QED
  BY <1>1, <1>2, <1>3, WriterMoves DEF OwnPlaces, Flushing, Kinds

(* A writer that leaves without having put or shown anything. *)
LEMMA LeaveStep ==
    ASSUME Inv, NEW w \in Writers, thread[w].at \in OwnPlaces, Done(w),
           UNCHANGED <<buffer, rows, calls, accepted, failed, closed, shown, lock>>
    PROVE  Inv'
<1>1. /\ w \in Threads /\ OnlyMoves(w) /\ thread[w].batch = <<>>
      /\ Moves(w, "idle", None, <<>>, "idle") /\ Purpose(thread'[w]) = "idle"
  BY Leaves
<1>2. SyncSettles(w)'
  BY <1>1 DEF SyncSettles
<1> QED
  BY <1>1, <1>2, ThreadStep DEF Moves, Inv, TypeInv, Unput, Kinds

(* What a writer that does not leave has in hand. *)
LEMMA WriterPlace ==
    ASSUME Inv, NEW w \in Writers, thread[w].at \in OwnPlaces
    PROVE  /\ w \in Threads /\ w # Loop /\ Purpose(thread[w]) = thread[w].at /\ OnTrack(w) /\ LockHeld(w)
           /\ thread[w].batch = <<>> /\ lock # w
  BY Here, NamesAssumption DEF Threads, Purpose, OwnPlaces, Flushing, Kinds, LockHeld

LEMMA WriteMessageStep ==
    ASSUME Inv, NEW w \in Writers, WriteMessage(w), UNCHANGED <<buffer, accepted>>
    PROVE  Inv'
<1>1. /\ thread[w].at = "buffered" /\ thread[w].at \in OwnPlaces
      /\ UNCHANGED <<buffer, rows, calls, accepted, failed, closed, shown, lock>>
  BY DEF WriteMessage, At, OwnPlaces, Kinds, closing
<1>2. Done(w) \/ FlushThen(w, "offerAgain")
  BY DEF WriteMessage, HasRoom, Put
<1>3. CASE Done(w)
  BY <1>1, <1>3, LeaveStep
<1>4. CASE FlushThen(w, "offerAgain")
  <2>1. /\ w \in Threads /\ w # Loop /\ Purpose(thread[w]) = thread[w].at /\ OnTrack(w)
    BY <1>1, WriterPlace
  <2>2. Moves(w, "flush", thread[w].msg, thread[w].batch, "offerAgain")
    BY <1>4, <2>1, FlushEffect DEF Inv, TypeInv, Places, OwnPlaces
  <2>3. Purpose(thread'[w]) = "offerAgain"
    BY <2>2 DEF Moves, Purpose, Flushing
  <2>4. OnTrack(w)'
    BY <1>1, <2>1, <2>2, <2>3 DEF OnTrack, Moves, OwnPlaces
  <2>5. OnlyMoves(w)
    BY <1>1, <2>2, <2>4, WriterMoves DEF Flushing
  <2>6. SyncSettles(w)'
    BY <2>3 DEF SyncSettles
  <2> QED
    BY <1>1, <2>1, <2>2, <2>3, <2>5, <2>6, ThreadStep DEF Moves, Inv, TypeInv, Unput
<1> QED
  BY <1>2, <1>3, <1>4

LEMMA OfferAgainStep ==
    ASSUME Inv, NEW w \in Writers, OfferAgain(w), UNCHANGED <<buffer, accepted>>
    PROVE  Inv'
<1>1. /\ thread[w].at \in OwnPlaces /\ Done(w)
      /\ UNCHANGED <<buffer, rows, calls, accepted, failed, closed, shown, lock>>
  BY DEF OfferAgain, At, OwnPlaces, closing
<1> QED
  BY <1>1, LeaveStep

LEMMA WriteMessageSyncStep ==
    ASSUME Inv, NEW w \in Writers, WriteMessageSync(w)
    PROVE  Inv'
<1>1. /\ thread[w].at = "sync" /\ thread[w].at \in OwnPlaces
      /\ UNCHANGED <<buffer, rows, calls, accepted, failed, closed, shown, lock>>
  BY DEF WriteMessageSync, At, OwnPlaces, Kinds, closing, store, history
<1>2. Done(w) \/ FlushThen(w, "put")
  BY DEF WriteMessageSync
<1>3. CASE Done(w)
  BY <1>1, <1>3, LeaveStep
<1>4. CASE FlushThen(w, "put")
  <2>1. /\ w \in Threads /\ w # Loop /\ Purpose(thread[w]) = thread[w].at /\ OnTrack(w)
    BY <1>1, WriterPlace
  <2>2. Moves(w, "flush", thread[w].msg, thread[w].batch, "put")
    BY <1>4, <2>1, FlushEffect DEF Inv, TypeInv, Places, OwnPlaces
  <2>3. Purpose(thread'[w]) = "put"
    BY <2>2 DEF Moves, Purpose, Flushing
  <2>4. OnTrack(w)'
    BY <1>1, <2>1, <2>2, <2>3 DEF OnTrack, Moves, OwnPlaces
  <2>5. OnlyMoves(w)
    BY <1>1, <2>2, <2>4, WriterMoves DEF Flushing
  <2>6. SyncSettles(w)'
    BY <2>3 DEF SyncSettles
  <2> QED
    BY <1>1, <2>1, <2>2, <2>3, <2>5, <2>6, ThreadStep DEF Moves, Inv, TypeInv, Unput
<1> QED
  BY <1>2, <1>3, <1>4

LEMMA WriteMessageDirectStep ==
    ASSUME Inv, NEW w \in Writers, WriteMessageDirect(w)
    PROVE  Inv'
<1>1. /\ thread[w].at = "direct" /\ thread[w].at \in OwnPlaces
      /\ UNCHANGED <<buffer, rows, calls, accepted, failed, closed, shown, lock>>
  BY DEF WriteMessageDirect, At, OwnPlaces, Kinds, closing, store, history
<1>2. Done(w) \/ Goto(w, "create")
  BY DEF WriteMessageDirect
<1>3. CASE Done(w)
  BY <1>1, <1>3, LeaveStep
<1>4. CASE Goto(w, "create")
  <2>1. /\ w \in Threads /\ w # Loop /\ Purpose(thread[w]) = thread[w].at /\ OnTrack(w)
    BY <1>1, WriterPlace
  <2>2. Moves(w, "create", thread[w].msg, thread[w].batch, thread[w].after)
    BY <1>4, <2>1, GotoEffect DEF Inv, TypeInv, Places, OwnPlaces
  <2>3. Purpose(thread'[w]) = "create"
    BY <2>2 DEF Moves, Purpose, Flushing
  <2>4. OnTrack(w)'
    BY <1>1, <2>1, <2>2, <2>3 DEF OnTrack, Moves, OwnPlaces, Flushing
  <2>5. OnlyMoves(w)
    BY <1>1, <2>2, <2>4, WriterMoves DEF Flushing, OwnPlaces
  <2>6. SyncSettles(w)'
    BY <2>3 DEF SyncSettles
  <2>7. thread'[w].msg.kind = "direct"
    BY <1>1, <2>1, <2>2 DEF OnTrack, Moves
  <2> QED
    BY <1>1, <2>1, <2>2, <2>3, <2>5, <2>6, <2>7, ThreadStep DEF Moves, Inv, TypeInv, Unput
<1> QED
  BY <1>2, <1>3, <1>4

LEMMA PutSyncPassesByStep ==
    ASSUME Inv, NEW w \in Writers, At(w, "put"), Goto(w, "create"),
           UNCHANGED <<buffer, rows, calls, accepted, failed, closed, shown, lock>>
    PROVE  Inv'
<1>1. thread[w].at = "put" /\ thread[w].at \in OwnPlaces
  BY DEF At, OwnPlaces
<1>2. w \in Threads /\ w # Loop /\ Purpose(thread[w]) = thread[w].at /\ OnTrack(w)
  BY <1>1, WriterPlace
<1>3. Moves(w, "create", thread[w].msg, thread[w].batch, thread[w].after)
  BY <1>2, GotoEffect DEF Inv, TypeInv, Places, OwnPlaces
<1>4. Purpose(thread'[w]) = "create"
  BY <1>3 DEF Moves, Purpose, Flushing
<1>5. OnTrack(w)'
  BY <1>1, <1>2, <1>3, <1>4 DEF OnTrack, Moves, OwnPlaces, Flushing
<1>6. OnlyMoves(w)
  BY <1>1, <1>3, <1>5, WriterMoves DEF Flushing, OwnPlaces
<1>7. SyncSettles(w)'
  BY <1>4 DEF SyncSettles
<1>8. ~closed => NoneOf(buffer, w) /\ \A d \in Threads : NoneOf(thread[d].batch, w)
  BY <1>1 DEF Inv, OrderInv, SyncIsAlone
<1>9. \A d \in Threads : thread'[d].batch = thread[d].batch
  BY <1>3 DEF Moves
<1> QED
  BY <1>1, <1>2, <1>3, <1>4, <1>6, <1>7, <1>8, <1>9, ThreadStep DEF Moves, Inv, TypeInv, Unput

LEMMA ReturnSyncStep ==
    ASSUME Inv, NEW w \in Writers, ReturnSync(w)
    PROVE  Inv'
<1>1. /\ thread[w].at = "return" /\ thread[w].at \in OwnPlaces /\ Done(w)
      /\ UNCHANGED <<buffer, rows, calls, accepted, failed, closed, lock>>
  BY DEF ReturnSync, At, OwnPlaces, closing, store
<1>2. w \in Threads /\ Purpose(thread[w]) = "return" /\ OnTrack(w)
  BY <1>1, WriterPlace
<1>3. /\ w \in Threads /\ OnlyMoves(w) /\ thread[w].batch = <<>>
      /\ Moves(w, "idle", None, <<>>, "idle") /\ Purpose(thread'[w]) = "idle"
  BY <1>1, Leaves
<1>4. SyncSettles(w)'
  BY <1>3 DEF SyncSettles
<1>5. thread[w].msg \in Message /\ (Settled(thread[w].msg))
  BY <1>1, <1>2, NamesAssumption DEF OnTrack, Inv, VisibleInv, SyncSettles
<1>6. \A m \in shown' : m \in shown \/ Stored(m) \/ m \in failed
  BY <1>5 DEF ReturnSync, Settled
<1>7. shown' \subseteq Message
  BY <1>5 DEF ReturnSync, Inv, TypeInv
<1> QED
  BY <1>1, <1>3, <1>4, <1>6, <1>7, ThreadStep DEF Moves, Inv, TypeInv, Unput

LEMMA WriteHistoryMessagesStep ==
    ASSUME Inv, NEW w \in Writers, WriteHistoryMessages(w)
    PROVE  Inv'
<1>1. /\ thread[w].at = "history" /\ thread[w].at \in OwnPlaces
      /\ UNCHANGED <<buffer, rows, calls, accepted, failed, closed, shown, lock>>
  BY DEF WriteHistoryMessages, At, OwnPlaces, Kinds, closing, store, history
<1>2. Done(w) \/ Goto(w, "bulk")
  BY DEF WriteHistoryMessages
<1>3. CASE Done(w)
  BY <1>1, <1>3, LeaveStep
<1>4. CASE Goto(w, "bulk")
  <2>1. /\ w \in Threads /\ w # Loop /\ Purpose(thread[w]) = thread[w].at /\ OnTrack(w)
    BY <1>1, WriterPlace
  <2>2. Moves(w, "bulk", thread[w].msg, thread[w].batch, thread[w].after)
    BY <1>4, <2>1, GotoEffect DEF Inv, TypeInv, Places, OwnPlaces
  <2>3. Purpose(thread'[w]) = "bulk"
    BY <2>2 DEF Moves, Purpose, Flushing
  <2>4. OnTrack(w)'
    BY <1>1, <2>1, <2>2, <2>3 DEF OnTrack, Moves, OwnPlaces, Flushing
  <2>5. OnlyMoves(w)
    BY <1>1, <2>2, <2>4, WriterMoves DEF Flushing, OwnPlaces
  <2>6. SyncSettles(w)'
    BY <2>3 DEF SyncSettles
  <2> QED
    BY <1>1, <2>1, <2>2, <2>3, <2>5, <2>6, ThreadStep DEF Moves, Inv, TypeInv, Unput
<1> QED
  BY <1>2, <1>3, <1>4

(* The flushing goroutine starts a flush, or ends. *)
LEMMA LoopStep ==
    ASSUME Inv, Tick \/ FinalFlush
    PROVE  Inv'
<1>1. /\ thread[Loop].at = "idle" /\ Loop \in Threads
      /\ UNCHANGED <<buffer, rows, calls, accepted, failed, closed, shown, lock>>
  BY DEF Tick, FinalFlush, At, closing, store, history, Threads
<1>2. LockHeld(Loop) /\ thread \in [Threads -> ThreadType] /\ lock # Loop /\ thread[Loop].batch = <<>>
  BY <1>1, Here DEF TypeInv, LockHeld
<1>3. PICK place \in {"flush", "done"}, after \in Places :
          /\ place = "flush" => after \in {"idle", "done"}
          /\ Moves(Loop, place, thread[Loop].msg, thread[Loop].batch, after)
  <2>1. CASE Goto(Loop, "done")
    <3>1. "done" \in Places /\ thread[Loop].after \in Places
      BY <1>1, Here DEF Places
    <3> QED
      BY <1>1, <1>2, <2>1, <3>1, GotoEffect
  <2>2. CASE FlushThen(Loop, "idle")
    <3>1. "idle" \in Places
      BY DEF Places, OwnPlaces
    <3> QED
      BY <1>1, <1>2, <2>2, <3>1, FlushEffect
  <2>3. CASE FinalFlush
    <3>1. "flush" \in Places /\ "done" \in Places /\ TRUE \in BOOLEAN
      BY DEF Places, Flushing
    <3>2. thread' = [thread EXCEPT ![Loop].at = "flush", ![Loop].after = "done", ![Loop].final = TRUE]
      BY <2>3 DEF FinalFlush
    <3> QED
      BY <1>1, <1>2, <3>1, <3>2, FinalEffect
  <2> QED
    BY <2>1, <2>2, <2>3 DEF Tick
<1>4. Purpose(thread'[Loop]) \in {"idle", "done"}
  BY <1>3 DEF Moves, Purpose, Flushing
<1>5. OnTrack(Loop)' /\ LockHeld(Loop)'
  BY <1>1, <1>2, <1>3, <1>4 DEF OnTrack, LockHeld, Moves
<1>6. OnlyMoves(Loop)
  BY <1>1, <1>3, <1>5 DEF OnlyMoves, Moves
<1>7. SyncSettles(Loop)'
  BY <1>4 DEF SyncSettles
<1> QED
  BY <1>1, <1>2, <1>3, <1>4, <1>6, <1>7, ThreadStep DEF Moves, Inv, TypeInv, Unput

------------------------------------------------------------------------------
(* Sequences of messages: one more at the end, one less at the front *)

LEMMA OneMore ==
    ASSUME NEW s \in Seq(Message), NEW m \in Message
    PROVE  /\ Append(s, m) \in Seq(Message)
           /\ \A x : In(x, Append(s, m)) <=> In(x, s) \/ x = m
           /\ Sorted(s) /\ Before(s, m) => Sorted(Append(s, m))
           /\ \A r \in Seq(Message) : AllBefore(r, s) /\ Before(r, m) => AllBefore(r, Append(s, m))
           /\ \A r \in Seq(Message) : AllBefore(s, r) /\ AllBefore(<<m>>, r) => AllBefore(Append(s, m), r)
           /\ \A x \in Message : Before(s, x) /\ (Mine(m, x) => m.n < x.n) => Before(Append(s, m), x)
           /\ \A w : NoneOf(s, w) /\ m.by # w => NoneOf(Append(s, m), w)
           /\ Numbered(s) /\ m.n <= calls => Numbered(Append(s, m))
<1> DEFINE q == Append(s, m)
           len == Len(s)
<1>1. /\ q \in Seq(Message) /\ len \in Nat /\ DOMAIN s = 1..len /\ DOMAIN q = 1..(len + 1)
      /\ q[len + 1] = m /\ \A i \in 1..len : q[i] = s[i]
  BY AppendProperties, LenProperties
<1>2. \A x : In(x, q) <=> In(x, s) \/ x = m
  <2> HIDE DEF q, len
  <2> QED
    BY <1>1 DEF In
<1>3. Sorted(s) /\ Before(s, m) => Sorted(q)
  <2> HIDE DEF q, len
  <2> SUFFICES ASSUME Sorted(s), Before(s, m), NEW i \in DOMAIN q, NEW j \in DOMAIN q, i < j, Mine(q[i], q[j])
               PROVE  q[i].n < q[j].n
    BY DEF Sorted
  <2>1. i \in DOMAIN s /\ q[i] = s[i]
    BY <1>1
  <2>2. CASE j \in 1..len
    BY <1>1, <2>1, <2>2 DEF Sorted
  <2>3. CASE j = len + 1
    BY <1>1, <2>1, <2>3 DEF Before
  <2> QED
    BY <1>1, <2>2, <2>3
<1>4. ASSUME NEW r \in Seq(Message), AllBefore(r, s), Before(r, m)
      PROVE  AllBefore(r, q)
  <2> HIDE DEF q, len
  <2>1. ASSUME NEW j \in DOMAIN q PROVE Before(r, q[j])
    <3>1. j \in 1..len \/ j = len + 1
      BY <1>1
    <3> QED
      BY <1>1, <1>4, <3>1 DEF AllBefore
  <2> QED
    BY <2>1 DEF AllBefore
<1>5. ASSUME NEW x, Before(s, x), Mine(m, x) => m.n < x.n
      PROVE  Before(q, x)
  <2> HIDE DEF q, len
  <2>1. ASSUME NEW i \in DOMAIN q, Mine(q[i], x) PROVE q[i].n < x.n
    <3>1. i \in 1..len \/ i = len + 1
      BY <1>1
    <3> QED
      BY <1>1, <1>5, <2>1, <3>1 DEF Before
  <2> QED
    BY <2>1 DEF Before
<1>6. ASSUME NEW r \in Seq(Message), AllBefore(s, r), AllBefore(<<m>>, r)
      PROVE  AllBefore(q, r)
  <2>1. ASSUME NEW j \in DOMAIN r PROVE Before(q, r[j])
    <3>1. Before(s, r[j]) /\ Before(<<m>>, r[j])
      BY <1>6 DEF AllBefore
    <3>2. Mine(m, r[j]) => m.n < r[j].n
      BY <3>1 DEF Before
    <3> QED
      BY <1>5, <3>1, <3>2
  <2> QED
    BY <2>1 DEF AllBefore
<1>7. ASSUME NEW w, NoneOf(s, w), m.by # w
      PROVE  NoneOf(q, w)
  <2> HIDE DEF q, len
  <2>1. ASSUME NEW i \in DOMAIN q PROVE q[i].by # w
    <3>1. i \in 1..len \/ i = len + 1
      BY <1>1
    <3> QED
      BY <1>1, <1>7, <3>1 DEF NoneOf
  <2> QED
    BY <2>1 DEF NoneOf
<1>8. ASSUME Numbered(s), m.n <= calls
      PROVE  Numbered(q)
  <2> HIDE DEF q, len
  <2>1. ASSUME NEW i \in DOMAIN q PROVE q[i].n <= calls
    <3>1. i \in 1..len \/ i = len + 1
      BY <1>1
    <3> QED
      BY <1>1, <1>8, <3>1 DEF Numbered
  <2> QED
    BY <2>1 DEF Numbered
<1> HIDE DEF q, len
<1>9. q = Append(s, m)
  BY DEF q
<1> QED
  BY <1>1, <1>2, <1>3, <1>4, <1>5, <1>6, <1>7, <1>8, <1>9

LEMMA OneLess ==
    ASSUME NEW s \in Seq(Message), s # <<>>
    PROVE  /\ Head(s) \in Message /\ In(Head(s), s) /\ Tail(s) \in Seq(Message)
           /\ \A x : In(x, s) <=> In(x, Tail(s)) \/ x = Head(s)
           /\ Sorted(s) => Sorted(Tail(s)) /\ AllBefore(<<Head(s)>>, Tail(s))
           /\ \A r : AllBefore(r, s) => AllBefore(r, Tail(s)) /\ Before(r, Head(s))
           /\ \A x : Before(s, x) => Before(Tail(s), x) /\ (Mine(Head(s), x) => Head(s).n < x.n)
           /\ \A w : NoneOf(s, w) => NoneOf(Tail(s), w) /\ Head(s).by # w
           /\ Numbered(s) => Numbered(Tail(s)) /\ Head(s).n <= calls
<1> DEFINE q == Tail(s)
           h == Head(s)
           len == Len(s)
<1>1. /\ q \in Seq(Message) /\ len \in Nat /\ len >= 1 /\ DOMAIN s = 1..len /\ DOMAIN q = 1..(len - 1)
      /\ h = s[1] /\ h \in Message /\ \A i \in 1..(len - 1) : q[i] = s[i + 1]
  BY HeadTailProperties, LenProperties, EmptySeq
<1> HIDE DEF q, h, len
<1>2. 1 \in DOMAIN s /\ s[1] = h /\ \A i \in DOMAIN q : i + 1 \in DOMAIN s /\ q[i] = s[i + 1]
  BY <1>1
<1>3. ASSUME NEW i \in DOMAIN s
      PROVE  i = 1 \/ (i - 1 \in DOMAIN q /\ q[i - 1] = s[i])
  BY <1>1
<1>4. \A x : In(x, s) <=> In(x, q) \/ x = h
  <2>1. ASSUME NEW x, In(x, s) PROVE In(x, q) \/ x = h
    BY <1>2, <1>3, <2>1 DEF In
  <2>2. ASSUME NEW x, In(x, q) \/ x = h PROVE In(x, s)
    BY <1>2, <2>2 DEF In
  <2> QED
    BY <2>1, <2>2
<1>5. ASSUME Sorted(s)
      PROVE  Sorted(q) /\ AllBefore(<<h>>, q)
  <2>1. ASSUME NEW i \in DOMAIN q, NEW j \in DOMAIN q, i < j, Mine(q[i], q[j])
        PROVE  q[i].n < q[j].n
    <3>1. i + 1 < j + 1
      BY <1>1, <2>1
    <3> QED
      BY <1>2, <1>5, <2>1, <3>1 DEF Sorted
  <2>2. ASSUME NEW j \in DOMAIN q, Mine(h, q[j])
        PROVE  h.n < q[j].n
    <3>1. 1 < j + 1
      BY <1>1
    <3> QED
      BY <1>2, <1>5, <2>2, <3>1 DEF Sorted
  <2> QED
    BY <2>1, <2>2 DEF Sorted, AllBefore, Before
<1>6. ASSUME NEW r, AllBefore(r, s)
      PROVE  AllBefore(r, q) /\ Before(r, h)
  BY <1>2, <1>6 DEF AllBefore
<1>7. ASSUME NEW x, Before(s, x)
      PROVE  Before(q, x) /\ (Mine(h, x) => h.n < x.n)
  BY <1>2, <1>7 DEF Before
<1>8. ASSUME NEW w, NoneOf(s, w)
      PROVE  NoneOf(q, w) /\ h.by # w
  BY <1>2, <1>8 DEF NoneOf
<1>9. ASSUME Numbered(s)
      PROVE  Numbered(q) /\ h.n <= calls
  BY <1>2, <1>9 DEF Numbered
<1>10. q = Tail(s) /\ h = Head(s)
  BY DEF q, h
<1> QED
  BY <1>1, <1>2, <1>4, <1>5, <1>6, <1>7, <1>8, <1>9, <1>10 DEF In

------------------------------------------------------------------------------
(* A message moves from the buffer to the batch *)

LEMMA DrainStep ==
    ASSUME Inv, NEW t \in Threads, Drain(t)
    PROVE  Inv'
<1> DEFINE h == Head(buffer)
           more == Append(thread[t].batch, h)
<1>1. /\ thread[t].at = "drain" /\ buffer # <<>> /\ buffer' = Tail(buffer)
      /\ UNCHANGED <<rows, calls, accepted, failed, closed, shown, lock>>
  BY DEF Drain, At, closing, history
<1>2. /\ TypeInv /\ OnTrack(t) /\ lock = t /\ Purpose(thread[t]) = thread[t].after
      /\ \A d \in Threads \ {t} : thread[d].batch = <<>>
      /\ thread[t].batch \in Seq(Message) /\ buffer \in Seq(Message) /\ rows \in Seq(Message)
  BY <1>1, Here, Batches DEF LockHeld, Purpose, Flushing, TypeInv
<1>3. h \in Message /\ buffer' \in Seq(Message) /\ more \in Seq(Message)
  BY <1>1, <1>2, OneLess, AppendProperties
<1>4. Moves(t, thread[t].at, thread[t].msg, more, thread[t].after)
  BY <1>2, <1>3, DrainEffect DEF Drain, TypeInv
<1>5. \A x : In(x, buffer) <=> In(x, buffer') \/ x = h
  BY <1>1, <1>2, OneLess
<1>6. \A x : In(x, more) <=> In(x, thread[t].batch) \/ x = h
  BY <1>2, <1>3, OneMore
<1>7. AllNumbered'
  <2>1. Numbered(buffer) /\ Numbered(rows) /\ \A d \in Threads : Numbered(thread[d].batch)
    BY DEF Inv, OrderInv, AllNumbered
  <2>2. Numbered(buffer') /\ h.n <= calls
    BY <1>1, <1>2, <2>1, OneLess
  <2>3. Numbered(more)
    BY <1>2, <1>3, <2>1, <2>2, OneMore
  <2>4. \A d \in Threads : thread'[d].batch = thread[d].batch \/ thread'[d].batch = more
    BY <1>4 DEF Moves
  <2> HIDE DEF more, h
  <2>5. \A d \in Threads : Numbered(thread'[d].batch)
    BY <2>1, <2>3, <2>4
  <2> QED
    BY <1>1, <2>1, <2>2, <2>5 DEF AllNumbered, Numbered
<1>8. ASSUME ~closed
      PROVE  PipelineSorted' /\ NewIsLast' /\ SyncIsAlone'
  <2>1. PipelineSorted /\ NewIsLast /\ SyncIsAlone
    BY <1>8 DEF Inv, OrderInv
  <2>2. /\ Sorted(buffer') /\ AllBefore(<<h>>, buffer') /\ AllBefore(rows, buffer') /\ Before(rows, h)
        /\ Before(thread[t].batch, h) /\ AllBefore(thread[t].batch, buffer')
    BY <1>1, <1>2, <2>1, OneLess DEF PipelineSorted
  <2>3. Sorted(more) /\ AllBefore(rows, more) /\ AllBefore(more, buffer')
    BY <1>2, <1>3, <2>1, <2>2, OneMore DEF PipelineSorted
  <2> HIDE DEF more, h
  <2>4. thread'[t].batch = more /\ \A d \in Threads \ {t} : thread'[d].batch = <<>>
    BY <1>2, <1>4 DEF Moves
  <2>5. PipelineSorted'
    BY <1>1, <2>1, <2>2, <2>3, <2>4, EmptyInOrder DEF PipelineSorted
  <2>6. ASSUME NEW w \in Writers
        PROVE  thread'[w].msg = thread[w].msg /\ Purpose(thread'[w]) = Purpose(thread[w]) /\ thread'[w].at = thread[w].at
    BY <1>4 DEF Moves, Threads, Purpose
  <2>7. ASSUME NEW w \in Writers, Purpose(thread[w]) \in Unput
        PROVE  /\ Before(rows, thread[w].msg) /\ Before(buffer', thread[w].msg)
               /\ \A d \in Threads : Before(thread'[d].batch, thread[w].msg)
    <3>1. w \in Threads /\ thread[w].msg \in Message
      <4>1. w \in Threads /\ OnTrack(w)
        BY Here DEF Threads
      <4>2. Purpose(thread[w]) \notin {"idle", "done"}
        BY <2>7 DEF Unput
      <4> QED
        BY <4>1, <4>2 DEF OnTrack
    <3>2. Before(rows, thread[w].msg) /\ Before(buffer, thread[w].msg) /\ Before(thread[t].batch, thread[w].msg)
      BY <2>1, <2>7 DEF NewIsLast
    <3>3. Before(buffer', thread[w].msg) /\ (Mine(h, thread[w].msg) => h.n < thread[w].msg.n)
      BY <1>1, <1>2, <3>2, OneLess DEF h
    <3>4. Before(more, thread[w].msg)
      <4>1. \A x \in Message : Before(thread[t].batch, x) /\ (Mine(h, x) => h.n < x.n) => Before(more, x)
        BY <1>2, <1>3, OneMore DEF more
      <4> QED
        BY <3>1, <3>2, <3>3, <4>1
    <3> QED
      BY <2>4, <3>2, <3>3, <3>4, EmptyInOrder
  <2>8. NewIsLast'
    BY <1>1, <2>6, <2>7 DEF NewIsLast
  <2>9. ASSUME NEW w \in Writers, NoneOf(buffer, w)
        PROVE  NoneOf(buffer', w) /\ h.by # w
    BY <1>1, <1>2, <2>9, OneLess DEF h
  <2>10. ASSUME NEW w \in Writers, NoneOf(buffer, w), \A d \in Threads : NoneOf(thread[d].batch, w)
         PROVE  \A d \in Threads : NoneOf(thread'[d].batch, w)
    <3>1. NoneOf(more, w)
      BY <1>2, <1>3, <2>9, <2>10, OneMore DEF more
    <3> QED
      BY <2>4, <3>1, EmptyInOrder
  <2>11. SyncIsAlone'
    BY <1>1, <2>1, <2>6, <2>9, <2>10 DEF SyncIsAlone
  <2> QED
    BY <2>5, <2>8, <2>11
<1>9. OrderInv'
  BY <1>1, <1>7, <1>8 DEF OrderInv
<1> HIDE DEF more, h
<1>10. Purpose(thread'[t]) = Purpose(thread[t])
  BY <1>4 DEF Moves, Purpose
<1>11. OnlyMoves(t)
  <2>1. OnTrack(t)'
    BY <1>1, <1>2, <1>4, <1>10 DEF OnTrack, Moves
  <2>2. LockHeld(t)'
    BY <1>1, <1>2, <1>4 DEF LockHeld, Moves
  <2> QED
    BY <1>1, <1>4, <2>1, <2>2 DEF OnlyMoves, Moves
<1>12. TypeInv'
  BY <1>1, <1>2, <1>3, <1>11, TypeStays, BoundsAssumption DEF TypeInv
<1>13. SyncSettles(t)'
  BY <1>1, <1>2, <1>4, <1>10 DEF SyncSettles, Moves, Inv, VisibleInv
<1>14. ASSUME NEW m \in accepted, In(m, buffer) \/ In(m, thread[t].batch)
       PROVE  Found(m)'
  <2>1. In(m, buffer') \/ In(m, thread'[t].batch)
    BY <1>4, <1>5, <1>6, <1>14 DEF Moves
  <2> QED
    BY <2>1 DEF Found
<1>15. Grows
  BY <1>1 DEF Grows
<1>16. VisibleInv'
  BY <1>1, <1>11, <1>13, <1>14, <1>15, VisibleStays
<1> QED
  BY <1>9, <1>12, <1>16 DEF Inv

------------------------------------------------------------------------------
(* A message enters the buffer *)

(* A message that is still to be put is its writer's own. *)
LEMMA InHand ==
    ASSUME Inv, NEW w \in Writers, Purpose(thread[w]) \in Unput \union {"return"}
    PROVE  w \in Threads /\ thread[w].msg \in Message /\ thread[w].msg.by = w /\ thread[w].msg.n <= calls
<1>1. w \in Threads /\ OnTrack(w)
  BY Here DEF Threads
<1>2. Purpose(thread[w]) \notin {"idle", "done"}
  BY DEF Unput
<1> QED
  BY <1>1, <1>2 DEF OnTrack

LEMMA PutStep ==
    ASSUME Inv, NEW w \in Writers, thread[w].at \in {"buffered", "offerAgain", "put"}, Put(w), OnlyMoves(w),
           UNCHANGED <<rows, calls, failed, shown, closed, lock>>,
           thread'[w].batch = <<>>, thread'[w].at \in {"idle", "flush"},
           Purpose(thread'[w]) \in {"idle", "return"},
           Purpose(thread'[w]) = "return" => thread'[w].msg = thread[w].msg
    PROVE  Inv'
<1> DEFINE m == thread[w].msg
<1>1. /\ w \in Threads /\ Purpose(thread[w]) = thread[w].at /\ Purpose(thread[w]) \in Unput
      /\ thread[w].batch = <<>>
  BY WriterPlace DEF OwnPlaces, Unput, Kinds
<1>2. m \in Message /\ m.by = w /\ m.n <= calls
  BY <1>1, InHand
<1>3. /\ TypeInv /\ buffer \in Seq(Message) /\ rows \in Seq(Message)
      /\ buffer' = Append(buffer, m) /\ accepted' = accepted \union {m}
      /\ \A d \in Threads : thread[d].batch \in Seq(Message) /\ thread'[d].batch = thread[d].batch
  BY <1>1, Here DEF Put, Inv, TypeInv, OnlyMoves
<1> HIDE DEF m
<1>4. buffer' \in Seq(Message) /\ \A x : In(x, buffer') <=> In(x, buffer) \/ x = m
  BY <1>2, <1>3, OneMore
<1>5. AllNumbered'
  <2>1. AllNumbered
    BY DEF Inv, OrderInv
  <2>2. Numbered(buffer')
    BY <1>2, <1>3, <2>1, OneMore DEF AllNumbered
  <2> QED
    BY <1>3, <2>1, <2>2 DEF AllNumbered, Numbered
<1>6. ASSUME ~closed
      PROVE  PipelineSorted' /\ NewIsLast' /\ SyncIsAlone'
  <2>1. PipelineSorted /\ NewIsLast /\ SyncIsAlone
    BY <1>6 DEF Inv, OrderInv
  <2>2. Before(rows, m) /\ Before(buffer, m) /\ \A d \in Threads : Before(thread[d].batch, m)
    BY <1>1, <2>1 DEF NewIsLast, m
  <2>3. PipelineSorted'
    <3>1. Sorted(buffer') /\ AllBefore(rows, buffer')
      BY <1>2, <1>3, <2>1, <2>2, OneMore DEF PipelineSorted
    <3>2. \A d \in Threads : AllBefore(thread[d].batch, buffer')
      BY <1>2, <1>3, <2>1, <2>2, OneMore DEF PipelineSorted
    <3> QED
      BY <1>3, <2>1, <3>1, <3>2 DEF PipelineSorted
  <2>4. ASSUME NEW v \in Writers \ {w}
        PROVE  thread'[v] = thread[v]
    BY DEF OnlyMoves, Threads
  <2>5. ASSUME NEW v \in Writers, Purpose(thread'[v]) \in Unput
        PROVE  /\ Before(rows, thread'[v].msg) /\ Before(buffer', thread'[v].msg)
               /\ \A d \in Threads : Before(thread'[d].batch, thread'[v].msg)
    <3>1. v # w
      BY <2>5 DEF Unput
    <3>2. thread'[v] = thread[v] /\ thread[v].msg \in Message /\ thread[v].msg.by = v
      BY <2>4, <2>5, <3>1, InHand
    <3>3. /\ Before(rows, thread[v].msg) /\ Before(buffer, thread[v].msg)
          /\ \A d \in Threads : Before(thread[d].batch, thread[v].msg)
      BY <2>1, <2>5, <3>2 DEF NewIsLast
    <3>4. ~Mine(m, thread[v].msg)
      BY <1>2, <3>1, <3>2 DEF Mine
    <3>5. Before(buffer', thread[v].msg)
      <4>1. \A x \in Message : Before(buffer, x) /\ (Mine(m, x) => m.n < x.n) => Before(buffer', x)
        BY <1>2, <1>3, OneMore
      <4> QED
        BY <3>2, <3>3, <3>4, <4>1
    <3> QED
      BY <1>3, <3>2, <3>3, <3>5
  <2>6. NewIsLast'
    BY <1>3, <2>5 DEF NewIsLast
  <2>7. ASSUME NEW v \in Writers \ {w}, NoneOf(buffer, v)
        PROVE  NoneOf(buffer', v)
    BY <1>2, <1>3, <2>7, OneMore
  <2>8. ASSUME NEW v \in Writers
        PROVE  /\ Purpose(thread'[v]) = "put" /\ thread'[v].at = "insert" => NoneOf(buffer', v)
               /\ thread'[v].at = "put" \/ (thread'[v].at = "create" /\ thread'[v].msg.kind = "sync") =>
                     NoneOf(buffer', v) /\ \A d \in Threads : NoneOf(thread'[d].batch, v)
    <3>1. CASE v = w
      BY <3>1
    <3>2. CASE v # w
      BY <1>3, <2>1, <2>4, <2>7, <3>2 DEF SyncIsAlone
    <3> QED
      BY <3>1, <3>2
  <2>9. SyncIsAlone'
    BY <2>8 DEF SyncIsAlone
  <2> QED
    BY <2>3, <2>6, <2>9
<1>7. OrderInv'
  BY <1>5, <1>6 DEF OrderInv
<1>8. TypeInv'
  <2>1. accepted' \subseteq Message
    BY <1>2, <1>3 DEF TypeInv
  <2>2. /\ rows' \in Seq(Message) /\ lock' \in Threads \union {None} /\ closed' \in BOOLEAN
        /\ calls' \in 0..MaxCalls /\ calls <= calls' /\ shown' \subseteq Message /\ failed' \subseteq Message
    BY <1>3, BoundsAssumption DEF TypeInv
  <2> QED
    BY <1>1, <1>3, <1>4, <2>1, <2>2, TypeStays
<1>9. SyncSettles(w)'
  BY <1>3 DEF SyncSettles, m
<1>10. Grows
  BY DEF Grows
<1>11. ASSUME NEW x \in accepted, In(x, buffer) \/ In(x, thread[w].batch)
       PROVE  Found(x)'
  BY <1>1, <1>4, <1>11 DEF Found, In
<1>12. VisibleInv'
  BY <1>1, <1>3, <1>4, <1>9, <1>10, <1>11, VisibleStays
<1> QED
  BY <1>7, <1>8, <1>12 DEF Inv

(* WriteMessage and its second offer put and leave. *)
LEMMA PutAndLeaveStep ==
    ASSUME Inv, NEW w \in Writers, thread[w].at \in {"buffered", "offerAgain"}, Put(w), Done(w),
           UNCHANGED <<rows, calls, failed, shown, closed, lock>>
    PROVE  Inv'
<1>1. /\ OnlyMoves(w) /\ Moves(w, "idle", None, <<>>, "idle") /\ Purpose(thread'[w]) = "idle"
  BY Leaves DEF OwnPlaces, Kinds
<1> QED
  BY <1>1, PutStep DEF Moves

(* WriteMessageSync goes on with the flush that makes its message visible. *)
LEMMA PutAndFlushStep ==
    ASSUME Inv, NEW w \in Writers, thread[w].at = "put", Put(w), FlushThen(w, "return"),
           UNCHANGED <<rows, calls, failed, shown, closed, lock>>
    PROVE  Inv'
<1>1. w \in Threads /\ w # Loop /\ Purpose(thread[w]) = thread[w].at /\ OnTrack(w) /\ thread[w].batch = <<>>
  BY WriterPlace DEF OwnPlaces
<1>2. Moves(w, "flush", thread[w].msg, thread[w].batch, "return")
  BY <1>1, FlushEffect DEF Inv, TypeInv, Places, OwnPlaces
<1>3. Purpose(thread'[w]) = "return"
  BY <1>2 DEF Moves, Purpose, Flushing
<1>4. OnTrack(w)'
  BY <1>1, <1>2, <1>3 DEF OnTrack, Moves, OwnPlaces
<1>5. OnlyMoves(w)
  BY <1>2, <1>4, WriterMoves DEF Flushing
<1> QED
  BY <1>1, <1>2, <1>3, <1>5, PutStep DEF Moves

------------------------------------------------------------------------------
(* A call begins with the highest number *)

LEMMA WriteStep ==
    ASSUME Inv, NEW w \in Writers, NEW kind \in Kinds, NEW id \in MsgIds \union {None}, Write(w, kind, id)
    PROVE  Inv'
<1> DEFINE m == [n |-> calls + 1, by |-> w, kind |-> kind, id |-> id]
<1>1. /\ thread[w].at = "idle" /\ calls < MaxCalls /\ calls' = calls + 1
      /\ thread' = [thread EXCEPT ![w].at = kind, ![w].msg = m]
      /\ UNCHANGED <<buffer, rows, accepted, shown, failed, closed, lock>>
  BY DEF Write, At, store, closing, history
<1>2. /\ w \in Threads /\ w # Loop /\ LockHeld(w) /\ thread[w].batch = <<>> /\ lock # w /\ calls \in Nat
  BY <1>1, WriterPlace, BoundsAssumption DEF OwnPlaces, Inv, TypeInv
<1>3. calls' \in 0..MaxCalls /\ calls' \in 1..MaxCalls
  BY <1>1, <1>2, BoundsAssumption
<1>4. m \in Message /\ m.n = calls + 1 /\ m.by = w /\ m.kind = kind
  BY <1>1, <1>3 DEF Message
<1> HIDE DEF m
<1>5. Moves(w, kind, m, thread[w].batch, thread[w].after)
  BY <1>1, <1>2, <1>4, WriteEffect DEF Inv, TypeInv
<1>6. Purpose(thread'[w]) = kind
  BY <1>5 DEF Moves, Purpose, Flushing, Kinds
<1>7. OnlyMoves(w)
  <2>1. OnTrack(w)'
    BY <1>1, <1>2, <1>4, <1>5, <1>6, BoundsAssumption DEF OnTrack, Moves, OwnPlaces, Kinds, Flushing
  <2>2. LockHeld(w)'
    BY <1>1, <1>2, <1>5 DEF LockHeld, Moves, Kinds
  <2> QED
    BY <1>1, <1>5, <2>1, <2>2 DEF OnlyMoves, Moves
<1>8. TypeInv'
  <2>1. /\ buffer' \in Seq(Message) /\ rows' \in Seq(Message) /\ lock' \in Threads \union {None} /\ closed' \in BOOLEAN
        /\ calls <= calls' /\ accepted' \subseteq Message /\ shown' \subseteq Message /\ failed' \subseteq Message
    BY <1>1, <1>2 DEF Inv, TypeInv
  <2> QED
    BY <1>2, <1>3, <1>7, <2>1, TypeStays DEF Inv
<1>9. SyncSettles(w)'
  BY <1>6 DEF SyncSettles, Kinds
<1>10. Grows /\ \A x \in accepted : In(x, buffer) \/ In(x, thread[w].batch) => Found(x)'
  BY <1>1, <1>2 DEF Grows, Found, In
<1>11. VisibleInv'
  BY <1>1, <1>2, <1>7, <1>9, <1>10, VisibleStays
<1>12. \A d \in Threads : thread'[d].batch = thread[d].batch /\ thread[d].batch \in Seq(Message)
  BY <1>5, Here DEF Moves
<1>13. AllNumbered'
  <2>1. ASSUME NEW s \in Seq(Message), Numbered(s)
        PROVE  \A i \in DOMAIN s : s[i].n <= calls + 1
    <3>1. ASSUME NEW i \in DOMAIN s PROVE s[i].n \in Int /\ s[i].n <= calls
      BY <2>1, MessageFields, ElementOfSeq, LenProperties, BoundsAssumption DEF Numbered
    <3> QED
      BY <1>2, <3>1
  <2>2. AllNumbered /\ rows \in Seq(Message) /\ buffer \in Seq(Message)
    BY DEF Inv, OrderInv, TypeInv
  <2> QED
    BY <1>1, <1>12, <2>1, <2>2 DEF AllNumbered, Numbered
<1>14. ASSUME NEW s \in Seq(Message), Numbered(s)
       PROVE  Before(s, m)
  <2>1. ASSUME NEW i \in DOMAIN s PROVE s[i].n < m.n
    <3>1. s[i].n \in Int /\ s[i].n <= calls
      BY <1>14, MessageFields, ElementOfSeq, LenProperties, BoundsAssumption DEF Numbered
    <3> QED
      BY <1>2, <1>4, <3>1
  <2> QED
    BY <2>1 DEF Before
<1>15. ASSUME ~closed
       PROVE  PipelineSorted' /\ NewIsLast' /\ SyncIsAlone'
  <2>1. PipelineSorted /\ NewIsLast /\ SyncIsAlone /\ AllNumbered
    BY <1>15 DEF Inv, OrderInv
  <2>2. PipelineSorted'
    BY <1>1, <1>12, <2>1 DEF PipelineSorted
  <2>3. Before(rows, m) /\ Before(buffer, m) /\ \A d \in Threads : Before(thread[d].batch, m)
    BY <1>12, <1>14, <2>1 DEF AllNumbered, Inv, TypeInv
  <2>4. \A v \in Writers : v = w \/ thread'[v] = thread[v]
    BY <1>5 DEF Moves, Threads
  <2>5. thread'[w].msg = m /\ thread'[w].at = kind
    BY <1>5 DEF Moves
  <2>6. NewIsLast'
    BY <1>1, <1>12, <2>1, <2>3, <2>4, <2>5 DEF NewIsLast
  <2>7. ASSUME NEW v \in Writers
        PROVE  /\ Purpose(thread'[v]) = "put" /\ thread'[v].at = "insert" => NoneOf(buffer', v)
               /\ thread'[v].at = "put" \/ (thread'[v].at = "create" /\ thread'[v].msg.kind = "sync") =>
                     NoneOf(buffer', v) /\ \A d \in Threads : NoneOf(thread'[d].batch, v)
    <3>1. CASE v = w
      BY <2>5, <3>1 DEF Kinds
    <3>2. CASE v # w
      BY <1>1, <1>12, <2>1, <2>4, <3>2 DEF SyncIsAlone
    <3> QED
      BY <3>1, <3>2
  <2> QED
    BY <2>2, <2>6, <2>7 DEF SyncIsAlone
<1>16. OrderInv'
  BY <1>1, <1>13, <1>15 DEF OrderInv
<1> QED
  BY <1>8, <1>11, <1>16 DEF Inv

------------------------------------------------------------------------------
(* A batch enters the table *)

(* The table is extended by members of the batch in their order, and has or    *)
(* answers for each of them.                                                   *)
LEMMA InsertEffect ==
    ASSUME rows \in Seq(Message), NEW batch \in Seq(Message), InsertBatch(batch)
    PROVE  /\ rows' \in Seq(Message)
           /\ \A i \in DOMAIN rows : i \in DOMAIN rows' /\ rows'[i] = rows[i]
           /\ \A m : In(m, batch) => Stored(m)'
           /\ Sorted(rows) /\ Sorted(batch) /\ AllBefore(rows, batch) => Sorted(rows')
           /\ \A m : Before(rows, m) /\ Before(batch, m) => Before(rows', m)
           /\ Numbered(rows) /\ Numbered(batch) => Numbered(rows')
<1>0. PICK n \in 0..Len(batch) : \E pick \in [1..n -> DOMAIN batch] :
          /\ \A j, k \in 1..n : j < k => pick[j] < pick[k]
          /\ \A i \in DOMAIN batch :
                (\E k \in 1..n : pick[k] = i) <=>
                   /\ ~Has(rows, batch[i])
                   /\ ~\E k \in 1..n : pick[k] < i /\ SameId(batch[pick[k]], batch[i])
          /\ rows' = rows \o [k \in 1..n |-> batch[pick[k]]]
  BY DEF InsertBatch
<1>1. PICK pick \in [1..n -> DOMAIN batch] :
          /\ \A j, k \in 1..n : j < k => pick[j] < pick[k]
          /\ \A i \in DOMAIN batch :
                (\E k \in 1..n : pick[k] = i) <=>
                   /\ ~Has(rows, batch[i])
                   /\ ~\E k \in 1..n : pick[k] < i /\ SameId(batch[pick[k]], batch[i])
          /\ rows' = rows \o [k \in 1..n |-> batch[pick[k]]]
  BY <1>0
<1> DEFINE picked == [k \in 1..n |-> batch[pick[k]]]
           len == Len(rows)
<1>2. len \in Nat /\ DOMAIN rows = 1..len /\ n \in Nat
  BY LenProperties
<1>3. picked \in Seq(Message) /\ Len(picked) = n /\ \A k \in 1..n : picked[k] = batch[pick[k]]
  <2>1. \A k \in 1..n : batch[pick[k]] \in Message
    BY ElementOfSeq, LenProperties
  <2>2. picked \in [1..n -> Message]
    BY <2>1
  <2> QED
    BY <1>2, <2>2, LenProperties
<1> HIDE DEF picked
<1>4. /\ rows' \in Seq(Message) /\ DOMAIN rows' = 1..(len + n)
      /\ \A i \in 1..len : rows'[i] = rows[i]
      /\ \A k \in 1..n : rows'[len + k] = batch[pick[k]]
  <2>1. rows' = rows \o picked
    BY <1>1 DEF picked
  <2> QED
    BY <1>2, <1>3, <2>1, ConcatProperties, LenProperties
<1> HIDE DEF len
<1>5. \A i \in DOMAIN rows : i \in DOMAIN rows' /\ rows'[i] = rows[i]
  BY <1>2, <1>4
<1>6. \A k \in 1..n : len + k \in DOMAIN rows' /\ pick[k] \in DOMAIN batch
  BY <1>2, <1>4
<1>7. ASSUME NEW i \in DOMAIN rows'
      PROVE  i \in DOMAIN rows \/ (i - len \in 1..n /\ rows'[i] = batch[pick[i - len]] /\ i > len)
  <2>1. i \in 1..len \/ (i - len \in 1..n /\ i = len + (i - len) /\ i > len)
    BY <1>2, <1>4
  <2> QED
    BY <1>2, <1>4, <2>1
<1>8. ASSUME NEW i \in DOMAIN batch
      PROVE  Stored(batch[i])'
  <2>1. CASE \E k \in 1..n : pick[k] = i
    BY <1>4, <1>6, <2>1 DEF Stored
  <2>2. CASE Has(rows, batch[i])
    <3>1. PICK j \in DOMAIN rows : SameId(rows[j], batch[i])
      BY <2>2 DEF Has
    <3> QED
      BY <1>5, <3>1 DEF Stored
  <2>3. CASE \E k \in 1..n : pick[k] < i /\ SameId(batch[pick[k]], batch[i])
    <3>1. PICK k \in 1..n : SameId(batch[pick[k]], batch[i])
      BY <2>3
    <3> QED
      BY <1>4, <1>6, <3>1 DEF Stored
  <2> QED
    BY <1>1, <2>1, <2>2, <2>3
<1>9. \A m : In(m, batch) => Stored(m)'
  BY <1>8 DEF In
<1>10. ASSUME Sorted(rows), Sorted(batch), AllBefore(rows, batch)
       PROVE  Sorted(rows')
  <2> SUFFICES ASSUME NEW i \in DOMAIN rows', NEW j \in DOMAIN rows', i < j, Mine(rows'[i], rows'[j])
               PROVE  rows'[i].n < rows'[j].n
    BY DEF Sorted
  <2>1. CASE i \in DOMAIN rows /\ j \in DOMAIN rows
    BY <1>5, <1>10, <2>1 DEF Sorted
  <2>2. CASE i \in DOMAIN rows /\ j \notin DOMAIN rows
    BY <1>5, <1>6, <1>7, <1>10, <2>2 DEF AllBefore, Before
  <2>3. CASE i \notin DOMAIN rows
    <3>1. i > len /\ i - len \in 1..n /\ rows'[i] = batch[pick[i - len]]
      BY <1>7, <2>3
    <3>2. j \notin DOMAIN rows
      BY <1>2, <1>4, <3>1
    <3>3. j - len \in 1..n /\ rows'[j] = batch[pick[j - len]] /\ i - len < j - len
      BY <1>2, <1>4, <1>7, <3>2
    <3>4. pick[i - len] < pick[j - len]
      BY <1>1, <3>1, <3>3
    <3> QED
      BY <1>6, <1>10, <3>1, <3>3, <3>4 DEF Sorted
  <2> QED
    BY <2>1, <2>2, <2>3
<1>11. ASSUME NEW m, Before(rows, m), Before(batch, m)
       PROVE  Before(rows', m)
  BY <1>5, <1>6, <1>7, <1>11 DEF Before
<1>12. ASSUME Numbered(rows), Numbered(batch)
       PROVE  Numbered(rows')
  BY <1>5, <1>6, <1>7, <1>12 DEF Numbered
<1> QED
  BY <1>4, <1>5, <1>9, <1>10, <1>11, <1>12

(* A goroutine that adds to the table, or lost what it would have added. *)
LEMMA TableStep ==
    ASSUME Inv, NEW t \in Threads, OnlyMoves(t), UNCHANGED <<buffer, calls, accepted, closed>>, Grows,
           rows' \in Seq(Message), lock' \in Threads \union {None}, failed' \subseteq Message, shown' \subseteq Message,
           thread'[t].batch = <<>>, thread'[t].at \notin Flushing,
           \A m : In(m, thread[t].batch) => Settled(m)',
           Purpose(thread'[t]) \in Unput => Purpose(thread[t]) \in Unput /\ thread'[t].msg = thread[t].msg,
           Numbered(rows'),
           ~closed =>
               /\ Sorted(rows') /\ AllBefore(rows', buffer)
               /\ \A d \in Threads \ {t} : AllBefore(rows', thread[d].batch)
               /\ \A w \in Writers : Purpose(thread'[w]) \in Unput => Before(rows', thread'[w].msg),
           ~closed /\ (thread'[t].at = "put" \/ (thread'[t].at = "create" /\ thread'[t].msg.kind = "sync")) =>
               NoneOf(buffer, t) /\ \A d \in Threads : NoneOf(thread'[d].batch, t),
           SyncSettles(t)',
           \A m \in shown' : m \in shown \/ Stored(m)' \/ m \in failed'
    PROVE  Inv'
<1>1. TypeInv'
  <2>1. /\ buffer' \in Seq(Message) /\ closed' \in BOOLEAN /\ calls' \in 0..MaxCalls /\ calls <= calls'
        /\ accepted' \subseteq Message
    BY BoundsAssumption DEF Inv, TypeInv
  <2> QED
    BY <2>1, TypeStays DEF Inv
<1>2. \A m \in accepted : In(m, buffer) \/ In(m, thread[t].batch) => Found(m)'
  BY DEF Found, In
<1>3. VisibleInv'
  BY <1>2, VisibleStays
<1>4. \A d \in Threads : thread'[d].batch \in {thread[d].batch, <<>>}
  BY DEF OnlyMoves
<1>5. AllNumbered'
  BY <1>4, EmptyInOrder DEF Inv, OrderInv, AllNumbered, Numbered
<1>6. ASSUME ~closed
      PROVE  PipelineSorted' /\ NewIsLast' /\ SyncIsAlone'
  <2>1. PipelineSorted /\ NewIsLast /\ SyncIsAlone
    BY <1>6 DEF Inv, OrderInv
  <2>2. PipelineSorted'
    <3>1. \A d \in Threads : Sorted(thread'[d].batch) /\ AllBefore(thread'[d].batch, buffer)
      BY <1>4, <2>1, EmptyInOrder DEF PipelineSorted
    <3>2. ASSUME NEW d \in Threads PROVE AllBefore(rows', thread'[d].batch)
      <4>1. CASE d = t
        BY <4>1, EmptyInOrder
      <4>2. CASE d # t
        BY <1>6, <4>2 DEF OnlyMoves
      <4> QED
        BY <4>1, <4>2
    <3> QED
      BY <1>6, <2>1, <3>1, <3>2 DEF PipelineSorted
  <2>3. ASSUME NEW w \in Writers, Purpose(thread'[w]) \in Unput
        PROVE  Before(buffer, thread'[w].msg) /\ \A d \in Threads : Before(thread'[d].batch, thread'[w].msg)
    <3>1. Purpose(thread[w]) \in Unput /\ thread'[w].msg = thread[w].msg
      BY <2>3 DEF OnlyMoves, Threads
    <3> QED
      BY <1>4, <2>1, <3>1, EmptyInOrder DEF NewIsLast
  <2>4. ASSUME NEW w \in Writers
        PROVE  /\ Purpose(thread'[w]) = "put" /\ thread'[w].at = "insert" => NoneOf(buffer', w)
               /\ thread'[w].at = "put" \/ (thread'[w].at = "create" /\ thread'[w].msg.kind = "sync") =>
                     NoneOf(buffer', w) /\ \A d \in Threads : NoneOf(thread'[d].batch, w)
    <3>1. CASE w = t
      BY <1>6, <3>1 DEF Flushing
    <3>2. CASE w # t
      <4>1. thread'[w] = thread[w]
        BY <3>2 DEF OnlyMoves, Threads
      <4> QED
        BY <1>4, <2>1, <4>1, EmptyInOrder DEF SyncIsAlone
    <3> QED
      BY <3>1, <3>2
  <2> QED
    BY <1>6, <2>2, <2>3, <2>4 DEF NewIsLast, SyncIsAlone
<1>7. OrderInv'
  BY <1>5, <1>6 DEF OrderInv
<1> QED
  BY <1>1, <1>3, <1>7 DEF Inv

LEMMA InsertStep ==
    ASSUME Inv, NEW t \in Threads, Insert(t)
    PROVE  Inv'
<1> DEFINE batch == thread[t].batch
<1>1. /\ thread[t].at = "insert" /\ Flushed(t) /\ lock' = None
      /\ UNCHANGED <<buffer, calls, accepted, closed, shown>>
  BY DEF Insert, At, closing
<1>2. /\ TypeInv /\ OnTrack(t) /\ lock = t /\ Purpose(thread[t]) = thread[t].after
      /\ \A d \in Threads \ {t} : thread[d].batch = <<>>
      /\ batch \in Seq(Message) /\ rows \in Seq(Message) /\ buffer \in Seq(Message)
  BY <1>1, Here, Batches DEF LockHeld, Purpose, Flushing, TypeInv
<1>3. Moves(t, thread[t].after, thread[t].msg, <<>>, thread[t].after)
  BY <1>1, <1>2, FlushedEffect DEF TypeInv
<1>4. Purpose(thread'[t]) = thread[t].after
      /\ thread'[t].at \in {"idle", "done", "offerAgain", "put", "return"} /\ thread'[t].msg = thread[t].msg
  BY <1>1, <1>2, <1>3, NamesAssumption DEF Purpose, Moves, OnTrack, Flushing
<1>5. OnlyMoves(t)
  BY <1>1, <1>2, <1>3, <1>4, NamesAssumption
     DEF OnlyMoves, Moves, OnTrack, LockHeld, Threads, OwnPlaces, Kinds, Flushing
<1>6. /\ Grows /\ rows' \in Seq(Message) /\ failed' \subseteq Message
      /\ \A m : In(m, batch) => Stored(m)' \/ m \in failed'
      /\ Numbered(rows')
      /\ ~closed => /\ Sorted(rows')
                    /\ \A m : Before(rows, m) /\ Before(batch, m) => Before(rows', m)
  <2>1. Numbered(rows) /\ Numbered(batch) /\ (~closed => Sorted(rows) /\ Sorted(batch) /\ AllBefore(rows, batch))
    BY DEF Inv, OrderInv, AllNumbered, PipelineSorted
  <2>2. CASE InsertBatch(batch) /\ UNCHANGED <<faults, failed>>
    BY <1>1, <1>2, <2>1, <2>2, InsertEffect DEF Grows, TypeInv
  <2>3. CASE failed' = failed \union Range(batch) /\ UNCHANGED rows
    <3>1. Range(batch) \subseteq Message
      BY <1>2, ElementOfSeq, LenProperties DEF Range
    <3>2. \A m : In(m, batch) => m \in Range(batch)
      BY DEF In, Range
    <3> QED
      BY <1>1, <1>2, <2>1, <2>3, <3>1, <3>2 DEF Grows, TypeInv
  <2> QED
    BY <2>2, <2>3 DEF Insert
<1>7. SyncSettles(t)'
  <2>1. ASSUME thread[t].after = "return", NEW m, m = thread[t].msg
        PROVE  m \in accepted /\ Settled(m)'
    <3>1. m \in accepted /\ (In(m, batch) \/ Settled(m))
      BY <1>1, <1>2, <2>1 DEF Inv, VisibleInv, SyncSettles
    <3>2. Settled(m) => Settled(m)'
      BY <1>6, SettledStays
    <3>3. Settled(m)' <=> (Stored(m)' \/ m \in failed' \/ closed')
      BY DEF Settled
    <3> QED
      BY <1>6, <3>1, <3>2, <3>3
  <2> QED
    BY <1>1, <1>4, <2>1 DEF SyncSettles
<1>8. \A m : In(m, thread[t].batch) => Settled(m)'
  BY <1>6 DEF Settled
<1> HIDE DEF batch
<1>9. ASSUME ~closed
      PROVE  /\ Sorted(rows') /\ AllBefore(rows', buffer)
             /\ \A d \in Threads \ {t} : AllBefore(rows', thread[d].batch)
             /\ \A w \in Writers : Purpose(thread'[w]) \in Unput => Before(rows', thread'[w].msg)
  <2>1. PipelineSorted /\ NewIsLast
    BY <1>9 DEF Inv, OrderInv
  <2>2. AllBefore(rows', buffer)
    BY <1>6, <1>9, <2>1 DEF PipelineSorted, AllBefore, batch
  <2>3. \A d \in Threads \ {t} : AllBefore(rows', thread[d].batch)
    BY <1>2, EmptyInOrder
  <2>4. ASSUME NEW w \in Writers, Purpose(thread'[w]) \in Unput
        PROVE  Before(rows', thread'[w].msg)
    <3>1. Purpose(thread[w]) \in Unput /\ thread'[w].msg = thread[w].msg
      BY <1>2, <1>3, <1>4, <2>4 DEF Moves, Threads
    <3> QED
      BY <1>6, <1>9, <2>1, <3>1 DEF NewIsLast, batch
  <2> QED
    BY <1>6, <1>9, <2>2, <2>3, <2>4
<1>10. ASSUME ~closed, thread'[t].at = "put"
       PROVE  NoneOf(buffer, t) /\ \A d \in Threads : NoneOf(thread'[d].batch, t)
  <2>1. t \in Writers /\ Purpose(thread[t]) = "put"
    BY <1>2, <1>3, <1>10 DEF OnTrack, Moves, Threads
  <2>2. NoneOf(buffer, t)
    BY <1>1, <1>10, <2>1 DEF Inv, OrderInv, SyncIsAlone
  <2>3. \A d \in Threads : thread'[d].batch = <<>>
    BY <1>2, <1>3 DEF Moves
  <2> QED
    BY <2>2, <2>3, EmptyInOrder
<1>11. lock' \in Threads \union {None} /\ shown' \subseteq Message /\ thread'[t].batch = <<>> /\ thread'[t].at \notin Flushing
  BY <1>1, <1>2, <1>3, <1>4 DEF TypeInv, Moves, Flushing
<1>12. thread'[t].at # "create"
  BY <1>4
<1> QED
  BY <1>1, <1>2, <1>4, <1>5, <1>6, <1>7, <1>8, <1>9, <1>10, <1>11, <1>12, TableStep

(* CreateMessage inserts past the buffer. *)
LEMMA CreateMessageStep ==
    ASSUME Inv, NEW w \in Writers, CreateMessage(w)
    PROVE  Inv'
<1>1. /\ thread[w].at = "create" /\ thread[w].at \in OwnPlaces /\ Done(w)
      /\ UNCHANGED <<buffer, lock, calls, accepted, failed, closed>>
  BY DEF CreateMessage, At, OwnPlaces, closing
<1>2. /\ w \in Threads /\ Purpose(thread[w]) = "create" /\ OnTrack(w) /\ thread[w].batch = <<>>
      /\ TypeInv /\ rows \in Seq(Message)
  BY <1>1, WriterPlace DEF Inv, TypeInv
<1>3. PICK m \in Message : m = thread[w].msg
  BY <1>2, InHand DEF Unput
<1>4. m.by = w /\ m.n <= calls /\ m.kind \in {"sync", "direct"}
  BY <1>2, <1>3, InHand DEF Unput, OnTrack
<1>5. OnlyMoves(w) /\ Moves(w, "idle", None, <<>>, "idle") /\ Purpose(thread'[w]) = "idle"
  BY <1>1, Leaves
<1>6. CASE UNCHANGED <<rows, shown>>
  BY <1>1, <1>6, LeaveStep
<1>7. CASE rows' = Append(rows, m) /\ shown' \in {shown, shown \union {m}}
  <2>1. rows' \in Seq(Message) /\ \A i \in DOMAIN rows : i \in DOMAIN rows' /\ rows'[i] = rows[i]
    BY <1>2, <1>7, AppendProperties, LenProperties
  <2>2. Stored(m)'
    <3>1. In(m, rows')
      BY <1>2, <1>7, OneMore
    <3> QED
      BY <3>1 DEF In, Stored
  <2>3. Numbered(rows')
    BY <1>2, <1>4, <1>7, OneMore DEF Inv, OrderInv, AllNumbered
  <2>4. ASSUME ~closed
        PROVE  /\ Sorted(rows') /\ AllBefore(rows', buffer)
               /\ \A d \in Threads \ {w} : AllBefore(rows', thread[d].batch)
               /\ \A v \in Writers : Purpose(thread'[v]) \in Unput => Before(rows', thread'[v].msg)
    <3>1. PipelineSorted /\ NewIsLast /\ SyncIsAlone
      BY <2>4 DEF Inv, OrderInv
    <3>2. Before(rows, m)
      BY <1>2, <1>3, <3>1 DEF NewIsLast, Unput
    <3>3. ASSUME NEW s \in Seq(Message), m.kind = "sync" => NoneOf(s, w)
          PROVE  AllBefore(<<m>>, s)
      <4>1. ASSUME NEW j \in DOMAIN s PROVE ~Mine(m, s[j])
        BY <1>4, <3>3 DEF Mine, Ordered, NoneOf
      <4> QED
        BY <4>1 DEF AllBefore, Before
    <3>4. m.kind = "sync" => NoneOf(buffer, w) /\ \A d \in Threads : NoneOf(thread[d].batch, w)
      BY <1>1, <1>3, <3>1 DEF SyncIsAlone
    <3>5. AllBefore(<<m>>, buffer) /\ \A d \in Threads : AllBefore(<<m>>, thread[d].batch)
      BY <3>3, <3>4, Here DEF Inv, TypeInv
    <3>6. Sorted(rows')
      BY <1>2, <1>7, <3>1, <3>2, OneMore DEF PipelineSorted
    <3>7. \A s \in Seq(Message) : AllBefore(rows, s) /\ AllBefore(<<m>>, s) => AllBefore(rows', s)
      BY <1>2, <1>7, OneMore
    <3>8. AllBefore(rows', buffer) /\ \A d \in Threads : AllBefore(rows', thread[d].batch)
      BY <3>1, <3>5, <3>7, Here DEF PipelineSorted, Inv, TypeInv
    <3>9. ASSUME NEW v \in Writers, Purpose(thread'[v]) \in Unput
          PROVE  Before(rows', thread'[v].msg)
      <4>1. v # w
        BY <1>5, <3>9 DEF Unput, Kinds
      <4>2. thread'[v] = thread[v] /\ thread[v].msg \in Message /\ thread[v].msg.by = v
        BY <1>5, <3>9, <4>1, InHand DEF OnlyMoves, Threads
      <4>3. Before(rows, thread[v].msg) /\ ~Mine(m, thread[v].msg)
        BY <1>4, <3>1, <3>9, <4>1, <4>2 DEF NewIsLast, Mine
      <4>4. \A x \in Message : Before(rows, x) /\ (Mine(m, x) => m.n < x.n) => Before(rows', x)
        BY <1>2, <1>7, OneMore
      <4> QED
        BY <4>2, <4>3, <4>4
    <3> QED
      BY <3>6, <3>8, <3>9
  <2>5. SyncSettles(w)'
    BY <1>5 DEF SyncSettles
  <2>6. thread'[w].batch = <<>> /\ thread'[w].at = "idle" /\ Purpose(thread'[w]) \notin Unput
    BY <1>5 DEF Moves, Unput
  <2>7. Grows /\ failed' \subseteq Message /\ lock' \in Threads \union {None} /\ shown' \subseteq Message
    BY <1>1, <1>2, <1>7, <2>1 DEF Grows, TypeInv
  <2>8. \A x : In(x, thread[w].batch) => Settled(x)'
    BY <1>2 DEF In
  <2>9. \A x \in shown' : x \in shown \/ Stored(x)' \/ x \in failed'
    BY <1>7, <2>2
  <2> QED
    BY <1>1, <1>2, <1>5, <2>1, <2>3, <2>4, <2>5, <2>6, <2>7, <2>8, <2>9, TableStep DEF Flushing
<1> QED
  BY <1>3, <1>6, <1>7 DEF CreateMessage

(* Replayed history is inserted past the buffer, and is not kept in order. *)
LEMMA BulkInsertStep ==
    ASSUME Inv, NEW w \in Writers, BulkInsert(w)
    PROVE  Inv'
<1>1. /\ thread[w].at = "bulk" /\ thread[w].at \in OwnPlaces /\ Done(w)
      /\ UNCHANGED <<buffer, lock, calls, accepted, failed, closed, shown>>
  BY DEF BulkInsert, At, OwnPlaces, closing, history
<1>2. /\ w \in Threads /\ Purpose(thread[w]) = "bulk" /\ OnTrack(w) /\ thread[w].batch = <<>>
      /\ TypeInv /\ rows \in Seq(Message)
  BY <1>1, WriterPlace DEF Inv, TypeInv
<1>3. PICK m \in Message : m = thread[w].msg
  BY <1>2 DEF OnTrack
<1>4. m.n <= calls /\ m.kind = "history"
  BY <1>2, <1>3 DEF OnTrack
<1>5. OnlyMoves(w) /\ Moves(w, "idle", None, <<>>, "idle") /\ Purpose(thread'[w]) = "idle"
  BY <1>1, Leaves
<1>6. CASE UNCHANGED rows
  BY <1>1, <1>6, LeaveStep
<1>7. CASE InsertBatch(<<m>>)
  <2>1. <<m>> \in Seq(Message) /\ DOMAIN <<m>> = {1} /\ <<m>>[1] = m
    BY <1>3
  <2>2. /\ rows' \in Seq(Message) /\ \A i \in DOMAIN rows : i \in DOMAIN rows' /\ rows'[i] = rows[i]
    BY <1>2, <1>7, <2>1, InsertEffect
  <2>3. Numbered(rows')
    <3>1. Numbered(<<m>>)
      BY <1>4, <2>1 DEF Numbered
    <3> QED
      BY <1>2, <1>7, <2>1, <3>1, InsertEffect DEF Inv, OrderInv, AllNumbered
  <2>4. ASSUME ~closed
        PROVE  /\ Sorted(rows') /\ AllBefore(rows', buffer)
               /\ \A d \in Threads \ {w} : AllBefore(rows', thread[d].batch)
               /\ \A v \in Writers : Purpose(thread'[v]) \in Unput => Before(rows', thread'[v].msg)
    <3>1. PipelineSorted /\ NewIsLast
      BY <2>4 DEF Inv, OrderInv
    <3>2. \A x : ~Mine(m, x) /\ ~Mine(x, m)
      BY <1>4 DEF Mine, Ordered
    <3>3. \A x : Before(<<m>>, x)
      BY <2>1, <3>2 DEF Before
    <3>4. Sorted(<<m>>) /\ AllBefore(rows, <<m>>)
      BY <2>1, <3>2 DEF Sorted, AllBefore, Before
    <3>5. Sorted(rows') /\ \A x : Before(rows, x) => Before(rows', x)
      BY <1>2, <1>7, <2>1, <3>1, <3>3, <3>4, InsertEffect DEF PipelineSorted
    <3>6. AllBefore(rows', buffer) /\ \A d \in Threads : AllBefore(rows', thread[d].batch)
      BY <3>1, <3>5 DEF PipelineSorted, AllBefore
    <3>7. ASSUME NEW v \in Writers, Purpose(thread'[v]) \in Unput
          PROVE  Before(rows', thread'[v].msg)
      <4>1. thread'[v] = thread[v]
        BY <1>5, <3>7 DEF OnlyMoves, Threads, Unput, Kinds
      <4> QED
        BY <3>1, <3>5, <3>7, <4>1 DEF NewIsLast
    <3> QED
      BY <3>5, <3>6, <3>7
  <2>5. SyncSettles(w)'
    BY <1>5 DEF SyncSettles
  <2>6. thread'[w].batch = <<>> /\ thread'[w].at = "idle" /\ Purpose(thread'[w]) \notin Unput
    BY <1>5 DEF Moves, Unput
  <2>7. Grows /\ failed' \subseteq Message /\ lock' \in Threads \union {None} /\ shown' \subseteq Message
    BY <1>1, <1>2, <2>2 DEF Grows, TypeInv
  <2>8. \A x : In(x, thread[w].batch) => Settled(x)'
    BY <1>2 DEF In
  <2> QED
    BY <1>1, <1>2, <1>5, <2>2, <2>3, <2>4, <2>5, <2>6, <2>7, <2>8, TableStep DEF Flushing
<1> QED
  BY <1>3, <1>6, <1>7 DEF BulkInsert

------------------------------------------------------------------------------
(* The invariant *)

LEMMA CloseStep ==
    ASSUME Inv, Close
    PROVE  Inv'
<1>1. /\ closed' = TRUE
      /\ UNCHANGED <<buffer, rows, lock, thread, calls, accepted, shown, failed>>
  BY DEF Close, store, history
<1>2. TypeInv'
  BY <1>1 DEF Inv, TypeInv, OnTrack, Purpose, LockHeld
<1>3. \A m : Found(m)' /\ Settled(m)'
  BY <1>1 DEF Found, Settled
<1>4. (\A t \in Threads : SyncSettles(t)') /\ SyncIsVisible'
  BY <1>1 DEF Inv, VisibleInv, SyncSettles, SyncIsVisible, Purpose, Settled, Stored
<1>5. OrderInv'
  BY <1>1 DEF Inv, OrderInv, AllNumbered, Numbered
<1> QED
  BY <1>2, <1>3, <1>4, <1>5 DEF Inv, VisibleInv

(* Nothing the invariant looks at changes. *)
LEMMA NothingMoves ==
    ASSUME Inv, UNCHANGED <<buffer, rows, lock, closed, thread, calls, accepted, shown, failed>>
    PROVE  Inv'
<1>1. TypeInv'
  BY DEF Inv, TypeInv, OnTrack, Purpose, LockHeld
<1>2. VisibleInv'
  BY DEF Inv, VisibleInv, SyncIsVisible, SyncSettles, Purpose, Found, Settled, Stored, In
<1>3. OrderInv'
  BY DEF Inv, OrderInv, AllNumbered, Numbered, PipelineSorted, NewIsLast, SyncIsAlone, Purpose
<1> QED
  BY <1>1, <1>2, <1>3 DEF Inv

LEMMA InitInv == Init => Inv
<1> SUFFICES ASSUME Init PROVE Inv
  OBVIOUS
<1>1. /\ Resting \in ThreadType /\ Purpose(Resting) = "idle"
      /\ Resting.at = "idle" /\ Resting.batch = <<>>
  BY EmptySeq DEF Resting, ThreadType, Places, OwnPlaces, Purpose, Flushing
<1>2. thread \in [Threads -> ThreadType] /\ \A t \in Threads : thread[t] = Resting
  BY <1>1 DEF Init
<1>3. ASSUME NEW t \in Threads PROVE OnTrack(t) /\ LockHeld(t)
  <2>1. lock # t
    BY NamesAssumption DEF Init, Threads
  <2>2. LockHeld(t)
    BY <1>1, <1>2, <2>1 DEF LockHeld
  <2>3. OnTrack(t)
    BY <1>1, <1>2 DEF OnTrack, OwnPlaces, Flushing
  <2> QED
    BY <2>2, <2>3
<1>4. TypeInv
  <2>1. buffer \in Seq(Message) /\ rows \in Seq(Message)
    BY EmptySeq DEF Init
  <2>2. calls \in 0..MaxCalls /\ lock \in Threads \union {None}
    <3>1. calls = 0 /\ lock = None
      BY DEF Init
    <3> QED
      BY <3>1, BoundsAssumption
  <2>3. closed \in BOOLEAN /\ accepted \subseteq Message /\ shown \subseteq Message /\ failed \subseteq Message
    BY DEF Init
  <2> QED
    BY <1>2, <1>3, <2>1, <2>2, <2>3 DEF TypeInv
<1>5. VisibleInv
  BY <1>1, <1>2 DEF Init, VisibleInv, SyncSettles, SyncIsVisible
<1>6. AllNumbered /\ PipelineSorted
  <2>1. buffer = <<>> /\ rows = <<>> /\ \A t \in Threads : thread[t].batch = <<>>
    BY <1>1, <1>2 DEF Init
  <2> QED
    BY <2>1, EmptyInOrder DEF AllNumbered, PipelineSorted
<1>7. NewIsLast /\ SyncIsAlone
  BY <1>1, <1>2 DEF NewIsLast, SyncIsAlone, Unput, Threads
<1> QED
  BY <1>4, <1>5, <1>6, <1>7 DEF Inv, OrderInv

LEMMA WriterStepInv ==
    ASSUME Inv, NEW w \in Writers, WriterStep(w)
    PROVE  Inv'
<1>1. CASE WriteMessage(w)
  <2>1. CASE UNCHANGED <<buffer, accepted>>
    BY <1>1, <2>1, WriteMessageStep
  <2>2. CASE Put(w) /\ Done(w)
    BY <1>1, <2>2, PutAndLeaveStep DEF WriteMessage, At, closing
  <2> QED
    BY <1>1, <2>1, <2>2 DEF WriteMessage
<1>2. CASE OfferAgain(w)
  <2>1. CASE UNCHANGED <<buffer, accepted>>
    BY <1>2, <2>1, OfferAgainStep
  <2>2. CASE Put(w) /\ Done(w)
    BY <1>2, <2>2, PutAndLeaveStep DEF OfferAgain, At, closing
  <2> QED
    BY <1>2, <2>1, <2>2 DEF OfferAgain
<1>3. CASE PutSync(w)
  <2>1. /\ thread[w].at = "put" /\ UNCHANGED <<rows, calls, failed, shown, closed, lock>>
    BY <1>3 DEF PutSync, At, closing
  <2>2. CASE Put(w) /\ FlushThen(w, "return")
    BY <2>1, <2>2, PutAndFlushStep
  <2>3. CASE Goto(w, "create") /\ UNCHANGED <<buffer, accepted>>
    BY <2>1, <2>3, PutSyncPassesByStep DEF At
  <2> QED
    BY <1>3, <2>2, <2>3 DEF PutSync
<1> QED
  BY <1>1, <1>2, <1>3, WriteMessageSyncStep, ReturnSyncStep, WriteMessageDirectStep, CreateMessageStep,
     WriteHistoryMessagesStep, BulkInsertStep DEF WriterStep

LEMMA NextInv == Inv /\ [Next]_vars => Inv'
<1> SUFFICES ASSUME Inv, [Next]_vars PROVE Inv'
  OBVIOUS
<1>1. CASE \E t \in Threads : FlushStep(t)
  BY <1>1, StartFlushStep, DrainStep, DrainedStep, InsertStep DEF FlushStep
<1>2. CASE \E w \in Writers : WriterStep(w)
  BY <1>2, WriterStepInv
<1>3. CASE \E w \in Writers, kind \in Kinds, id \in MsgIds \union {None} : Write(w, kind, id)
  BY <1>3, WriteStep
<1>4. CASE Tick \/ FinalFlush
  BY <1>4, LoopStep
<1>5. CASE Close
  BY <1>5, CloseStep
<1>6. CASE StopLoop \/ CloseDatabase
  BY <1>6, NothingMoves DEF StopLoop, CloseDatabase, store, history
<1>7. CASE UNCHANGED vars
  BY <1>7, NothingMoves DEF vars, store, closing, history
<1> QED
  BY <1>1, <1>2, <1>3, <1>4, <1>5, <1>6, <1>7 DEF Next

(* What WriteMessageSync and CreateMessage rely on: the message of a call that  *)
(* returned without an error can be read back, or its batch failed, whoever's   *)
(* flush took it.                                                               *)
THEOREM ReturnedIsVisible == SafetySpec => []SyncIsVisible
<1>1. Inv => SyncIsVisible
  BY DEF Inv, VisibleInv
<1> QED
  BY <1>1, InitInv, NextInv, PTL DEF SafetySpec

(* WriteMessage, WriteMessageSync and flushBuffer together keep each writer's   *)
(* messages in the order of its calls, across flushes that several goroutines   *)
(* begin and inserts that go past a full buffer, for as long as the storage is  *)
(* open.                                                                        *)
THEOREM OrderIsKept == SafetySpec => []OrderKept
<1>1. Inv => OrderKept
  BY DEF Inv, OrderInv, PipelineSorted, Sorted, Mine, OrderKept
<1> QED
  BY <1>1, InitInv, NextInv, PTL DEF SafetySpec
=============================================================================
