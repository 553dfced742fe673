---------------------------- MODULE EventBusProofs ----------------------------
(***************************************************************************)
(* Theorems about EventBus, for every number of emitters, keys and         *)
(* subscribers and every queue size.                                       *)
(***************************************************************************)
EXTENDS EventBus, SequenceTheorems, TLAPS

(* deliver runs only with an event in hand.  Without this the type of what a *)
(* subscriber is called with is not inductive.                               *)
EventInHand ==
    dispatcher \in {"rearm", "snap", "call"} => current.lane \in Lanes

TypeInv == TypeOK /\ EventInHand

------------------------------------------------------------------------------
(* What the event in hand is made of. *)
LEMMA EventFields ==
    ASSUME current \in Events
    PROVE  /\ current.lane \in {"none"} \union Lanes
           /\ current.lane = "ordinary" => current.ticket \in Nat
           /\ current.lane = "snapshot" => current.key \in Keys /\ current.version \in Nat
  BY DEF Events, NoEvent, Lanes

(* Unsubscribe leaves a list of subscribers. *)
LEMMA RemoveAtIsSeq ==
    ASSUME NEW S, NEW seq \in Seq(S), NEW i \in DOMAIN seq
    PROVE  SubSeq(seq, 1, i - 1) \o SubSeq(seq, i + 1, Len(seq)) \in Seq(S)
<1>1. i \in 1 .. Len(seq) /\ Len(seq) \in Nat
  BY LenProperties
<1>2. SubSeq(seq, 1, i - 1) \in Seq(S)
  BY <1>1, SubSeqProperties, ElementOfSeq
<1>3. SubSeq(seq, i + 1, Len(seq)) \in Seq(S)
  BY <1>1, SubSeqProperties, ElementOfSeq
<1> QED
  BY <1>2, <1>3, ConcatProperties

(* Both ways of taking an ordinary event. *)
LEMMA TakeOrdinaryType ==
    ASSUME TypeInv, TakeOrdinary
    PROVE  TypeInv'
<1> USE DEF TypeInv, TypeOK, EventInHand
<1>1. Head(queue) \in Nat /\ Tail(queue) \in Seq(Nat) /\ Len(Tail(queue)) = Len(queue) - 1
  BY HeadTailProperties DEF TakeOrdinary
<1>2. Len(Tail(queue)) <= QueueSize
  BY <1>1, QueueSizeAssumption, LenProperties
<1>3. Ordinary(Head(queue)) \in Events /\ Ordinary(Head(queue)).lane \in Lanes
  BY <1>1 DEF Ordinary, Events, Lanes
<1> QED
  BY <1>1, <1>2, <1>3 DEF TakeOrdinary

(* Subscribe and Unsubscribe keep the subscriber lists lists of subscribers. *)
LEMMA SubscriptionType ==
    ASSUME TypeInv, NEW s \in Subscribers, NEW t \in Types,
           Subscribe(s, t) \/ Unsubscribe(s, t)
    PROVE  TypeInv'
<1> USE DEF TypeInv, TypeOK, EventInHand, lanes, loop, history
<1>1. CASE Subscribe(s, t)
  <2>1. Append(subscribers[t], s) \in Seq(Subscribers)
    BY AppendProperties
  <2> QED
    BY <1>1, <2>1 DEF Subscribe
<1>2. CASE Unsubscribe(s, t)
  <2>1. PICK i \in DOMAIN subscribers[t] :
           subscribers' = [subscribers EXCEPT ![t] =
                             SubSeq(@, 1, i - 1) \o SubSeq(@, i + 1, Len(@))]
    BY <1>2 DEF Unsubscribe
  <2>2. SubSeq(subscribers[t], 1, i - 1)
          \o SubSeq(subscribers[t], i + 1, Len(subscribers[t])) \in Seq(Subscribers)
    BY RemoveAtIsSeq
  <2>3. subscribers' \in [Types -> Seq(Subscribers)]
    BY <2>1, <2>2
  <2> QED
    BY <1>2, <2>3 DEF Unsubscribe
<1> QED
  BY <1>1, <1>2

(* The goroutines that call Emit, EmitLatest and Close keep every type; a send *)
(* never grows the channel past its capacity.                                  *)
LEMMA CallersType ==
    ASSUME TypeInv,
           \/ \E e \in Emitters : EmitCheck(e) \/ EmitStep(e)
           \/ \E u \in Updaters : EmitLatestSignal(u) \/ \E k \in Keys : EmitLatestStore(u, k)
           \/ Close
    PROVE  TypeInv'
<1> USE DEF TypeInv, TypeOK, EventInHand, lanes, loop, history
<1>1. ASSUME NEW e \in Emitters, EmitCheck(e) PROVE TypeInv'
  BY <1>1 DEF EmitCheck
<1>2. ASSUME NEW e \in Emitters, EmitSend(e) PROVE TypeInv'
  <2>1. Append(queue, accepted + 1) \in Seq(Nat)
        /\ Len(Append(queue, accepted + 1)) = Len(queue) + 1
    BY AppendProperties
  <2>2. Len(queue) + 1 <= QueueSize
    BY <1>2, QueueSizeAssumption, LenProperties DEF EmitSend
  <2> QED
    BY <1>2, <2>1, <2>2 DEF EmitSend
<1>3. ASSUME NEW e \in Emitters, EmitReleased(e) PROVE TypeInv'
  BY <1>3 DEF EmitReleased
<1>4. ASSUME NEW u \in Updaters, EmitLatestSignal(u) PROVE TypeInv'
  BY <1>4 DEF EmitLatestSignal
<1>5. ASSUME NEW u \in Updaters, NEW k \in Keys, EmitLatestStore(u, k) PROVE TypeInv'
  <2>1. Append(latestOrder, k) \in Seq(Keys)
    BY AppendProperties
  <2>2. version' \in [Keys -> Nat] /\ latest' \in [Keys -> Nat]
    BY <1>5 DEF EmitLatestStore
  <2> QED
    BY <1>5, <2>1, <2>2 DEF EmitLatestStore
<1>6. CASE Close
  BY <1>6 DEF Close
<1> QED
  BY <1>1, <1>2, <1>3, <1>4, <1>5, <1>6 DEF EmitStep

(* dispatchLoop keeps every type, and goes to deliver with an event in hand. *)
LEMMA DispatchType ==
    ASSUME TypeInv, Dispatch
    PROVE  TypeInv'
<1> USE DEF TypeInv, TypeOK, EventInHand, lanes, loop, history
<1>1. CASE PollReceive \/ SelectReceive
  BY <1>1, TakeOrdinaryType DEF PollReceive, SelectReceive
<1>2. CASE PollEmpty \/ SelectReady \/ SelectDone \/ PopNothing
  BY <1>2 DEF PollEmpty, SelectReady, SelectDone, PopNothing
<1>3. CASE PopLatest
  <2>1. Head(latestOrder) \in Keys /\ Tail(latestOrder) \in Seq(Keys)
    BY <1>3, HeadTailProperties DEF PopLatest
  <2>2. Snapshot(Head(latestOrder), latest[Head(latestOrder)]) \in Events
        /\ Snapshot(Head(latestOrder), latest[Head(latestOrder)]).lane \in Lanes
    BY <2>1 DEF Snapshot, Events, Lanes
  <2>3. latest' \in [Keys -> Nat] /\ overtakes' \in Nat
    BY <1>3, <2>1 DEF PopLatest
  <2>4. dispatcher' \in {"rearm", "snap"}
    BY <1>3 DEF PopLatest
  <2>5. current' \in Events /\ current'.lane \in Lanes
    BY <1>3, <2>2 DEF PopLatest
  <2> QED
    BY <1>3, <2>1, <2>3, <2>4, <2>5 DEF PopLatest
<1>4. CASE Rearm
  BY <1>4 DEF Rearm
<1>5. CASE DeliverSnapshot
  <2>1. subscribers[current.lane] \in Seq(Subscribers) /\ subscribers["*"] \in Seq(Subscribers)
    BY <1>5 DEF DeliverSnapshot, Types
  <2>2. subscribers[current.lane] \o subscribers["*"] \in Seq(Subscribers)
    BY <2>1, ConcatProperties
  <2> QED
    BY <1>5, <2>2 DEF DeliverSnapshot
<1>6. ASSUME NEW s \in Subscribers, Call(s) PROVE TypeInv'
  <2>1. Tail(targets) \in Seq(Subscribers)
    BY <1>6, HeadTailProperties DEF Call
  <2>2. CASE current.lane = "ordinary"
    <3>1. seen' \in [Subscribers -> Nat]
      BY <1>6, <2>2, EventFields DEF Call
    <3> QED
      BY <1>6, <2>1, <2>2, <3>1 DEF Call
  <2>3. CASE current.lane # "ordinary"
    <3>1. current.key \in Keys /\ current.version \in Nat
      BY <1>6, <2>3, EventFields DEF Call, Lanes
    <3>2. [seenVersion[s] EXCEPT ![current.key] = current.version] \in [Keys -> Nat]
      BY <3>1
    <3>3. seenVersion' \in [Subscribers -> [Keys -> Nat]]
      BY <1>6, <2>3, <3>2 DEF Call
    <3> QED
      BY <1>6, <2>1, <2>3, <3>3 DEF Call
  <2> QED
    BY <2>2, <2>3
<1>7. CASE DeliverDone
  BY <1>7 DEF DeliverDone, Events, NoEvent
<1> QED
  BY <1>1, <1>2, <1>3, <1>4, <1>5, <1>6, <1>7 DEF Dispatch

(* The inductive invariant under all the others. *)
LEMMA TypeInvariant == SafetySpec => []TypeInv
<1>1. Init => TypeInv
  <2> SUFFICES ASSUME Init PROVE TypeInv
    OBVIOUS
  <2>1. queue \in Seq(Nat) /\ Len(queue) <= QueueSize
    BY QueueSizeAssumption, EmptySeq DEF Init
  <2>2. latestOrder \in Seq(Keys) /\ targets \in Seq(Subscribers)
        /\ subscribers \in [Types -> Seq(Subscribers)]
    BY EmptySeq DEF Init
  <2>3. current \in Events
    BY DEF Init, Events
  <2> QED
    BY <2>1, <2>2, <2>3 DEF Init, TypeInv, TypeOK, EventInHand
<1>2. TypeInv /\ [Next]_vars => TypeInv'
  <2> SUFFICES ASSUME TypeInv, [Next]_vars PROVE TypeInv'
    OBVIOUS
  <2>1. CASE Next
    BY <2>1, SubscriptionType, CallersType, DispatchType DEF Next
  <2>2. CASE UNCHANGED vars
    BY <2>2 DEF vars, lanes, loop, history, TypeInv, TypeOK, EventInHand, Events, Lanes
  <2> QED
    BY <2>1, <2>2
<1> QED
  BY <1>1, <1>2, PTL DEF SafetySpec

(* Every channel, list and program counter of the bus keeps to what the code *)
(* puts into it; in particular the queue never exceeds its capacity.         *)
THEOREM TypeCorrect == SafetySpec => []TypeOK
<1>1. TypeInv => TypeOK
  BY DEF TypeInv
<1> QED
  BY <1>1, TypeInvariant, PTL

------------------------------------------------------------------------------
(* The wake-up token *)

(* NoLostWakeup is inductive as it stands: a step that leaves a key pending  *)
(* without the token hands the duty to the next one in the list.             *)
THEOREM NoWakeupIsLost == SafetySpec => []NoLostWakeup
<1>1. Init => NoLostWakeup
  BY DEF Init, NoLostWakeup
<1>2. TypeInv /\ NoLostWakeup /\ [Next]_vars => NoLostWakeup'
  <2> SUFFICES ASSUME TypeInv, NoLostWakeup, [Next]_vars PROVE NoLostWakeup'
    OBVIOUS
  <2> USE DEF NoLostWakeup, lanes, loop, history
  <2>1. ASSUME NEW s \in Subscribers, NEW t \in Types, Subscribe(s, t) \/ Unsubscribe(s, t)
        PROVE  NoLostWakeup'
    BY <2>1 DEF Subscribe, Unsubscribe
  <2>2. ASSUME NEW e \in Emitters, EmitCheck(e) \/ EmitStep(e) PROVE NoLostWakeup'
    BY <2>2 DEF EmitCheck, EmitStep, EmitSend, EmitReleased
  <2>3. ASSUME NEW u \in Updaters, EmitLatestSignal(u) PROVE NoLostWakeup'
    BY <2>3 DEF EmitLatestSignal
  <2>4. ASSUME NEW u \in Updaters, NEW k \in Keys, EmitLatestStore(u, k) PROVE NoLostWakeup'
    <3>1. updater'[u] = "signal"
      BY <2>4 DEF EmitLatestStore, TypeInv, TypeOK
    <3> QED
      BY <3>1
  <2>5. CASE Close
    BY <2>5 DEF Close
  <2>6. CASE PollReceive \/ SelectReceive \/ PollEmpty \/ SelectDone
    BY <2>6 DEF PollReceive, SelectReceive, PollEmpty, SelectDone, TakeOrdinary
  <2>7. CASE SelectReady
    BY <2>7 DEF SelectReady
  <2>8. CASE PopNothing \/ PopLatest
    BY <2>8 DEF PopNothing, PopLatest
  <2>9. CASE Rearm
    BY <2>9 DEF Rearm
  <2>10. CASE DeliverSnapshot \/ DeliverDone
    BY <2>10 DEF DeliverSnapshot, DeliverDone
  <2>11. ASSUME NEW s \in Subscribers, Call(s) PROVE NoLostWakeup'
    BY <2>11 DEF Call
  <2>12. CASE UNCHANGED vars
    BY <2>12 DEF vars
  <2> QED
    BY <2>1, <2>2, <2>3, <2>4, <2>5, <2>6, <2>7, <2>8, <2>9, <2>10, <2>11, <2>12
       DEF Next, Dispatch
<1> QED
  BY <1>1, <1>2, TypeInvariant, PTL DEF SafetySpec

------------------------------------------------------------------------------
(* The coalescing lane *)

(* A key joins the order list at its end. *)
LEMMA ElementsOfAppend ==
    ASSUME NEW S, NEW seq \in Seq(S), NEW e \in S
    PROVE  Elements(Append(seq, e)) = Elements(seq) \union {e}
  BY AppendProperties, LenProperties DEF Elements

Distinct(seq) == \A i, j \in DOMAIN seq : seq[i] = seq[j] => i = j

(* A key that is not in the order list may join it without being there twice. *)
LEMMA DistinctAppend ==
    ASSUME NEW S, NEW seq \in Seq(S), NEW e \in S, Distinct(seq), e \notin Elements(seq)
    PROVE  Distinct(Append(seq, e))
  BY AppendProperties, LenProperties DEF Elements, Distinct

(* popLatest removes the first key of the order list, and all of it. *)
LEMMA ElementsOfTail ==
    ASSUME NEW S, NEW seq \in Seq(S), seq # <<>>, Distinct(seq)
    PROVE  /\ Head(seq) \in Elements(seq)
           /\ Elements(Tail(seq)) = Elements(seq) \ {Head(seq)}
           /\ Distinct(Tail(seq))
<1>1. /\ Len(seq) \in Nat \ {0} /\ DOMAIN seq = 1 .. Len(seq)
      /\ Head(seq) = seq[1]
      /\ DOMAIN Tail(seq) = 1 .. Len(seq) - 1
      /\ \A i \in 1 .. Len(seq) - 1 : Tail(seq)[i] = seq[i + 1]
  BY HeadTailProperties, LenProperties, EmptySeq
<1>2. Head(seq) \in Elements(seq)
  BY <1>1 DEF Elements
<1>3. Elements(Tail(seq)) \subseteq Elements(seq) \ {Head(seq)}
  BY <1>1 DEF Elements, Distinct
<1>4. ASSUME NEW i \in DOMAIN seq, seq[i] # Head(seq)
      PROVE  seq[i] \in Elements(Tail(seq))
  <2>1. i - 1 \in 1 .. Len(seq) - 1 /\ Tail(seq)[i - 1] = seq[i]
    BY <1>1, <1>4
  <2> QED
    BY <1>1, <2>1 DEF Elements
<1>5. Distinct(Tail(seq))
  BY <1>1 DEF Distinct
<1> QED
  BY <1>2, <1>3, <1>4, <1>5 DEF Elements

LaneInv == LaneConsistent /\ PendingIsNewest

(* Steps that do not touch the lane. *)
LEMMA LaneUntouched ==
    ASSUME LaneInv, UNCHANGED <<latest, latestOrder, version>>
    PROVE  LaneInv'
  BY DEF LaneInv, LaneConsistent, PendingIsNewest, Pending, Elements

(* EmitLatest writes the map and the order list as one. *)
LEMMA StoreKeepsLane ==
    ASSUME TypeInv, LaneInv, NEW u \in Updaters, NEW k \in Keys, EmitLatestStore(u, k)
    PROVE  LaneInv'
<1> USE DEF TypeInv, TypeOK
<1>1. /\ version' = [version EXCEPT ![k] = version[k] + 1]
      /\ latest' = [latest EXCEPT ![k] = version'[k]]
      /\ version'[k] # 0 /\ latest'[k] = version'[k]
      /\ \A j \in Keys \ {k} : latest'[j] = latest[j] /\ version'[j] = version[j]
  BY DEF EmitLatestStore
<1>2. Pending' = Pending \union {k} /\ Distinct(latestOrder')
  <2>1. Distinct(latestOrder)
    BY DEF LaneInv, LaneConsistent, Distinct
  <2>2. CASE k \in Pending
    BY <2>1, <2>2 DEF EmitLatestStore, Pending, Elements
  <2>3. CASE k \notin Pending
    <3>1. latestOrder' = Append(latestOrder, k)
      BY <2>3 DEF EmitLatestStore
    <3> QED
      BY <2>1, <2>3, <3>1, ElementsOfAppend, DistinctAppend DEF Pending
  <2> QED
    BY <2>2, <2>3
<1>3. LaneConsistent'
  BY <1>1, <1>2 DEF LaneInv, LaneConsistent, Distinct
<1>4. PendingIsNewest'
  <2>1. Pending \subseteq Keys
    BY ElementOfSeq, LenProperties DEF Pending, Elements
  <2> QED
    BY <1>1, <1>2, <2>1 DEF LaneInv, PendingIsNewest
<1> QED
  BY <1>3, <1>4 DEF LaneInv

(* popLatest clears the map and the order list as one. *)
LEMMA PopKeepsLane ==
    ASSUME TypeInv, LaneInv, PopLatest
    PROVE  LaneInv'
<1> USE DEF TypeInv, TypeOK
<1> DEFINE key == Head(latestOrder)
<1>1. /\ latestOrder # <<>> /\ latestOrder' = Tail(latestOrder)
      /\ latest' = [latest EXCEPT ![key] = 0] /\ version' = version
  BY DEF PopLatest
<1>2. key \in Keys /\ Pending \subseteq Keys
  BY <1>1, HeadTailProperties, ElementOfSeq, LenProperties DEF Pending, Elements
<1>3. Pending' = Pending \ {key} /\ Distinct(latestOrder')
  <2>1. Distinct(latestOrder)
    BY DEF LaneInv, LaneConsistent, Distinct
  <2> QED
    BY <1>1, <2>1, ElementsOfTail DEF Pending
<1>4. latest'[key] = 0 /\ \A j \in Keys \ {key} : latest'[j] = latest[j]
  BY <1>1, <1>2
<1> HIDE DEF key
<1>5. LaneConsistent'
  BY <1>2, <1>3, <1>4 DEF LaneInv, LaneConsistent, Distinct
<1>6. PendingIsNewest'
  BY <1>1, <1>2, <1>3, <1>4 DEF LaneInv, PendingIsNewest
<1> QED
  BY <1>5, <1>6 DEF LaneInv

(* The map and the order list agree in every behaviour of the bus. *)
LEMMA LaneInvariant == SafetySpec => []LaneInv
<1>1. Init => LaneInv
  BY DEF Init, LaneInv, LaneConsistent, PendingIsNewest, Pending, Elements
<1>2. TypeInv /\ LaneInv /\ [Next]_vars => LaneInv'
  <2> SUFFICES ASSUME TypeInv, LaneInv, [Next]_vars PROVE LaneInv'
    OBVIOUS
  <2> USE LaneUntouched DEF lanes, loop, history
  <2>1. ASSUME NEW s \in Subscribers, NEW t \in Types, Subscribe(s, t) \/ Unsubscribe(s, t)
        PROVE  LaneInv'
    BY <2>1 DEF Subscribe, Unsubscribe
  <2>2. ASSUME NEW e \in Emitters, EmitCheck(e) \/ EmitStep(e) PROVE LaneInv'
    BY <2>2 DEF EmitCheck, EmitStep, EmitSend, EmitReleased
  <2>3. ASSUME NEW u \in Updaters, EmitLatestSignal(u) PROVE LaneInv'
    BY <2>3 DEF EmitLatestSignal
  <2>4. ASSUME NEW u \in Updaters, NEW k \in Keys, EmitLatestStore(u, k) PROVE LaneInv'
    BY <2>4, StoreKeepsLane
  <2>5. CASE Close
    BY <2>5 DEF Close
  <2>6. CASE PollReceive \/ SelectReceive
    BY <2>6 DEF PollReceive, SelectReceive, TakeOrdinary
  <2>7. CASE PollEmpty \/ SelectDone \/ SelectReady \/ PopNothing \/ Rearm
    BY <2>7 DEF PollEmpty, SelectDone, SelectReady, PopNothing, Rearm
  <2>8. CASE PopLatest
    BY <2>8, PopKeepsLane
  <2>9. CASE DeliverSnapshot \/ DeliverDone
    BY <2>9 DEF DeliverSnapshot, DeliverDone
  <2>10. ASSUME NEW s \in Subscribers, Call(s) PROVE LaneInv'
    BY <2>10 DEF Call
  <2>11. CASE UNCHANGED vars
    BY <2>11 DEF vars
  <2> QED
    BY <2>1, <2>2, <2>3, <2>4, <2>5, <2>6, <2>7, <2>8, <2>9, <2>10, <2>11 DEF Next, Dispatch
<1> QED
  BY <1>1, <1>2, TypeInvariant, PTL DEF SafetySpec

(* The map and the order list of the coalescing lane always agree, so no     *)
(* snapshot is stranded in the map or delivered empty.                       *)
THEOREM LaneIsConsistent == SafetySpec => []LaneConsistent
<1>1. LaneInv => LaneConsistent
  BY DEF LaneInv
<1> QED
  BY <1>1, LaneInvariant, PTL

(* Coalescing never loses the last value published for a key. *)
THEOREM LastWriteWins == SafetySpec => []PendingIsNewest
<1>1. LaneInv => PendingIsNewest
  BY DEF LaneInv
<1> QED
  BY <1>1, LaneInvariant, PTL

------------------------------------------------------------------------------
(* The ordered lane *)

(* QueueIsBacklog with what its subtractions need. *)
QueueInv == QueueIsBacklog /\ Len(queue) <= accepted

(* Steps that do not touch the ordered lane. *)
LEMMA QueueUntouched ==
    ASSUME QueueInv, UNCHANGED <<queue, accepted, seen, current>>
    PROVE  QueueInv'
  BY DEF QueueInv, QueueIsBacklog

(* A new subscriber has seen nothing, so it is not ahead of the dispatcher. *)
LEMMA SubscriptionKeepsQueue ==
    ASSUME TypeInv, QueueInv, NEW s \in Subscribers, NEW t \in Types,
           Subscribe(s, t) \/ Unsubscribe(s, t)
    PROVE  QueueInv'
<1> USE DEF TypeInv, TypeOK, lanes, loop, history
<1>1. UNCHANGED <<queue, accepted, current>>
  BY DEF Subscribe, Unsubscribe
<1>2. \A r \in Subscribers : seen'[r] = seen[r] \/ seen'[r] = 0
  BY DEF Subscribe, Unsubscribe
<1>3. accepted - Len(queue) >= 0
  BY LenProperties DEF QueueInv
<1> QED
  BY <1>1, <1>2, <1>3 DEF QueueInv, QueueIsBacklog

(* Emit's ticket is the next one behind those that wait. *)
LEMMA SendKeepsQueue ==
    ASSUME TypeInv, QueueInv, NEW e \in Emitters, EmitSend(e)
    PROVE  QueueInv'
<1> USE DEF TypeInv, TypeOK
<1>1. Len(queue) \in Nat /\ DOMAIN queue = 1 .. Len(queue)
  BY LenProperties
<1>2. /\ queue' = Append(queue, accepted + 1) /\ accepted' = accepted + 1
      /\ seen' = seen /\ current' = current
  BY DEF EmitSend, loop
<1>3. /\ Len(queue') = Len(queue) + 1 /\ DOMAIN queue' = 1 .. Len(queue) + 1
      /\ \A i \in 1 .. Len(queue) : queue'[i] = queue[i]
      /\ queue'[Len(queue) + 1] = accepted + 1
  BY <1>2, AppendProperties, LenProperties
<1>4. accepted' - Len(queue') = accepted - Len(queue) /\ Len(queue') <= accepted'
  BY <1>1, <1>2, <1>3 DEF QueueInv
<1>5. ASSUME NEW i \in DOMAIN queue'
      PROVE  queue'[i] = accepted' - Len(queue') + i
  <2>1. i \in 1 .. Len(queue) + 1
    BY <1>3
  <2>2. CASE i \in 1 .. Len(queue)
    <3>1. queue'[i] = queue[i] /\ queue[i] = accepted - Len(queue) + i
      BY <1>1, <1>3, <2>2 DEF QueueInv, QueueIsBacklog
    <3> QED
      BY <1>4, <3>1
  <2>3. CASE i = Len(queue) + 1
    <3>1. queue'[i] = accepted + 1 /\ accepted - Len(queue) + i = accepted + 1
      BY <1>1, <1>3, <2>3
    <3> QED
      BY <1>4, <3>1
  <2> QED
    BY <1>1, <2>1, <2>2, <2>3
<1> QED
  BY <1>2, <1>4, <1>5 DEF QueueInv, QueueIsBacklog

(* The event taken is the oldest that waits, and the rest stays exact. *)
LEMMA TakeKeepsQueue ==
    ASSUME TypeInv, QueueInv, TakeOrdinary
    PROVE  QueueInv'
<1> USE DEF TypeInv, TypeOK
<1>1. Len(queue) \in Nat \ {0} /\ DOMAIN queue = 1 .. Len(queue) /\ Head(queue) = queue[1]
  BY EmptySeq, LenProperties DEF TakeOrdinary
<1>2. /\ queue' = Tail(queue) /\ accepted' = accepted /\ seen' = seen
      /\ current' = Ordinary(queue[1])
  BY <1>1 DEF TakeOrdinary
<1>3. /\ Len(queue') = Len(queue) - 1 /\ DOMAIN queue' = 1 .. Len(queue) - 1
      /\ \A i \in 1 .. Len(queue) - 1 : queue'[i] = queue[i + 1]
  BY <1>1, <1>2, HeadTailProperties, LenProperties DEF TakeOrdinary
<1>4. accepted' - Len(queue') = accepted - Len(queue) + 1 /\ Len(queue') <= accepted'
  BY <1>1, <1>2, <1>3 DEF QueueInv
<1>5. ASSUME NEW i \in DOMAIN queue'
      PROVE  queue'[i] = accepted' - Len(queue') + i
  <2>1. i \in 1 .. Len(queue) - 1 /\ i + 1 \in 1 .. Len(queue)
    BY <1>1, <1>3
  <2>2. queue'[i] = queue[i + 1] /\ queue[i + 1] = accepted - Len(queue) + (i + 1)
    BY <1>1, <1>3, <2>1 DEF QueueInv, QueueIsBacklog
  <2> QED
    BY <1>1, <1>4, <2>1, <2>2
<1>6. \A s \in Subscribers : seen'[s] <= accepted' - Len(queue')
  BY <1>1, <1>2, <1>4 DEF QueueInv, QueueIsBacklog
<1>7. current'.ticket = accepted' - Len(queue')
  BY <1>1, <1>2, <1>4 DEF QueueInv, QueueIsBacklog, Ordinary
<1> QED
  BY <1>4, <1>5, <1>6, <1>7 DEF QueueInv, QueueIsBacklog

(* A subscriber that is called is brought up to the dispatcher, not past it. *)
LEMMA CallKeepsQueue ==
    ASSUME TypeInv, QueueInv, NEW s \in Subscribers, Call(s)
    PROVE  QueueInv'
<1> USE DEF TypeInv, TypeOK
<1>1. UNCHANGED <<queue, accepted, current>>
  BY DEF Call, lanes
<1>2. CASE current.lane = "ordinary"
  <2>1. seen' = [seen EXCEPT ![s] = accepted - Len(queue)]
    BY <1>2 DEF Call, QueueInv, QueueIsBacklog
  <2>2. \A r \in Subscribers : seen'[r] <= accepted - Len(queue)
    BY <2>1, LenProperties DEF QueueInv, QueueIsBacklog
  <2> QED
    BY <1>1, <2>2 DEF QueueInv, QueueIsBacklog
<1>3. CASE current.lane # "ordinary"
  BY <1>1, <1>3, QueueUntouched DEF Call
<1> QED
  BY <1>2, <1>3

(* What the channel holds, as an invariant of the bus. *)
LEMMA QueueInvariant == SafetySpec => []QueueInv
<1>1. Init => QueueInv
  <2> SUFFICES ASSUME Init PROVE QueueInv
    OBVIOUS
  <2>1. Len(queue) = 0 /\ DOMAIN queue = {}
    BY EmptySeq DEF Init
  <2> QED
    BY <2>1 DEF Init, QueueInv, QueueIsBacklog, NoEvent
<1>2. TypeInv /\ QueueInv /\ [Next]_vars => QueueInv'
  <2> SUFFICES ASSUME TypeInv, QueueInv, [Next]_vars PROVE QueueInv'
    OBVIOUS
  <2> USE DEF lanes, loop, history
  <2>1. ASSUME NEW s \in Subscribers, NEW t \in Types, Subscribe(s, t) \/ Unsubscribe(s, t)
        PROVE  QueueInv'
    BY <2>1, SubscriptionKeepsQueue
  <2>2. ASSUME NEW e \in Emitters, EmitCheck(e) \/ EmitStep(e) PROVE QueueInv'
    BY <2>2, SendKeepsQueue, QueueUntouched DEF EmitCheck, EmitStep, EmitReleased
  <2>3. ASSUME NEW u \in Updaters, EmitLatestSignal(u) PROVE QueueInv'
    BY <2>3, QueueUntouched DEF EmitLatestSignal
  <2>4. ASSUME NEW u \in Updaters, NEW k \in Keys, EmitLatestStore(u, k) PROVE QueueInv'
    BY <2>4, QueueUntouched DEF EmitLatestStore
  <2>5. CASE Close
    BY <2>5, QueueUntouched DEF Close
  <2>6. CASE PollReceive \/ SelectReceive
    BY <2>6, TakeKeepsQueue DEF PollReceive, SelectReceive
  <2>7. CASE PollEmpty \/ SelectDone \/ SelectReady \/ PopNothing \/ Rearm \/ DeliverSnapshot
    BY <2>7, QueueUntouched
       DEF PollEmpty, SelectDone, SelectReady, PopNothing, Rearm, DeliverSnapshot
  <2>8. CASE PopLatest
    <3>1. UNCHANGED <<queue, accepted, seen>> /\ current'.lane # "ordinary"
      BY <2>8 DEF PopLatest, Snapshot
    <3> QED
      BY <3>1 DEF QueueInv, QueueIsBacklog
  <2>9. CASE DeliverDone
    <3>1. UNCHANGED <<queue, accepted, seen>> /\ current'.lane # "ordinary"
      BY <2>9 DEF DeliverDone, NoEvent
    <3> QED
      BY <3>1 DEF QueueInv, QueueIsBacklog
  <2>10. ASSUME NEW s \in Subscribers, Call(s) PROVE QueueInv'
    BY <2>10, CallKeepsQueue
  <2>11. CASE UNCHANGED vars
    BY <2>11, QueueUntouched DEF vars
  <2> QED
    BY <2>1, <2>2, <2>3, <2>4, <2>5, <2>6, <2>7, <2>8, <2>9, <2>10, <2>11 DEF Next, Dispatch
<1> QED
  BY <1>1, <1>2, TypeInvariant, PTL DEF SafetySpec

(* No ordinary event is lost, doubled or reordered between Emit and the      *)
(* dispatcher, for any queue size and any number of emitters.                *)
THEOREM BacklogIsExact == SafetySpec => []QueueIsBacklog
<1>1. QueueInv => QueueIsBacklog
  BY DEF QueueInv
<1> QED
  BY <1>1, QueueInvariant, PTL

------------------------------------------------------------------------------
(* Priority of the ordered lane *)

(* After an overtake the dispatcher is on its way back to the first select,  *)
(* which finds the event that was overtaken.                                 *)
OvertakeInv ==
    /\ overtakes <= 1
    /\ overtakes = 1 => queue # <<>> /\ dispatcher \in {"rearm", "snap", "call", "poll"}

(* A control event waits behind at most one snapshot, whatever the select    *)
(* statements choose and however many snapshots are pending.                 *)
THEOREM OneOvertake == SafetySpec => []AtMostOneOvertake
<1>1. Init => OvertakeInv
  BY DEF Init, OvertakeInv
<1>2. TypeInv /\ OvertakeInv /\ [Next]_vars => OvertakeInv'
  <2> SUFFICES ASSUME TypeInv, OvertakeInv, [Next]_vars PROVE OvertakeInv'
    OBVIOUS
  <2> USE DEF OvertakeInv, lanes, loop, history
  <2>1. ASSUME NEW s \in Subscribers, NEW t \in Types, Subscribe(s, t) \/ Unsubscribe(s, t)
        PROVE  OvertakeInv'
    BY <2>1 DEF Subscribe, Unsubscribe
  <2>2. ASSUME NEW e \in Emitters, EmitCheck(e) \/ EmitReleased(e) PROVE OvertakeInv'
    BY <2>2 DEF EmitCheck, EmitReleased
  <2>3. ASSUME NEW e \in Emitters, EmitSend(e) PROVE OvertakeInv'
    <3>1. queue \in Seq(Nat) /\ accepted' \in Nat /\ queue' = Append(queue, accepted')
      BY <2>3 DEF EmitSend, TypeInv, TypeOK
    <3>2. queue' # <<>>
      BY <3>1, AppendProperties
    <3> QED
      BY <2>3, <3>2 DEF EmitSend
  <2>4. ASSUME NEW u \in Updaters, EmitLatestSignal(u) PROVE OvertakeInv'
    BY <2>4 DEF EmitLatestSignal
  <2>5. ASSUME NEW u \in Updaters, NEW k \in Keys, EmitLatestStore(u, k) PROVE OvertakeInv'
    BY <2>5 DEF EmitLatestStore
  <2>6. CASE Close
    BY <2>6 DEF Close
  <2>7. CASE PollReceive \/ SelectReceive
    BY <2>7 DEF PollReceive, SelectReceive, TakeOrdinary
  <2>8. CASE PollEmpty
    BY <2>8 DEF PollEmpty
  <2>9. CASE SelectDone \/ SelectReady \/ PopNothing
    BY <2>9 DEF SelectDone, SelectReady, PopNothing
  <2>10. CASE PopLatest
    <3>1. overtakes = 0
      BY <2>10 DEF PopLatest, TypeInv, TypeOK
    <3> QED
      BY <2>10, <3>1 DEF PopLatest
  <2>11. CASE Rearm \/ DeliverSnapshot \/ DeliverDone
    BY <2>11 DEF Rearm, DeliverSnapshot, DeliverDone
  <2>12. ASSUME NEW s \in Subscribers, Call(s) PROVE OvertakeInv'
    BY <2>12 DEF Call
  <2>13. CASE UNCHANGED vars
    BY <2>13 DEF vars
  <2> QED
    BY <2>1, <2>2, <2>3, <2>4, <2>5, <2>6, <2>7, <2>8, <2>9, <2>10, <2>11, <2>12, <2>13
       DEF Next, Dispatch, EmitStep
<1>3. OvertakeInv => AtMostOneOvertake
  BY DEF OvertakeInv, AtMostOneOvertake
<1> QED
  BY <1>1, <1>2, <1>3, TypeInvariant, PTL DEF SafetySpec

------------------------------------------------------------------------------
(* What a subscriber sees *)

(* deliver calls the subscribers of both lists, and nobody else. *)
LEMMA ElementsOfConcat ==
    ASSUME NEW S, NEW a \in Seq(S), NEW b \in Seq(S)
    PROVE  Elements(a \o b) = Elements(a) \union Elements(b)
<1>1. /\ Len(a) \in Nat /\ Len(b) \in Nat /\ Len(a \o b) = Len(a) + Len(b)
      /\ DOMAIN a = 1 .. Len(a) /\ DOMAIN b = 1 .. Len(b) /\ DOMAIN (a \o b) = 1 .. Len(a) + Len(b)
      /\ \A i \in 1 .. Len(a) + Len(b) : (a \o b)[i] = IF i <= Len(a) THEN a[i] ELSE b[i - Len(a)]
  BY ConcatProperties, LenProperties
<1>2. ASSUME NEW i \in DOMAIN (a \o b) PROVE (a \o b)[i] \in Elements(a) \union Elements(b)
  <2>1. CASE i <= Len(a)
    BY <1>1, <2>1 DEF Elements
  <2>2. CASE i > Len(a)
    <3>1. i - Len(a) \in DOMAIN b /\ (a \o b)[i] = b[i - Len(a)]
      BY <1>1, <2>2
    <3> QED
      BY <3>1 DEF Elements
  <2> QED
    BY <1>1, <2>1, <2>2
<1>3. ASSUME NEW i \in DOMAIN a PROVE a[i] \in Elements(a \o b)
  BY <1>1 DEF Elements
<1>4. ASSUME NEW i \in DOMAIN b PROVE b[i] \in Elements(a \o b)
  <2>1. Len(a) + i \in DOMAIN (a \o b) /\ (a \o b)[Len(a) + i] = b[i]
    BY <1>1
  <2> QED
    BY <2>1 DEF Elements
<1> QED
  BY <1>2, <1>3, <1>4 DEF Elements

(* Who is left to call is the first or one of the others. *)
LEMMA ElementsOfRest ==
    ASSUME NEW S, NEW seq \in Seq(S), seq # <<>>
    PROVE  Elements(seq) = {Head(seq)} \union Elements(Tail(seq)) /\ Elements(seq) \subseteq S
<1>1. /\ Len(seq) \in Nat \ {0} /\ DOMAIN seq = 1 .. Len(seq)
      /\ Head(seq) = seq[1]
      /\ DOMAIN Tail(seq) = 1 .. Len(seq) - 1
      /\ \A i \in 1 .. Len(seq) - 1 : Tail(seq)[i] = seq[i + 1]
  BY HeadTailProperties, LenProperties, EmptySeq
<1>2. ASSUME NEW i \in DOMAIN seq PROVE seq[i] \in {Head(seq)} \union Elements(Tail(seq))
  <2>1. CASE i = 1
    BY <1>1, <2>1
  <2>2. CASE i # 1
    <3>1. i - 1 \in DOMAIN Tail(seq) /\ Tail(seq)[i - 1] = seq[i]
      BY <1>1, <2>2
    <3> QED
      BY <3>1 DEF Elements
  <2> QED
    BY <2>1, <2>2
<1>3. ASSUME NEW i \in DOMAIN Tail(seq) PROVE Tail(seq)[i] \in Elements(seq)
  <2>1. i + 1 \in DOMAIN seq /\ Tail(seq)[i] = seq[i + 1]
    BY <1>1
  <2> QED
    BY <2>1 DEF Elements
<1>4. Head(seq) \in Elements(seq)
  BY <1>1 DEF Elements
<1>5. Elements(seq) \subseteq S
  BY <1>1, ElementOfSeq DEF Elements
<1> QED
  BY <1>2, <1>3, <1>4, <1>5 DEF Elements

(* Unsubscribe adds nobody. *)
LEMMA ElementsOfRemoval ==
    ASSUME NEW S, NEW seq \in Seq(S), NEW i \in DOMAIN seq
    PROVE  Elements(SubSeq(seq, 1, i - 1) \o SubSeq(seq, i + 1, Len(seq))) \subseteq Elements(seq)
<1>1. i \in 1 .. Len(seq) /\ Len(seq) \in Nat /\ DOMAIN seq = 1 .. Len(seq)
  BY LenProperties
<1> DEFINE a == SubSeq(seq, 1, i - 1)
           b == SubSeq(seq, i + 1, Len(seq))
<1>2. /\ a \in Seq(S) /\ Len(a) = i - 1 /\ \A j \in 1 .. i - 1 : a[j] = seq[j]
  BY <1>1, SubSeqProperties, ElementOfSeq
<1>3. /\ b \in Seq(S) /\ Len(b) = Len(seq) - i /\ \A j \in 1 .. Len(seq) - i : b[j] = seq[i + j]
  BY <1>1, SubSeqProperties, ElementOfSeq
<1> HIDE DEF a, b
<1>4. Elements(a) \subseteq Elements(seq)
  <2>1. DOMAIN a = 1 .. i - 1
    BY <1>2, LenProperties
  <2> QED
    BY <1>1, <1>2, <2>1 DEF Elements
<1>5. Elements(b) \subseteq Elements(seq)
  <2>1. DOMAIN b = 1 .. Len(seq) - i
    BY <1>3, LenProperties
  <2>2. ASSUME NEW j \in DOMAIN b PROVE b[j] \in Elements(seq)
    <3>1. i + j \in DOMAIN seq /\ b[j] = seq[i + j]
      BY <1>1, <1>3, <2>1
    <3> QED
      BY <3>1 DEF Elements
  <2> QED
    BY <2>2 DEF Elements
<1>6. Elements(a \o b) = Elements(a) \union Elements(b)
  BY <1>2, <1>3, ElementsOfConcat
<1> QED
  BY <1>4, <1>5, <1>6 DEF a, b

Taken == accepted - Len(queue)

Listens(s) == s \in Elements(subscribers["ordinary"]) \union Elements(subscribers["*"])

(* The ordinary event in hand has still to reach s. *)
ToCall(s) ==
    /\ current.lane = "ordinary"
    /\ dispatcher = "snap" \/ (dispatcher = "call" /\ s \in Elements(targets))

Near(s) == seen[s] \in {0, Taken} \/ seen[s] + 1 = Taken

(* Who listens, and has been called since it subscribed, has seen all that was *)
(* taken, but for the event in hand.  The copy deliver works on may still name *)
(* somebody who has left.                                                      *)
OrderInv ==
    /\ \A s \in Subscribers : Listens(s) /\ seen[s] # 0 =>
          seen[s] = Taken \/ (ToCall(s) /\ seen[s] + 1 = Taken)
    /\ dispatcher = "call" /\ current.lane = "ordinary" => \A s \in Elements(targets) : Near(s)

(* A step that neither takes an event nor calls anybody *)
LEMMA OrderUntouched ==
    ASSUME OrderInv, UNCHANGED <<subscribers, seen, targets>>, Taken' = Taken,
           current' = current \/ (dispatcher # "snap" /\ dispatcher' # "call" /\ (dispatcher = "call" => targets = <<>>)),
           dispatcher' = dispatcher \/ (dispatcher' # "call" /\ dispatcher # "snap" /\ (dispatcher = "call" => targets = <<>>))
    PROVE  OrderInv'
<1>1. ASSUME NEW s, dispatcher = "call", targets = <<>> PROVE ~(s \in Elements(targets))
  BY <1>1, EmptySeq DEF Elements
<1>2. \A s : Listens(s)' = Listens(s) /\ Near(s)' = Near(s)
  BY DEF Listens, Near
<1>3. \A s : ToCall(s) => ToCall(s)'
  BY <1>1 DEF ToCall
<1> QED
  BY <1>2, <1>3 DEF OrderInv

(* A new listener starts from nothing seen; one that leaves drops out of the *)
(* first conjunct, and may still be called from deliver's copy.              *)
LEMMA SubscriptionKeepsOrder ==
    ASSUME TypeInv, QueueInv, OrderInv, NEW s \in Subscribers, NEW t \in Types,
           Subscribe(s, t) \/ Unsubscribe(s, t)
    PROVE  OrderInv'
<1> USE DEF TypeInv, TypeOK
<1>1. UNCHANGED <<queue, accepted, dispatcher, current, targets>>
  BY DEF Subscribe, Unsubscribe, lanes, loop, history
<1>2. Taken' = Taken /\ \A r : ToCall(r)' = ToCall(r)
  BY <1>1 DEF Taken, ToCall
<1>3. \A r \in Subscribers : Listens(r)' => seen'[r] = 0 \/ (seen'[r] = seen[r] /\ Listens(r))
  <2>1. CASE Subscribe(s, t)
    <3>1. /\ subscribers' = [subscribers EXCEPT ![t] = Append(subscribers[t], s)]
          /\ seen' = IF t = "snapshot" THEN seen ELSE [seen EXCEPT ![s] = 0]
      BY <2>1 DEF Subscribe
    <3>2. Elements(Append(subscribers[t], s)) = Elements(subscribers[t]) \union {s}
      BY ElementsOfAppend
    <3>3. \A r \in Subscribers : r # s /\ Listens(r)' => Listens(r)
      BY <3>1, <3>2 DEF Listens, Types, Lanes
    <3>4. t = "snapshot" => \A r \in Subscribers : Listens(r)' = Listens(r)
      BY <3>1 DEF Listens, Types, Lanes
    <3> QED
      BY <3>1, <3>3, <3>4
  <2>2. CASE Unsubscribe(s, t)
    <3>1. PICK i \in DOMAIN subscribers[t] :
              subscribers' = [subscribers EXCEPT ![t] = SubSeq(subscribers[t], 1, i - 1)
                                                         \o SubSeq(subscribers[t], i + 1, Len(subscribers[t]))]
      BY <2>2 DEF Unsubscribe
    <3>2. Elements(SubSeq(subscribers[t], 1, i - 1) \o SubSeq(subscribers[t], i + 1, Len(subscribers[t])))
             \subseteq Elements(subscribers[t])
      BY ElementsOfRemoval
    <3>3. \A r \in Subscribers : Listens(r)' => Listens(r)
      BY <3>1, <3>2 DEF Listens, Types, Lanes
    <3> QED
      BY <2>2, <3>3 DEF Unsubscribe, history
  <2> QED
    BY <2>1, <2>2
<1>4. \A r \in Subscribers : seen'[r] = 0 \/ seen'[r] = seen[r]
  BY DEF Subscribe, Unsubscribe, history
<1>5. Elements(targets) \subseteq Subscribers
  BY ElementOfSeq, LenProperties DEF Elements
<1>6. \A r \in Subscribers : Near(r) => Near(r)'
  BY <1>2, <1>4 DEF Near
<1> QED
  BY <1>1, <1>2, <1>3, <1>5, <1>6 DEF OrderInv

(* An accepted event waits; nothing is taken from the channel by it. *)
LEMMA SendKeepsTaken ==
    ASSUME TypeInv, NEW e \in Emitters, EmitSend(e)
    PROVE  Taken' = Taken /\ Len(queue') = Len(queue) + 1
<1> USE DEF TypeInv, TypeOK
<1>1. queue' = Append(queue, accepted + 1) /\ accepted' = accepted + 1 /\ accepted + 1 \in Nat
  BY DEF EmitSend
<1>2. Len(queue') = Len(queue) + 1 /\ Len(queue) \in Nat
  BY <1>1, AppendProperties, LenProperties
<1> QED
  BY <1>1, <1>2 DEF Taken

(* The dispatcher takes exactly one event, and one that was accepted. *)
LEMMA TakeIsNext ==
    ASSUME TypeInv, QueueInv, TakeOrdinary
    PROVE  Taken' = Taken + 1 /\ Taken \in Nat /\ Taken < accepted
<1> USE DEF TypeInv, TypeOK
<1>1. Len(Tail(queue)) = Len(queue) - 1 /\ Len(queue) \in Nat \ {0}
  BY HeadTailProperties, LenProperties, EmptySeq DEF TakeOrdinary
<1> QED
  BY <1>1 DEF Taken, QueueInv, TakeOrdinary

(* Whoever had seen all events before the take still has this one to see. *)
LEMMA TakeKeepsOrder ==
    ASSUME TypeInv, QueueInv, OrderInv, TakeOrdinary, dispatcher \in {"poll", "select"}
    PROVE  OrderInv'
<1>1. Taken' = Taken + 1 /\ Taken \in Nat
  BY TakeIsNext
<1>2. current'.lane = "ordinary" /\ dispatcher' = "snap" /\ UNCHANGED <<subscribers, seen>>
  BY DEF TakeOrdinary, Ordinary
<1>3. \A s : Listens(s)' = Listens(s) /\ ToCall(s)' /\ ~ToCall(s)
  BY <1>2 DEF Listens, ToCall
<1> QED
  BY <1>1, <1>2, <1>3 DEF OrderInv

(* deliver's copy names everybody who listens at this moment. *)
LEMMA DeliverKeepsOrder ==
    ASSUME TypeInv, QueueInv, OrderInv, DeliverSnapshot
    PROVE  OrderInv'
<1> USE DEF TypeInv, TypeOK
<1>1. /\ targets' = subscribers[current.lane] \o subscribers["*"]
      /\ UNCHANGED <<queue, accepted, subscribers, current, seen>>
      /\ dispatcher = "snap" /\ dispatcher' = "call"
  BY DEF DeliverSnapshot, lanes, history
<1>2. Taken' = Taken
  BY <1>1 DEF Taken
<1>3. CASE current.lane = "ordinary"
  <2>1. subscribers["ordinary"] \in Seq(Subscribers) /\ subscribers["*"] \in Seq(Subscribers)
    BY DEF Types, Lanes
  <2>2. \A s : s \in Elements(targets') <=> Listens(s)
    BY <1>1, <1>3, <2>1, ElementsOfConcat DEF Listens
  <2>3. \A s : Listens(s) => s \in Subscribers
    BY <2>1, ElementOfSeq, LenProperties DEF Listens, Elements
  <2>4. \A s : Listens(s) => ToCall(s)'
    BY <1>1, <1>3, <2>2 DEF ToCall
  <2>5. \A s : Listens(s) => Near(s)'
    BY <1>1, <1>2, <2>3 DEF OrderInv, Near
  <2> QED
    BY <1>1, <1>2, <2>2, <2>4, <2>5 DEF OrderInv, Listens
<1>4. CASE current.lane # "ordinary"
  BY <1>1, <1>2, <1>4 DEF OrderInv, ToCall, Listens
<1> QED
  BY <1>3, <1>4

(* A call brings its subscriber up to the event in hand. *)
LEMMA CallKeepsOrder ==
    ASSUME TypeInv, QueueInv, OrderInv, NEW s \in Subscribers, Call(s)
    PROVE  OrderInv'
<1> USE DEF TypeInv, TypeOK
<1>1. /\ dispatcher = "call" /\ targets # <<>> /\ s = Head(targets) /\ targets' = Tail(targets)
      /\ UNCHANGED <<queue, accepted, subscribers, dispatcher, current>>
  BY DEF Call, lanes
<1>2. Taken' = Taken /\ Elements(targets) = {s} \union Elements(targets') /\ Elements(targets) \subseteq Subscribers
  BY <1>1, ElementsOfRest DEF Taken
<1>3. CASE current.lane = "ordinary"
  <2>1. seen' = [seen EXCEPT ![s] = Taken]
    BY <1>3 DEF Call, QueueInv, QueueIsBacklog, Taken
  <2>2. seen'[s] = Taken /\ \A r \in Subscribers : r # s => seen'[r] = seen[r]
    BY <2>1
  <2>3. \A r : r # s /\ ToCall(r) => ToCall(r)'
    BY <1>1, <1>2 DEF ToCall
  <2>4. \A r \in Subscribers : Near(r) => Near(r)'
    BY <1>2, <2>2 DEF Near
  <2> QED
    BY <1>1, <1>2, <2>2, <2>3, <2>4 DEF OrderInv, Listens
<1>4. CASE current.lane # "ordinary"
  <2>1. seen' = seen
    BY <1>4 DEF Call
  <2> QED
    BY <1>1, <1>2, <1>4, <2>1 DEF OrderInv, ToCall, Listens
<1> QED
  BY <1>3, <1>4

(* OrderInv holds in every behaviour of the bus. *)
LEMMA OrderInvariant == SafetySpec => []OrderInv
<1>1. Init => OrderInv
  BY DEF Init, OrderInv
<1>2. TypeInv /\ QueueInv /\ OrderInv /\ [Next]_vars => OrderInv'
  <2> SUFFICES ASSUME TypeInv, QueueInv, OrderInv, [Next]_vars PROVE OrderInv'
    OBVIOUS
  <2> USE DEF lanes, loop, history
  <2>1. ASSUME NEW s \in Subscribers, NEW t \in Types, Subscribe(s, t) \/ Unsubscribe(s, t)
        PROVE  OrderInv'
    BY <2>1, SubscriptionKeepsOrder
  <2>2. ASSUME NEW e \in Emitters, EmitCheck(e) \/ EmitReleased(e) PROVE OrderInv'
    BY <2>2, OrderUntouched DEF EmitCheck, EmitReleased, Taken
  <2>3. ASSUME NEW e \in Emitters, EmitSend(e) PROVE OrderInv'
    BY <2>3, SendKeepsTaken, OrderUntouched DEF EmitSend
  <2>4. ASSUME NEW u \in Updaters, EmitLatestSignal(u) PROVE OrderInv'
    BY <2>4, OrderUntouched DEF EmitLatestSignal, Taken
  <2>5. ASSUME NEW u \in Updaters, NEW k \in Keys, EmitLatestStore(u, k) PROVE OrderInv'
    BY <2>5, OrderUntouched DEF EmitLatestStore, Taken
  <2>6. CASE Close
    BY <2>6, OrderUntouched DEF Close, Taken
  <2>7. CASE PollReceive \/ SelectReceive
    BY <2>7, TakeKeepsOrder DEF PollReceive, SelectReceive
  <2>8. CASE PollEmpty \/ SelectDone \/ SelectReady \/ PopNothing \/ Rearm
    BY <2>8, OrderUntouched DEF PollEmpty, SelectDone, SelectReady, PopNothing, Rearm, Taken
  <2>9. CASE PopLatest
    <3>1. dispatcher = "pop" /\ dispatcher' \in {"rearm", "snap"}
      BY <2>9 DEF PopLatest
    <3>2. UNCHANGED <<subscribers, seen, targets>> /\ Taken' = Taken
      BY <2>9 DEF PopLatest, Taken
    <3> QED
      BY <3>1, <3>2, OrderUntouched
  <2>10. CASE DeliverSnapshot
    BY <2>10, DeliverKeepsOrder
  <2>11. CASE DeliverDone
    <3>1. /\ dispatcher = "call" /\ targets = <<>> /\ dispatcher' = "poll"
          /\ UNCHANGED <<subscribers, seen, targets>> /\ Taken' = Taken
      BY <2>11 DEF DeliverDone, Taken
    <3> QED
      BY <3>1, OrderUntouched
  <2>12. ASSUME NEW s \in Subscribers, Call(s) PROVE OrderInv'
    BY <2>12, CallKeepsOrder
  <2>13. CASE UNCHANGED vars
    BY <2>13, OrderUntouched DEF vars, Taken
  <2> QED
    BY <2>1, <2>2, <2>3, <2>4, <2>5, <2>6, <2>7, <2>8, <2>9, <2>10, <2>11, <2>12, <2>13
       DEF Next, Dispatch, EmitStep
<1> QED
  BY <1>1, <1>2, TypeInvariant, QueueInvariant, PTL DEF SafetySpec

(* No subscriber is ahead of what was published, and none is ahead of the    *)
(* snapshot in hand.                                                         *)
VersionInv ==
    /\ \A s \in Subscribers, k \in Keys : seenVersion[s][k] <= version[k]
    /\ current.lane = "snapshot" =>
          /\ current.version <= version[current.key]
          /\ \A s \in Subscribers : seenVersion[s][current.key] <= current.version

(* A step that publishes nothing, takes no snapshot and calls nobody *)
LEMMA VersionUntouched ==
    ASSUME VersionInv, UNCHANGED <<version, seenVersion>>,
           current' = current \/ current'.lane # "snapshot"
    PROVE  VersionInv'
  BY DEF VersionInv

(* A newer version of a key does not touch what was seen of the older ones. *)
LEMMA StoreKeepsVersions ==
    ASSUME TypeInv, VersionInv, NEW u \in Updaters, NEW k \in Keys, EmitLatestStore(u, k)
    PROVE  VersionInv'
<1> USE DEF TypeInv, TypeOK
<1>1. /\ version' = [version EXCEPT ![k] = version[k] + 1]
      /\ UNCHANGED <<current, seenVersion>>
  BY DEF EmitLatestStore, loop
<1>2. \A j \in Keys : version[j] \in Nat /\ version'[j] \in Nat /\ version[j] <= version'[j]
  BY <1>1
<1>3. ASSUME NEW s \in Subscribers, NEW j \in Keys PROVE seenVersion'[s][j] <= version'[j]
  <2>1. seenVersion[s][j] \in Nat /\ seenVersion[s][j] <= version[j]
    BY DEF VersionInv
  <2> QED
    BY <1>1, <1>2, <2>1
<1>4. ASSUME current.lane = "snapshot" PROVE current.version <= version'[current.key]
  <2>1. current.key \in Keys /\ current.version \in Nat /\ current.version <= version[current.key]
    BY <1>4, EventFields DEF VersionInv
  <2> QED
    BY <1>2, <2>1
<1> QED
  BY <1>1, <1>3, <1>4 DEF VersionInv

(* popLatest takes the newest version of its key, so nobody has seen more. *)
LEMMA PopKeepsVersions ==
    ASSUME TypeInv, LaneInv, VersionInv, PopLatest
    PROVE  VersionInv'
<1> USE DEF TypeInv, TypeOK
<1>1. /\ latestOrder # <<>> /\ UNCHANGED <<version, seenVersion>>
      /\ current' = Snapshot(Head(latestOrder), latest[Head(latestOrder)])
  BY DEF PopLatest
<1>2. PICK key \in Keys : key = Head(latestOrder) /\ key \in Pending
  BY <1>1, ElementsOfRest DEF Pending
<1>3. latest[key] = version[key]
  BY <1>2 DEF LaneInv, PendingIsNewest
<1>4. current'.key = key /\ current'.version = version[key]
  BY <1>1, <1>2, <1>3 DEF Snapshot
<1> QED
  BY <1>1, <1>4 DEF VersionInv

(* A call brings a subscriber up to the snapshot in hand. *)
LEMMA CallKeepsVersions ==
    ASSUME TypeInv, VersionInv, NEW s \in Subscribers, Call(s)
    PROVE  /\ VersionInv'
           /\ \A r \in Subscribers, k \in Keys : seenVersion'[r][k] >= seenVersion[r][k]
<1> USE DEF TypeInv, TypeOK
<1>1. UNCHANGED <<version, current>> /\ dispatcher = "call"
  BY DEF Call, lanes
<1>2. CASE current.lane = "ordinary"
  <2>1. seenVersion' = seenVersion
    BY <1>2 DEF Call
  <2>2. \A r \in Subscribers, k \in Keys : seenVersion'[r][k] >= seenVersion[r][k]
    BY <2>1
  <2>3. VersionInv'
    BY <1>1, <2>1, VersionUntouched
  <2> QED
    BY <2>2, <2>3
<1>3. CASE current.lane = "snapshot"
  <2>1. PICK key \in Keys, v \in Nat :
           /\ key = current.key /\ v = current.version /\ v <= version[key]
           /\ \A r \in Subscribers : seenVersion[r][key] <= v
    BY <1>3, EventFields DEF VersionInv
  <2>2. seenVersion' = [seenVersion EXCEPT ![s] = [seenVersion[s] EXCEPT ![key] = v]]
    BY <1>3, <2>1 DEF Call
  <2>3. [seenVersion[s] EXCEPT ![key] = v] \in [Keys -> Nat]
    OBVIOUS
  <2>4. ASSUME NEW r \in Subscribers, NEW k \in Keys
        PROVE  seenVersion'[r][k] = IF r = s /\ k = key THEN v ELSE seenVersion[r][k]
    BY <2>2
  <2>5. ASSUME NEW r \in Subscribers, NEW k \in Keys
        PROVE  seenVersion'[r][k] >= seenVersion[r][k] /\ seenVersion'[r][k] <= version[k]
    <3>1. seenVersion[r][k] \in Nat
      OBVIOUS
    <3>2. seenVersion[r][k] <= version[k]
      BY DEF VersionInv
    <3>3. CASE r = s /\ k = key
      BY <2>1, <2>4, <3>3
    <3>4. CASE ~(r = s /\ k = key)
      <4>1. seenVersion'[r][k] = seenVersion[r][k]
        BY <2>4, <3>4
      <4> QED
        BY <3>1, <3>2, <4>1
    <3> QED
      BY <3>3, <3>4
  <2>6. \A r \in Subscribers, k \in Keys : seenVersion'[r][k] <= version[k]
    BY <2>5
  <2>7. ASSUME NEW r \in Subscribers PROVE seenVersion'[r][key] <= v
    <3>1. CASE r = s
      BY <2>4, <3>1
    <3>2. CASE r # s
      <4>1. seenVersion'[r][key] = seenVersion[r][key]
        BY <2>4, <3>2
      <4> QED
        BY <2>1, <4>1
    <3> QED
      BY <3>1, <3>2
  <2>8. VersionInv'
    BY <1>1, <2>1, <2>6, <2>7 DEF VersionInv
  <2> QED
    BY <2>5, <2>8
<1>4. current.lane \in Lanes
  BY <1>1 DEF EventInHand
<1> QED
  BY <1>2, <1>3, <1>4 DEF Lanes

(* VersionInv holds in every behaviour of the bus. *)
LEMMA VersionInvariant == SafetySpec => []VersionInv
<1>1. Init => VersionInv
  BY DEF Init, VersionInv, NoEvent
<1>2. TypeInv /\ LaneInv /\ VersionInv /\ [Next]_vars => VersionInv'
  <2> SUFFICES ASSUME TypeInv, LaneInv, VersionInv, [Next]_vars PROVE VersionInv'
    OBVIOUS
  <2> USE DEF lanes, loop, history
  <2>1. ASSUME NEW s \in Subscribers, NEW t \in Types, Subscribe(s, t) \/ Unsubscribe(s, t)
        PROVE  VersionInv'
    BY <2>1, VersionUntouched DEF Subscribe, Unsubscribe
  <2>2. ASSUME NEW e \in Emitters, EmitCheck(e) \/ EmitStep(e) PROVE VersionInv'
    BY <2>2, VersionUntouched DEF EmitCheck, EmitStep, EmitSend, EmitReleased
  <2>3. ASSUME NEW u \in Updaters, EmitLatestSignal(u) PROVE VersionInv'
    BY <2>3, VersionUntouched DEF EmitLatestSignal
  <2>4. ASSUME NEW u \in Updaters, NEW k \in Keys, EmitLatestStore(u, k) PROVE VersionInv'
    BY <2>4, StoreKeepsVersions
  <2>5. CASE Close
    BY <2>5, VersionUntouched DEF Close
  <2>6. CASE PollReceive \/ SelectReceive
    BY <2>6, VersionUntouched DEF PollReceive, SelectReceive, TakeOrdinary, Ordinary
  <2>7. CASE PollEmpty \/ SelectDone \/ SelectReady \/ PopNothing \/ Rearm \/ DeliverSnapshot
    BY <2>7, VersionUntouched
       DEF PollEmpty, SelectDone, SelectReady, PopNothing, Rearm, DeliverSnapshot
  <2>8. CASE PopLatest
    BY <2>8, PopKeepsVersions
  <2>9. CASE DeliverDone
    BY <2>9, VersionUntouched DEF DeliverDone, NoEvent
  <2>10. ASSUME NEW s \in Subscribers, Call(s) PROVE VersionInv'
    BY <2>10, CallKeepsVersions
  <2>11. CASE UNCHANGED vars
    BY <2>11, VersionUntouched DEF vars
  <2> QED
    BY <2>1, <2>2, <2>3, <2>4, <2>5, <2>6, <2>7, <2>8, <2>9, <2>10, <2>11 DEF Next, Dispatch
<1> QED
  BY <1>1, <1>2, TypeInvariant, LaneInvariant, PTL DEF SafetySpec

(* What one step may do to what a subscriber has seen. *)
SeenInOrder ==
    \A s \in Subscribers :
       /\ seen'[s] \in {seen[s], seen[s] + 1} \/ seen[s] = 0 \/ seen'[s] = 0
       /\ \A k \in Keys : seenVersion'[s][k] >= seenVersion[s][k]

(* The call of deliver is the next event, or a version not older than the last. *)
LEMMA CallIsInOrder ==
    ASSUME TypeInv, QueueInv, OrderInv, VersionInv, NEW s \in Subscribers, Call(s)
    PROVE  SeenInOrder
<1> USE DEF TypeInv, TypeOK
<1>1. dispatcher = "call" /\ targets # <<>> /\ s = Head(targets)
  BY DEF Call
<1>2. s \in Elements(targets)
  BY <1>1, ElementsOfRest
<1>3. \A r \in Subscribers, k \in Keys : seenVersion'[r][k] >= seenVersion[r][k]
  BY CallKeepsVersions
<1>4. CASE current.lane = "ordinary"
  <2>1. seen' = [seen EXCEPT ![s] = Taken]
    BY <1>4 DEF Call, QueueInv, QueueIsBacklog, Taken
  <2>2. seen[s] \in {0, Taken} \/ seen[s] + 1 = Taken
    BY <1>1, <1>2, <1>4 DEF OrderInv, Near
  <2> QED
    BY <1>3, <2>1, <2>2 DEF SeenInOrder
<1>5. CASE current.lane # "ordinary"
  <2>1. seen' = seen
    BY <1>5 DEF Call
  <2> QED
    BY <1>3, <2>1 DEF SeenInOrder
<1> QED
  BY <1>4, <1>5

(* A subscriber gets every ordinary event from its first one on, in the      *)
(* order Emit queued them and once each, and never an older snapshot after a *)
(* newer one, while lists change under deliver and any number of goroutines  *)
(* emit.                                                                     *)
THEOREM DeliversInOrder == SafetySpec => InOrder
<1>1. TypeInv /\ QueueInv /\ OrderInv /\ VersionInv /\ [Next]_vars => [SeenInOrder]_vars
  <2> SUFFICES ASSUME TypeInv, QueueInv, OrderInv, VersionInv, Next PROVE SeenInOrder
    OBVIOUS
  <2> USE DEF lanes, loop, history
  <2>1. UNCHANGED <<seen, seenVersion>> => SeenInOrder
    BY DEF SeenInOrder, TypeInv, TypeOK
  <2>2. ASSUME NEW s \in Subscribers, NEW t \in Types, Subscribe(s, t) \/ Unsubscribe(s, t)
        PROVE  SeenInOrder
    <3>1. seenVersion' = seenVersion
      BY <2>2 DEF Subscribe, Unsubscribe
    <3>2. \A r \in Subscribers : seen'[r] = seen[r] \/ seen'[r] = 0
      BY <2>2 DEF Subscribe, Unsubscribe, TypeInv, TypeOK
    <3> QED
      BY <3>1, <3>2 DEF SeenInOrder, TypeInv, TypeOK
  <2>3. ASSUME NEW e \in Emitters, EmitCheck(e) \/ EmitStep(e) PROVE SeenInOrder
    BY <2>1, <2>3 DEF EmitCheck, EmitStep, EmitSend, EmitReleased
  <2>4. ASSUME NEW u \in Updaters, EmitLatestSignal(u) PROVE SeenInOrder
    BY <2>1, <2>4 DEF EmitLatestSignal
  <2>5. ASSUME NEW u \in Updaters, NEW k \in Keys, EmitLatestStore(u, k) PROVE SeenInOrder
    BY <2>1, <2>5 DEF EmitLatestStore
  <2>9. CASE Close
    BY <2>1, <2>9 DEF Close
  <2>6. CASE PollReceive \/ SelectReceive \/ PollEmpty \/ SelectDone \/ SelectReady
    BY <2>1, <2>6 DEF PollReceive, SelectReceive, TakeOrdinary, PollEmpty, SelectDone, SelectReady
  <2>7. CASE PopNothing \/ PopLatest \/ Rearm \/ DeliverSnapshot \/ DeliverDone
    BY <2>1, <2>7 DEF PopNothing, PopLatest, Rearm, DeliverSnapshot, DeliverDone
  <2>8. ASSUME NEW s \in Subscribers, Call(s) PROVE SeenInOrder
    BY <2>8, CallIsInOrder
  <2> QED
    BY <2>2, <2>3, <2>4, <2>5, <2>6, <2>7, <2>8, <2>9 DEF Next, Dispatch
<1>2. SafetySpec => [][SeenInOrder]_vars
  BY <1>1, TypeInvariant, QueueInvariant, OrderInvariant, VersionInvariant, PTL DEF SafetySpec
<1> QED
  BY <1>2 DEF InOrder, SeenInOrder

------------------------------------------------------------------------------
(* The bus implements EventDelivery *)

(* Emit joins the backlog only while it has room. *)
LEMMA SendIsAccept ==
    ASSUME TypeInv, NEW e \in Emitters, EmitSend(e)
    PROVE  Delivery!Accept
<1>1. Taken' = Taken /\ Len(queue) \in Nat
  BY SendKeepsTaken, LenProperties DEF TypeInv, TypeOK
<1>2. accepted - (accepted - Len(queue)) < QueueSize
  BY <1>1, QueueSizeAssumption DEF EmitSend, TypeInv, TypeOK
<1>3. accepted' = accepted + 1 /\ UNCHANGED <<closed, latestOrder>>
  BY DEF EmitSend
<1> QED
  BY <1>1, <1>2, <1>3 DEF Delivery!Accept, Taken, Pending, Elements

(* The dispatcher takes the oldest event of the backlog. *)
LEMMA TakeIsTake ==
    ASSUME TypeInv, QueueInv, TakeOrdinary
    PROVE  Delivery!Take
<1>1. Taken' = Taken + 1 /\ Taken < accepted
  BY TakeIsNext
<1>2. UNCHANGED <<accepted, closed, latestOrder>>
  BY DEF TakeOrdinary
<1> QED
  BY <1>1, <1>2 DEF Delivery!Take, Taken, Pending, Elements

(* EmitLatest makes its key dirty. *)
LEMMA StoreIsUpdate ==
    ASSUME TypeInv, NEW u \in Updaters, NEW k \in Keys, EmitLatestStore(u, k)
    PROVE  Delivery!Update(k)
<1>1. Pending' = Pending \union {k}
  <2>1. CASE k \in Pending
    BY <2>1 DEF EmitLatestStore, Pending, Elements
  <2>2. CASE k \notin Pending
    <3>1. latestOrder' = Append(latestOrder, k)
      BY <2>2 DEF EmitLatestStore
    <3> QED
      BY <3>1, ElementsOfAppend DEF Pending, TypeInv, TypeOK
  <2> QED
    BY <2>1, <2>2
<1>2. ~closed /\ UNCHANGED <<accepted, queue, closed>>
  BY DEF EmitLatestStore
<1> QED
  BY <1>1, <1>2 DEF Delivery!Update

(* popLatest looks at a dirty key, and only that one becomes clean. *)
LEMMA PopIsRefresh ==
    ASSUME TypeInv, LaneInv, PopLatest
    PROVE  \E k \in Keys : Delivery!Refresh(k)
<1> USE DEF TypeInv, TypeOK
<1>1. latestOrder # <<>> /\ latestOrder' = Tail(latestOrder) /\ UNCHANGED <<accepted, queue, closed>>
  BY DEF PopLatest
<1>2. Distinct(latestOrder)
  BY DEF LaneInv, LaneConsistent, Distinct
<1>3. Head(latestOrder) \in Keys
  BY <1>1, HeadTailProperties
<1>4. Head(latestOrder) \in Pending /\ Pending' = Pending \ {Head(latestOrder)}
  BY <1>1, <1>2, ElementsOfTail DEF Pending
<1>5. Delivery!Refresh(Head(latestOrder))
  BY <1>1, <1>4 DEF Delivery!Refresh
<1> QED
  BY <1>3, <1>5

(* The steps the rest of the program does not see *)
LEMMA UnseenStep ==
    ASSUME UNCHANGED <<accepted, queue, latestOrder, closed>>
    PROVE  UNCHANGED Delivery!delivery
  BY DEF Delivery!delivery, Pending, Elements

(* The bus with its goroutines, channels and locks implements EventDelivery: *)
(* no ordinary event is lost or taken out of turn, the backlog is bounded,   *)
(* and a key stays due until its newest snapshot was looked at.              *)
THEOREM RefinesDelivery == SafetySpec => Delivery!Safety
<1>1. Init => Delivery!Init
  <2> SUFFICES ASSUME Init PROVE Delivery!Init
    OBVIOUS
  <2>1. Len(queue) = 0 /\ Pending = {}
    BY EmptySeq DEF Init, Pending, Elements
  <2>2. accepted = 0 /\ closed = FALSE
    BY DEF Init
  <2>3. accepted - Len(queue) = 0
    BY <2>1, <2>2
  <2>4. (~closed) = TRUE
    BY <2>2
  <2> QED
    BY <2>1, <2>2, <2>3, <2>4 DEF Delivery!Init
<1>2. TypeInv /\ QueueInv /\ LaneInv /\ [Next]_vars => [Delivery!Next]_(Delivery!delivery)
  <2> DEFINE Seen == Delivery!Next \/ UNCHANGED Delivery!delivery
  <2> SUFFICES ASSUME TypeInv, QueueInv, LaneInv, [Next]_vars PROVE Seen
    OBVIOUS
  <2> USE DEF lanes, loop, history
  <2>1. ASSUME NEW s \in Subscribers, NEW t \in Types, Subscribe(s, t) \/ Unsubscribe(s, t)
        PROVE  Seen
    BY <2>1, UnseenStep DEF Subscribe, Unsubscribe
  <2>2. ASSUME NEW e \in Emitters, EmitCheck(e) \/ EmitReleased(e) PROVE Seen
    BY <2>2, UnseenStep DEF EmitCheck, EmitReleased
  <2>3. ASSUME NEW e \in Emitters, EmitSend(e) PROVE Seen
    BY <2>3, SendIsAccept DEF Delivery!Next
  <2>4. ASSUME NEW u \in Updaters, EmitLatestSignal(u) PROVE Seen
    BY <2>4, UnseenStep DEF EmitLatestSignal
  <2>5. ASSUME NEW u \in Updaters, NEW k \in Keys, EmitLatestStore(u, k) PROVE Seen
    BY <2>5, StoreIsUpdate DEF Delivery!Next
  <2>6. CASE Close
    <3>1. Delivery!Close
      BY <2>6 DEF Close, Delivery!Close, Pending, Elements
    <3> QED
      BY <3>1 DEF Delivery!Next
  <2>7. CASE PollReceive \/ SelectReceive
    BY <2>7, TakeIsTake DEF PollReceive, SelectReceive, Delivery!Next
  <2>8. CASE PollEmpty \/ SelectDone \/ SelectReady \/ PopNothing \/ Rearm
    BY <2>8, UnseenStep DEF PollEmpty, SelectDone, SelectReady, PopNothing, Rearm
  <2>9. CASE PopLatest
    BY <2>9, PopIsRefresh DEF Delivery!Next
  <2>10. CASE DeliverSnapshot \/ DeliverDone
    BY <2>10, UnseenStep DEF DeliverSnapshot, DeliverDone
  <2>11. ASSUME NEW s \in Subscribers, Call(s) PROVE Seen
    BY <2>11, UnseenStep DEF Call
  <2>12. CASE UNCHANGED vars
    BY <2>12, UnseenStep DEF vars
  <2> QED
    BY <2>1, <2>2, <2>3, <2>4, <2>5, <2>6, <2>7, <2>8, <2>9, <2>10, <2>11, <2>12
       DEF Next, Dispatch, EmitStep
<1> QED
  BY <1>1, <1>2, TypeInvariant, QueueInvariant, LaneInvariant, PTL DEF SafetySpec, Delivery!Safety
==============================================================================
