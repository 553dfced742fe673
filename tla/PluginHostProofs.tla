--------------------------- MODULE PluginHostProofs ---------------------------
(***************************************************************************)
(* Theorems about PluginHost, for every number of plugins, processes and   *)
(* callers, every number of requests and every size of the write queue.    *)
(***************************************************************************)
EXTENDS PluginHost, SequenceTheorems, TLAPS

Operations == {"none", "load", "unload", "reload", "enable", "disable", "fetch", "invoke", "shutdown"}
Loaders    == {"load", "enable", "reload"}
Closers    == {"unload", "disable", "reload"}
Waiting    == {"enqueue", "await"}
Asking     == {"register"} \union Waiting
Closing    == {"close", "kill", "closed"}
Places     == Asking \union Closing \union
                {"idle", "saveRow", "lookup", "lock", "start", "install", "failed", "release",
                 "closeAll", "closeQueue"}

Lines == Int \union {None}

InstanceType ==
    [plugin : Plugins \union {None}, up : BOOLEAN, closed : BOOLEAN, done : BOOLEAN,
     reader : {"none", "read", "answer", "end"}, got : Ids \union {None},
     writer : {"none", "wait", "write", "end"}, line : Lines, writeCh : Seq(Lines),
     requests : SUBSET Ids, channel : [Ids -> Ids \union {Open, Shut}], nextId : Nat \ {0},
     known : SUBSET Lines, out : Seq(Lines)]

CallerType ==
    [op : Operations, at : Places, plugin : Plugins \union {None}, inst : Instances \union {None},
     id : Nat, previous : BOOLEAN, answer : Ids \union {None}]

(* Where a caller can stand in each operation, and what it has in hand there. *)
OnTrack(k) ==
    LET op == k.op
        at == k.at
    IN  /\ op = "none" <=> at = "idle"
        /\ op \notin {"none", "shutdown"} => k.plugin \in Plugins
        /\ at = "saveRow" => op \in {"enable", "disable"}
        /\ at = "lookup" => op \in {"fetch", "invoke"}
        /\ at = "lock" => op \notin {"fetch", "invoke"}
        /\ at = "start" => op \in Loaders \union {"fetch"}
        /\ at \in {"idle", "saveRow", "lookup", "lock", "start"} => k.inst = None
        /\ at \in Asking => op \in Loaders \union {"fetch", "invoke"}
        /\ at = "install" => op \in Loaders
        /\ at \in Closing => op \in Loaders \union Closers \union {"fetch"}
        /\ at \in {"closeAll", "closeQueue"} => op = "shutdown"
        /\ at \in Asking \union Closing \union {"install"} => k.inst \in Instances
        /\ at \in Waiting => k.id \in Ids

TypeInv ==
    /\ table \in [Plugins -> Instances \union {None}]
    /\ lock \in Callers \union {None}
    /\ enabledRow \in [Plugins -> BOOLEAN]
    /\ command \in Plugins \union {None}
    /\ ipc \in [Instances -> InstanceType]
    /\ caller \in [Callers -> CallerType]
    /\ \A c \in Callers : OnTrack(caller[c])

(* The request table and the channels of one process.  An answer that was    *)
(* taken out of the table is for a request of before, whose channel is still *)
(* as the call made it.                                                      *)
Agree(k) ==
    /\ \A n \in k.requests : n < k.nextId /\ k.channel[n] = Open
    /\ \A n \in Ids : k.channel[n] \in {Open, Shut, n}
    /\ k.reader = "answer" =>
          k.got \in Ids \ k.requests /\ k.got < k.nextId /\ k.channel[k.got] = Open

ChannelsAgree == \A i \in Instances : Agree(ipc[i])

(* A caller has an answer only once its call has returned, and closes what it *)
(* started only without one, unless it fetches.                               *)
AnswerComesLast ==
    \A c \in Callers :
        \/ caller[c].answer = None
        \/ caller[c].at \in {"install", "failed", "release"}
        \/ caller[c].op = "fetch" /\ caller[c].at \in Closing

RequestInv == ChannelsAgree /\ AnswerComesLast /\ AnswerIsMine /\ RequestHasCall

(* Who changes the table holds pm.mu, and the name it loads is free. *)
HoldsLock ==
    \A c \in Callers :
        /\ caller[c].op \in Loaders \union Closers /\ caller[c].at \notin {"saveRow", "lock"} => lock = c
        /\ caller[c].op \in Loaders /\ caller[c].at \in Asking \union {"start", "install"} =>
              table[caller[c].plugin] = None

ClosesForGood == \A c \in Callers : caller[c].at \in {"kill", "closed"} => ipc[caller[c].inst].closed

(* A call by "invoke" uses a process and owns none. *)
Owner(c, i) ==
    caller[c].inst = i /\ caller[c].op # "invoke" /\ caller[c].at \in Asking \union {"install", "close"}

Owned ==
    \A i \in Instances :
        ipc[i].up /\ ~ipc[i].closed => (\E p \in Plugins : table[p] = i) \/ (\E c \in Callers : Owner(c, i))

CommandHasPlugin == command # None => table[command] # None

OwnerInv == HoldsLock /\ ClosesForGood /\ Owned /\ CommandHasPlugin

Inv == TypeInv /\ RequestInv /\ OwnerInv

------------------------------------------------------------------------------
(* What a step does to its caller *)

Moves(c, place, inst, id, answer) ==
    /\ caller' \in [Callers -> CallerType]
    /\ \A d \in Callers \ {c} : caller'[d] = caller[d]
    /\ caller'[c].at = place /\ caller'[c].inst = inst /\ caller'[c].id = id /\ caller'[c].answer = answer
    /\ caller'[c].op = caller[c].op /\ caller'[c].plugin = caller[c].plugin

LEMMA GotoEffect ==
    ASSUME caller \in [Callers -> CallerType], NEW c \in Callers, NEW place \in Places, Goto(c, place)
    PROVE  Moves(c, place, caller[c].inst, caller[c].id, caller[c].answer)
  BY DEF Goto, CallerType, Moves

BecomesCaller(k, r, place, inst, id, answer) ==
    /\ r \in CallerType
    /\ r.at = place /\ r.inst = inst /\ r.id = id /\ r.answer = answer
    /\ r.op = k.op /\ r.plugin = k.plugin

LEMMA CallerRecords ==
    ASSUME NEW k \in CallerType, NEW place \in Places, NEW i \in Instances \union {None}, NEW n \in Nat,
           NEW answer \in Ids \union {None}
    PROVE  /\ BecomesCaller(k, [k EXCEPT !.at = place, !.inst = i], place, i, k.id, k.answer)
           /\ BecomesCaller(k, [k EXCEPT !.inst = i, !.at = place], place, i, k.id, k.answer)
           /\ BecomesCaller(k, [k EXCEPT !.at = place, !.id = n], place, k.inst, n, k.answer)
           /\ BecomesCaller(k, [k EXCEPT !.answer = answer, !.at = place], place, k.inst, k.id, answer)
<1> USE DEF BecomesCaller, CallerType
<1>1. BecomesCaller(k, [k EXCEPT !.at = place, !.inst = i], place, i, k.id, k.answer)
  OBVIOUS
<1>2. BecomesCaller(k, [k EXCEPT !.inst = i, !.at = place], place, i, k.id, k.answer)
  OBVIOUS
<1>3. BecomesCaller(k, [k EXCEPT !.at = place, !.id = n], place, k.inst, n, k.answer)
  OBVIOUS
<1>4. BecomesCaller(k, [k EXCEPT !.answer = answer, !.at = place], place, k.inst, k.id, answer)
  OBVIOUS
<1> HIDE DEF BecomesCaller, CallerType
<1> QED
  BY <1>1, <1>2, <1>3, <1>4

LEMMA RecordEffect ==
    ASSUME caller \in [Callers -> CallerType], NEW c \in Callers, NEW r, caller' = [caller EXCEPT ![c] = r],
           NEW place, NEW inst, NEW id, NEW answer, BecomesCaller(caller[c], r, place, inst, id, answer)
    PROVE  Moves(c, place, inst, id, answer)
  BY DEF BecomesCaller, Moves

LEMMA TakeEffect ==
    ASSUME caller \in [Callers -> CallerType],
           NEW c \in Callers, NEW place \in Places, NEW i \in Instances \union {None},
           \/ caller' = [caller EXCEPT ![c].at = place, ![c].inst = i]
           \/ caller' = [caller EXCEPT ![c].inst = i, ![c].at = place]
    PROVE  Moves(c, place, i, caller[c].id, caller[c].answer)
<1> DEFINE k == caller[c]
           r1 == [k EXCEPT !.at = place, !.inst = i]
           r2 == [k EXCEPT !.inst = i, !.at = place]
<1>1. caller' = [caller EXCEPT ![c] = r1] \/ caller' = [caller EXCEPT ![c] = r2]
  BY Zenon
<1>2. BecomesCaller(k, r1, place, i, k.id, k.answer) /\ BecomesCaller(k, r2, place, i, k.id, k.answer)
  BY CallerRecords, Zenon
<1> HIDE DEF r1, r2
<1> QED
  BY <1>1, <1>2, RecordEffect

LEMMA RegisterEffect ==
    ASSUME caller \in [Callers -> CallerType], NEW c \in Callers, NEW n \in Nat,
           caller' = [caller EXCEPT ![c].at = "enqueue", ![c].id = n]
    PROVE  Moves(c, "enqueue", caller[c].inst, n, caller[c].answer)
<1> DEFINE k == caller[c]
           place == "enqueue"
           r == [k EXCEPT !.at = place, !.id = n]
<1>1. place \in Places
  BY DEF Places, Asking, Waiting
<1>2. caller' = [caller EXCEPT ![c] = r]
  BY Zenon
<1> HIDE DEF place
<1>3. BecomesCaller(k, r, place, k.inst, n, k.answer)
  BY <1>1, CallerRecords, Zenon
<1> HIDE DEF r
<1> QED
  BY <1>2, <1>3, RecordEffect DEF place

AfterAnswer(c, answer) ==
    IF caller[c].op = "invoke" THEN "release"
    ELSE IF answer = caller[c].id /\ caller[c].op # "fetch" THEN "install" ELSE "close"

LEMMA ReturnedEffect ==
    ASSUME caller \in [Callers -> CallerType], NEW c \in Callers,
           NEW answer \in Ids \union {None}, Returned(c, answer)
    PROVE  Moves(c, AfterAnswer(c, answer), caller[c].inst, caller[c].id, answer)
<1> DEFINE place == AfterAnswer(c, answer)
<1>1. place \in Places
  BY DEF AfterAnswer, Places, Closing
<1>2. caller' = [caller EXCEPT ![c].answer = answer, ![c].at = place]
  BY DEF Returned, AfterAnswer
<1> HIDE DEF place
<1> DEFINE k == caller[c]
           r == [k EXCEPT !.answer = answer, !.at = place]
<1>3. caller' = [caller EXCEPT ![c] = r]
  BY <1>2, Zenon
<1>4. BecomesCaller(k, r, place, k.inst, k.id, answer)
  BY <1>1, CallerRecords, Zenon
<1> HIDE DEF r
<1>5. Moves(c, place, caller[c].inst, caller[c].id, answer)
  BY <1>3, <1>4, RecordEffect
<1> QED
  BY <1>5 DEF place

LEMMA LeaveEffect ==
    ASSUME caller \in [Callers -> CallerType], NEW c \in Callers, Leave(c)
    PROVE  /\ caller' \in [Callers -> CallerType]
           /\ \A d \in Callers \ {c} : caller'[d] = caller[d]
           /\ caller'[c] = Resting
<1>1. Resting \in CallerType
  BY DEF CallerType, Resting, Places, Operations
<1> QED
  BY <1>1 DEF Leave

LEMMA BeginEffect ==
    ASSUME TypeInv, NEW c \in Callers, NEW op \in Operations, NEW p \in Plugins, NEW place \in Places,
           Begin(c, op, p, place)
    PROVE  /\ caller' \in [Callers -> CallerType]
           /\ \A d \in Callers \ {c} : caller'[d] = caller[d]
           /\ caller'[c].op = op /\ caller'[c].at = place /\ caller'[c].plugin = p
           /\ caller'[c].inst = None /\ caller'[c].answer = None
<1> DEFINE k == [Resting EXCEPT !.op = op, !.plugin = p, !.at = place,
                               !.previous = op = "enable" /\ enabledRow[p]]
<1>1. k \in CallerType /\ k.op = op /\ k.at = place /\ k.plugin = p /\ k.inst = None /\ k.answer = None
  BY DEF CallerType, Resting, TypeInv
<1>2. caller' = [caller EXCEPT ![c] = k]
  BY DEF Begin
<1> HIDE DEF k
<1> QED
  BY <1>1, <1>2 DEF TypeInv

------------------------------------------------------------------------------
(* Steps that leave the requests as they are and start no process *)

(* A process as it is but for what it reads and writes, or its end. *)
Talks(k, r) ==
    /\ r \in InstanceType
    /\ r.requests = k.requests /\ r.channel = k.channel
    /\ r.reader = k.reader /\ r.got = k.got /\ r.nextId = k.nextId
    /\ r.up => k.up
    /\ k.closed => r.closed

Endures ==
    /\ ipc' \in [Instances -> InstanceType]
    /\ \A i \in Instances : Talks(ipc[i], ipc'[i])

LEMMA SameTalk == ASSUME NEW k \in InstanceType PROVE Talks(k, k)
  BY DEF Talks

LEMMA TalkEndures ==
    ASSUME ipc \in [Instances -> InstanceType], NEW i \in Instances, NEW r, Talks(ipc[i], r),
           ipc' = [ipc EXCEPT ![i] = r]
    PROVE  Endures
<1>1. ipc' \in [Instances -> InstanceType]
  BY DEF Talks
<1>2. \A j \in Instances : ipc'[j] = IF j = i THEN r ELSE ipc[j]
  OBVIOUS
<1> QED
  BY <1>1, <1>2, SameTalk DEF Endures

LEMMA QueueTalk ==
    ASSUME NEW k \in InstanceType, NEW x \in Lines
    PROVE  /\ Talks(k, [k EXCEPT !.writeCh = Append(@, x)])
           /\ Talks(k, [k EXCEPT !.out = Append(@, x)])
<1> DEFINE w == Append(k.writeCh, x)
           o == Append(k.out, x)
<1>1. w \in Seq(Lines) /\ o \in Seq(Lines)
  BY AppendProperties DEF InstanceType
<1> HIDE DEF w, o
<1>2. Talks(k, [k EXCEPT !.writeCh = w]) /\ Talks(k, [k EXCEPT !.out = o])
  BY <1>1 DEF Talks, InstanceType
<1> QED
  BY <1>2 DEF w, o

LEMMA ReadTalk ==
    ASSUME NEW k \in InstanceType, k.out # <<>>
    PROVE  Talks(k, [k EXCEPT !.out = Tail(@)])
<1> DEFINE o == Tail(k.out)
<1>1. o \in Seq(Lines)
  BY HeadTailProperties DEF InstanceType
<1> HIDE DEF o
<1>2. Talks(k, [k EXCEPT !.out = o])
  BY <1>1 DEF Talks, InstanceType
<1> QED
  BY <1>2 DEF o

LEMMA TakeTalk ==
    ASSUME NEW k \in InstanceType, k.writeCh # <<>>
    PROVE  Talks(k, [k EXCEPT !.writer = "write", !.line = Head(k.writeCh), !.writeCh = Tail(@)])
<1> DEFINE t == Tail(k.writeCh)
           h == Head(k.writeCh)
<1>1. t \in Seq(Lines) /\ h \in Lines
  BY HeadTailProperties DEF InstanceType
<1> HIDE DEF t, h
<1>2. Talks(k, [k EXCEPT !.writer = "write", !.line = h, !.writeCh = t])
  BY <1>1 DEF Talks, InstanceType
<1> QED
  BY <1>2 DEF t, h

LEMMA OtherTalk ==
    ASSUME NEW k \in InstanceType
    PROVE  /\ Talks(k, [k EXCEPT !.writer = "end", !.line = None])
           /\ Talks(k, [k EXCEPT !.writer = "wait", !.line = None, !.known = @ \union ({k.line} \ {Quiet})])
           /\ Talks(k, [k EXCEPT !.up = FALSE])
           /\ Talks(k, [k EXCEPT !.closed = TRUE])
           /\ Talks(k, [k EXCEPT !.done = TRUE, !.up = FALSE])
           /\ Talks(k, [k EXCEPT !.closed = TRUE, !.done = TRUE, !.up = FALSE])
<1>1. None \in Lines /\ {k.line} \ {Quiet} \subseteq Lines
  BY DEF InstanceType, Lines
<1>2. PICK known \in SUBSET Lines : known = k.known \union ({k.line} \ {Quiet})
  BY <1>1 DEF InstanceType
<1>3. Talks(k, [k EXCEPT !.writer = "end", !.line = None])
  BY <1>1 DEF Talks, InstanceType
<1>4. Talks(k, [k EXCEPT !.writer = "wait", !.line = None, !.known = known])
  BY <1>1 DEF Talks, InstanceType
<1>5. /\ Talks(k, [k EXCEPT !.up = FALSE]) /\ Talks(k, [k EXCEPT !.closed = TRUE])
      /\ Talks(k, [k EXCEPT !.done = TRUE, !.up = FALSE])
  BY DEF Talks, InstanceType
<1>6. Talks(k, [k EXCEPT !.closed = TRUE, !.done = TRUE, !.up = FALSE])
  BY DEF Talks, InstanceType
<1> QED
  BY <1>2, <1>3, <1>4, <1>5, <1>6

LEMMA LineStep ==
    ASSUME TypeInv, NEW i \in Instances,
           \/ \E p \in Plugins : table[p] = i /\ Notify(p)
           \/ WriterTakes(i) \/ WriterStops(i) \/ PluginReads(i) \/ PluginWrites(i) \/ PluginExits(i)
           \/ SetMetadata(i) \/ EnqueueAction(i)
    PROVE  Endures /\ UNCHANGED <<manager, caller>>
<1> DEFINE k == ipc[i]
           To(r) == ipc' = [ipc EXCEPT ![i] = r]
<1>1. ipc \in [Instances -> InstanceType] /\ k \in InstanceType
  BY DEF TypeInv
<1>2. ASSUME NEW r, Talks(k, r), To(r) PROVE Endures
  BY <1>1, <1>2, TalkEndures
<1>3. CASE \E p \in Plugins : table[p] = i /\ Notify(p)
  <2>1. To([k EXCEPT !.writeCh = Append(@, Quiet)]) /\ UNCHANGED <<manager, caller>>
    BY <1>1, <1>3 DEF Notify
  <2>2. Quiet \in Lines
    BY DEF Lines, Quiet
  <2> QED
    BY <1>1, <1>2, <2>1, <2>2, QueueTalk
<1>4. CASE WriterTakes(i)
  <2>1. To([k EXCEPT !.writer = "write", !.line = Head(k.writeCh), !.writeCh = Tail(@)])
        /\ k.writeCh # <<>> /\ UNCHANGED <<manager, caller>>
    BY <1>1, <1>4 DEF WriterTakes
  <2> QED
    BY <1>1, <1>2, <2>1, TakeTalk
<1>5. CASE WriterStops(i)
  <2>1. To([k EXCEPT !.writer = "end", !.line = None]) /\ UNCHANGED <<manager, caller>>
    BY <1>1, <1>5 DEF WriterStops
  <2> QED
    BY <1>1, <1>2, <2>1, OtherTalk
<1>6. CASE PluginReads(i)
  <2>1. To([k EXCEPT !.writer = "wait", !.line = None, !.known = @ \union ({k.line} \ {Quiet})])
        /\ UNCHANGED <<manager, caller>>
    BY <1>1, <1>6 DEF PluginReads
  <2> QED
    BY <1>1, <1>2, <2>1, OtherTalk
<1>7. CASE PluginWrites(i)
  <2>1. PICK line \in k.known \union {SetLine, ActLine} : To([k EXCEPT !.out = Append(@, line)])
    BY <1>1, <1>7 DEF PluginWrites
  <2>2. line \in Lines
    BY <1>1, <2>1 DEF InstanceType, Lines, SetLine, ActLine
  <2> QED
    BY <1>1, <1>2, <1>7, <2>1, <2>2, QueueTalk DEF PluginWrites
<1>8. CASE PluginExits(i)
  <2>1. To([k EXCEPT !.up = FALSE]) /\ UNCHANGED <<manager, caller>>
    BY <1>1, <1>8 DEF PluginExits
  <2> QED
    BY <1>1, <1>2, <2>1, OtherTalk
<1>9. CASE SetMetadata(i) \/ EnqueueAction(i)
  <2>1. To([k EXCEPT !.out = Tail(@)]) /\ k.out # <<>> /\ UNCHANGED <<manager, caller>>
    BY <1>1, <1>9 DEF SetMetadata, EnqueueAction, Reads
  <2> QED
    BY <1>1, <1>2, <2>1, ReadTalk
<1> QED
  BY <1>3, <1>4, <1>5, <1>6, <1>7, <1>8, <1>9

LEMMA IpcStays ==
    ASSUME TypeInv, UNCHANGED ipc
    PROVE  Endures
  BY SameTalk DEF TypeInv, Endures

LEMMA NobodyMoves ==
    ASSUME Inv, Endures, UNCHANGED <<table, lock, enabledRow, command, caller>>
    PROVE  Inv'
<1>1. TypeInv'
  BY DEF Inv, TypeInv, Endures
<1>2. RequestInv'
  BY DEF Inv, RequestInv, ChannelsAgree, Agree, AnswerComesLast, AnswerIsMine, RequestHasCall, Endures, Talks
<1>3. OwnerInv'
  <2> USE DEF Inv, OwnerInv, Endures, Talks
  <2>1. HoldsLock' /\ CommandHasPlugin'
    BY DEF HoldsLock, CommandHasPlugin
  <2>2. ClosesForGood'
    BY DEF ClosesForGood, TypeInv, OnTrack, Asking, Waiting, Closing
  <2>3. ASSUME NEW i \in Instances, ipc'[i].up, ~ipc'[i].closed
        PROVE  (\E p \in Plugins : table'[p] = i) \/ (\E c \in Callers : Owner(c, i)')
    BY <2>3 DEF Owned, Owner
  <2> QED
    BY <2>1, <2>2, <2>3 DEF Owned
<1> QED
  BY <1>1, <1>2, <1>3 DEF Inv

------------------------------------------------------------------------------
(* Steps of one caller *)

(* The one that moves; the others stay where they are. *)
OnlyMoves(c) ==
    /\ caller' \in [Callers -> CallerType]
    /\ \A d \in Callers \ {c} : caller'[d] = caller[d]
    /\ OnTrack(caller'[c])

(* An answer is had where it may be had. *)
AnswerInPlace(k) ==
    /\ \/ k.answer = None
       \/ k.at \in {"install", "failed", "release"}
       \/ k.op = "fetch" /\ k.at \in Closing
    /\ k.answer \in {None, k.id}

(* The call goes on, or there was none. *)
KeepsCall(c) ==
    caller[c].at \in Waiting =>
        caller'[c].at \in Waiting /\ caller'[c].inst = caller[c].inst /\ caller'[c].id = caller[c].id

LEMMA TypeStays ==
    ASSUME TypeInv, NEW c \in Callers, OnlyMoves(c), ipc' \in [Instances -> InstanceType],
           table' \in [Plugins -> Instances \union {None}], lock' \in Callers \union {None},
           enabledRow' \in [Plugins -> BOOLEAN], command' \in Plugins \union {None}
    PROVE  TypeInv'
<1>1. \A d \in Callers : OnTrack(caller'[d])
  BY DEF TypeInv, OnlyMoves
<1> QED
  BY <1>1 DEF TypeInv, OnlyMoves

LEMMA RequestsStay ==
    ASSUME TypeInv, RequestInv, NEW c \in Callers, OnlyMoves(c), Endures,
           KeepsCall(c), AnswerInPlace(caller'[c])
    PROVE  RequestInv'
<1>1. ChannelsAgree'
  BY DEF RequestInv, ChannelsAgree, Agree, Endures, Talks
<1>2. AnswerComesLast' /\ AnswerIsMine'
  BY DEF RequestInv, AnswerComesLast, AnswerIsMine, AnswerInPlace, OnlyMoves
<1>3. ASSUME NEW i \in Instances, NEW n \in ipc'[i].requests
      PROVE  \E d \in Callers : caller'[d].inst = i /\ caller'[d].id = n /\ caller'[d].at \in Waiting
  <2>1. PICK d \in Callers : caller[d].inst = i /\ caller[d].id = n /\ caller[d].at \in Waiting
    BY <1>3 DEF RequestInv, RequestHasCall, Endures, Talks, Waiting
  <2> QED
    BY <2>1 DEF OnlyMoves, KeepsCall
<1> QED
  BY <1>1, <1>2, <1>3 DEF RequestInv, RequestHasCall, Waiting

(* No process begins. *)
Lives == \A i \in Instances : (ipc'[i].up => ipc[i].up) /\ (ipc[i].closed => ipc'[i].closed)

LEMMA EnduresLives == ASSUME Endures PROVE Lives
  BY DEF Endures, Talks, Lives

(* It has what its place asks for, and nothing it owns is lost. *)
KeepsHold(c) ==
    /\ \A d \in Callers \ {c} : lock = d => lock' = d
    /\ caller'[c].op \in Loaders \union Closers /\ caller'[c].at \notin {"saveRow", "lock"} => lock' = c
    /\ caller'[c].op \in Loaders /\ caller'[c].at \in Asking \union {"start", "install"} =>
          table[caller'[c].plugin] = None
    /\ caller'[c].at \in {"kill", "closed"} => ipc'[caller'[c].inst].closed
    /\ \A i \in Instances : Owner(c, i) => Owner(c, i)' \/ ipc'[i].closed

LEMMA OwnersStay ==
    ASSUME TypeInv, OwnerInv, NEW c \in Callers, OnlyMoves(c), Lives, KeepsHold(c),
           UNCHANGED <<table, command>>
    PROVE  OwnerInv'
<1>1. HoldsLock'
  BY DEF OwnerInv, HoldsLock, OnlyMoves, KeepsHold
<1>2. ClosesForGood'
  BY DEF OwnerInv, ClosesForGood, OnlyMoves, KeepsHold, Lives, TypeInv, OnTrack, Asking, Waiting, Closing
<1>3. ASSUME NEW i \in Instances, ipc'[i].up, ~ipc'[i].closed
      PROVE  (\E p \in Plugins : table'[p] = i) \/ (\E d \in Callers : Owner(d, i)')
  <2>1. (\E p \in Plugins : table[p] = i) \/ (\E d \in Callers : Owner(d, i))
    BY <1>3 DEF OwnerInv, Owned, Lives
  <2>2. ASSUME NEW d \in Callers \ {c}, Owner(d, i) PROVE Owner(d, i)'
    BY <2>2 DEF Owner, OnlyMoves
  <2>3. ASSUME Owner(c, i) PROVE Owner(c, i)'
    BY <1>3, <2>3 DEF KeepsHold
  <2> QED
    BY <2>1, <2>2, <2>3
<1>4. CommandHasPlugin'
  BY DEF OwnerInv, CommandHasPlugin
<1> QED
  BY <1>1, <1>2, <1>3, <1>4 DEF OwnerInv, Owned

LEMMA CallerMoves ==
    ASSUME Inv, NEW c \in Callers, OnlyMoves(c), Endures, KeepsCall(c), AnswerInPlace(caller'[c]), KeepsHold(c),
           UNCHANGED <<table, command>>,
           lock' \in Callers \union {None}, enabledRow' \in [Plugins -> BOOLEAN]
    PROVE  Inv'
<1>1. TypeInv'
  <2>1. ipc' \in [Instances -> InstanceType]
    BY DEF Endures
  <2>2. table' \in [Plugins -> Instances \union {None}] /\ command' \in Plugins \union {None}
    BY DEF Inv, TypeInv
  <2> QED
    BY <2>1, <2>2, TypeStays DEF Inv
<1>2. RequestInv'
  BY RequestsStay DEF Inv
<1>3. OwnerInv'
  BY OwnersStay, EnduresLives DEF Inv
<1> QED
  BY <1>1, <1>2, <1>3 DEF Inv

LEMMA BeginStep ==
    ASSUME Inv, NEW c \in Callers, NEW p \in Plugins,
           \/ Load(c, p) \/ Unload(c, p) \/ Reload(c, p) \/ Enable(c, p) \/ Disable(c, p)
           \/ Fetch(c, p) \/ Invoke(c, p)
    PROVE  Inv'
<1>1. PICK op \in Operations, place \in Places :
         /\ Begin(c, op, p, place)
         /\ \/ op \in {"load", "unload", "reload"} /\ place = "lock"
            \/ op \in {"enable", "disable"} /\ place = "saveRow"
            \/ op \in {"fetch", "invoke"} /\ place = "lookup"
  BY DEF Load, Unload, Reload, Enable, Disable, Fetch, Invoke, Operations, Places
<1>2. TypeInv /\ caller[c].at = "idle" /\ UNCHANGED <<manager, ipc>>
  BY <1>1 DEF Inv, Begin, At
<1>3. /\ caller' \in [Callers -> CallerType]
      /\ \A d \in Callers \ {c} : caller'[d] = caller[d]
      /\ caller'[c].op = op /\ caller'[c].at = place /\ caller'[c].plugin = p
      /\ caller'[c].inst = None /\ caller'[c].answer = None
  BY <1>1, <1>2, BeginEffect
<1>4. OnlyMoves(c)
  BY <1>1, <1>3 DEF OnlyMoves, OnTrack, Loaders, Closers, Asking, Waiting, Closing
<1>5. KeepsCall(c) /\ AnswerInPlace(caller'[c])
  BY <1>2, <1>3 DEF KeepsCall, AnswerInPlace, Waiting
<1>6. KeepsHold(c)
  BY <1>1, <1>2, <1>3 DEF KeepsHold, Owner, Loaders, Closers, Asking, Waiting, Closing, manager
<1>7. Endures /\ lock' \in Callers \union {None} /\ enabledRow' \in [Plugins -> BOOLEAN]
  BY <1>2, IpcStays DEF TypeInv, manager
<1> QED
  BY <1>2, <1>4, <1>5, <1>6, <1>7, CallerMoves DEF manager

LEMMA ShutdownStep ==
    ASSUME Inv, NEW c \in Callers, Shutdown(c)
    PROVE  Inv'
<1> DEFINE k == [Resting EXCEPT !.op = "shutdown", !.at = "lock"]
<1>1. TypeInv /\ caller[c].at = "idle" /\ UNCHANGED <<manager, ipc>> /\ caller' = [caller EXCEPT ![c] = k]
  BY DEF Inv, Shutdown, At
<1>2. k \in CallerType /\ k.op = "shutdown" /\ k.at = "lock" /\ k.inst = None /\ k.answer = None
  BY DEF CallerType, Resting, Operations, Places
<1> HIDE DEF k
<1>3. caller'[c] = k /\ OnlyMoves(c)
  BY <1>1, <1>2 DEF TypeInv, OnlyMoves, OnTrack, Loaders, Closers, Asking, Waiting, Closing
<1>4. KeepsCall(c) /\ AnswerInPlace(caller'[c])
  BY <1>1, <1>2, <1>3 DEF KeepsCall, AnswerInPlace, Waiting
<1>5. KeepsHold(c)
  BY <1>1, <1>2, <1>3 DEF KeepsHold, Owner, Loaders, Closers, Asking, Waiting, Closing, manager
<1>6. Endures /\ lock' \in Callers \union {None} /\ enabledRow' \in [Plugins -> BOOLEAN]
  BY <1>1, IpcStays DEF TypeInv, manager
<1> QED
  BY <1>1, <1>3, <1>4, <1>5, <1>6, CallerMoves DEF manager

LEMMA LeaveMoves ==
    ASSUME Inv, NEW c \in Callers, Leave(c), caller[c].at \in {"lookup", "release"}, UNCHANGED ipc,
           UNCHANGED <<table, command, enabledRow>>,
           lock' \in Callers \union {None}, \A d \in Callers \ {c} : lock = d => lock' = d
    PROVE  Inv'
<1>1. TypeInv
  BY DEF Inv
<1>2. /\ caller' \in [Callers -> CallerType]
      /\ \A d \in Callers \ {c} : caller'[d] = caller[d]
      /\ caller'[c] = Resting
  BY <1>1, LeaveEffect DEF TypeInv
<1>3. Resting.op = "none" /\ Resting.at = "idle" /\ Resting.inst = None /\ Resting.answer = None
  BY DEF Resting
<1>4. OnlyMoves(c)
  BY <1>2, <1>3 DEF OnlyMoves, OnTrack, Loaders, Closers, Asking, Waiting, Closing
<1>5. KeepsCall(c) /\ AnswerInPlace(caller'[c])
  BY <1>2, <1>3 DEF KeepsCall, AnswerInPlace, Waiting
<1>6. KeepsHold(c)
  BY <1>2, <1>3 DEF KeepsHold, Owner, Loaders, Closers, Asking, Waiting, Closing
<1>7. Endures /\ enabledRow' \in [Plugins -> BOOLEAN]
  BY <1>1, IpcStays DEF TypeInv
<1> QED
  BY <1>4, <1>5, <1>6, <1>7, CallerMoves

LEMMA Here ==
    ASSUME Inv, NEW c \in Callers
    PROVE  /\ TypeInv /\ caller[c] \in CallerType /\ OnTrack(caller[c]) /\ AnswerInPlace(caller[c])
           /\ caller[c].inst \in Instances \union {None} /\ caller[c].id \in Nat
           /\ caller[c].answer \in Ids \union {None} /\ caller[c].op \in Operations
  BY DEF Inv, TypeInv, RequestInv, AnswerComesLast, AnswerIsMine, AnswerInPlace, CallerType

LEMMA SaveRowStep ==
    ASSUME Inv, NEW c \in Callers, SaveRow(c)
    PROVE  Inv'
<1>1. /\ Goto(c, "lock") /\ caller[c].at = "saveRow" /\ UNCHANGED <<table, lock, command, ipc>>
      /\ enabledRow' = [enabledRow EXCEPT ![caller[c].plugin] = (caller[c].op = "enable")]
  BY DEF SaveRow, At
<1>2. Moves(c, "lock", caller[c].inst, caller[c].id, caller[c].answer)
  BY <1>1, Here, GotoEffect DEF TypeInv, Places
<1>3. OnlyMoves(c) /\ AnswerInPlace(caller'[c]) /\ KeepsCall(c)
  BY <1>1, <1>2, Here DEF Moves, OnlyMoves, OnTrack, AnswerInPlace, KeepsCall, Loaders, Closers, Asking, Waiting, Closing
<1>4. KeepsHold(c)
  BY <1>1, <1>2 DEF Moves, KeepsHold, Owner, Asking, Waiting, Closing
<1>5. Endures /\ lock' \in Callers \union {None} /\ enabledRow' \in [Plugins -> BOOLEAN]
  BY <1>1, IpcStays DEF Inv, TypeInv
<1> QED
  BY <1>1, <1>3, <1>4, <1>5, CallerMoves

LEMMA LookupStep ==
    ASSUME Inv, NEW c \in Callers, Lookup(c)
    PROVE  Inv'
<1> DEFINE p == caller[c].plugin
<1>1. caller[c].at = "lookup" /\ UNCHANGED <<table, lock, command, enabledRow, ipc>>
  BY DEF Lookup, At, manager
<1>2. p \in Plugins /\ caller[c].op \in {"fetch", "invoke"} /\ table[p] \in Instances \union {None}
      /\ caller[c].answer = None
  BY <1>1, Here DEF OnTrack, TypeInv, AnswerInPlace, Closing
<1>3. CASE Leave(c)
  BY <1>1, <1>3, Here, LeaveMoves DEF TypeInv
<1>4. CASE ~Leave(c)
  <2>1. \/ /\ caller' = [caller EXCEPT ![c].at = "register", ![c].inst = table[p]]
           /\ caller[c].op = "invoke" /\ table[p] # None
        \/ Goto(c, "start") /\ caller[c].op = "fetch"
    BY <1>4 DEF Lookup
  <2>2. "register" \in Places /\ "start" \in Places
    BY DEF Places, Asking
  <2>3. PICK place \in Places, i \in Instances \union {None} :
           /\ Moves(c, place, i, caller[c].id, caller[c].answer)
           /\ \/ place = "register" /\ caller[c].op = "invoke" /\ i \in Instances
              \/ place = "start" /\ caller[c].op = "fetch" /\ i = caller[c].inst
    BY <1>2, <2>1, <2>2, Here, GotoEffect, TakeEffect DEF TypeInv
  <2>4. caller[c].inst = None
    BY <1>1, Here DEF OnTrack
  <2>5. OnlyMoves(c) /\ AnswerInPlace(caller'[c]) /\ KeepsCall(c)
    BY <1>1, <1>2, <2>3, <2>4, Here
       DEF Moves, OnlyMoves, OnTrack, AnswerInPlace, KeepsCall, Loaders, Closers, Asking, Waiting, Closing
  <2>6. KeepsHold(c)
    BY <1>1, <1>2, <2>3 DEF Moves, KeepsHold, Owner, Loaders, Closers, Asking, Waiting, Closing
  <2>7. Endures /\ lock' \in Callers \union {None} /\ enabledRow' \in [Plugins -> BOOLEAN]
    BY <1>1, IpcStays, Here DEF TypeInv
  <2> QED
    BY <1>1, <2>5, <2>6, <2>7, CallerMoves
<1> QED
  BY <1>3, <1>4

LEMMA TakeLockStep ==
    ASSUME Inv, NEW c \in Callers, TakeLock(c)
    PROVE  Inv'
<1> DEFINE p == caller[c].plugin
           op == caller[c].op
<1>1. /\ caller[c].at = "lock" /\ lock = None /\ lock' = c
      /\ UNCHANGED <<table, command, enabledRow, ipc>>
  BY DEF TakeLock, At, Unlocked
<1>2. /\ op \in {"load", "unload", "reload", "enable", "disable", "shutdown"}
      /\ op # "shutdown" => p \in Plugins /\ table[p] \in Instances \union {None}
      /\ caller[c].answer = None
  BY <1>1, Here DEF OnTrack, TypeInv, AnswerInPlace, Closing, Operations
<1>3. {"closeAll", "release", "start", "close"} \subseteq Places
  BY DEF Places, Closing
<1>4. PICK place \in Places, i \in Instances \union {None} :
         /\ Moves(c, place, i, caller[c].id, caller[c].answer)
         /\ \/ place = "closeAll" /\ op = "shutdown" /\ i = caller[c].inst
            \/ place = "release" /\ op # "shutdown" /\ i = caller[c].inst
            \/ place = "start" /\ op \in Loaders /\ table[p] = None /\ i = caller[c].inst
            \/ place = "close" /\ op \in Closers /\ table[p] \in Instances /\ i = table[p]
  <2>1. \/ Goto(c, "closeAll") /\ op = "shutdown"
        \/ Goto(c, "release") /\ op # "shutdown"
        \/ Goto(c, "start") /\ op \in Loaders /\ table[p] = None
        \/ caller' = [caller EXCEPT ![c].at = "close", ![c].inst = table[p]]
              /\ op \in Closers /\ table[p] \in Instances
    BY <1>2 DEF TakeLock, Loaders, Closers
  <2> QED
    BY <1>2, <1>3, <2>1, Here, GotoEffect, TakeEffect DEF TypeInv
<1>5. caller[c].inst = None
  BY <1>1, Here DEF OnTrack
<1>6. OnlyMoves(c) /\ AnswerInPlace(caller'[c]) /\ KeepsCall(c)
  BY <1>1, <1>2, <1>4, <1>5, Here
     DEF Moves, OnlyMoves, OnTrack, AnswerInPlace, KeepsCall, Loaders, Closers, Asking, Waiting, Closing
<1>7. KeepsHold(c)
  BY <1>1, <1>2, <1>4, NamesAssumption DEF Moves, KeepsHold, Owner, Asking, Waiting, Closing
<1>8. Endures /\ enabledRow' \in [Plugins -> BOOLEAN]
  BY <1>1, IpcStays, Here DEF TypeInv
<1> QED
  BY <1>1, <1>6, <1>7, <1>8, CallerMoves

LEMMA ReleaseStep ==
    ASSUME Inv, NEW c \in Callers, Release(c)
    PROVE  Inv'
<1>1. lock' \in Callers \union {None} /\ \A d \in Callers \ {c} : lock = d => lock' = d
  BY Here DEF Release, TypeInv
<1> QED
  BY <1>1, LeaveMoves DEF Release, At

LEMMA FailedStep ==
    ASSUME Inv, NEW c \in Callers, Failed(c)
    PROVE  Inv'
<1>1. Goto(c, "release") /\ caller[c].at = "failed" /\ UNCHANGED <<table, lock, command, ipc>>
  BY DEF Failed, At
<1>2. Moves(c, "release", caller[c].inst, caller[c].id, caller[c].answer)
  BY <1>1, Here, GotoEffect DEF TypeInv, Places
<1>3. OnlyMoves(c) /\ AnswerInPlace(caller'[c]) /\ KeepsCall(c)
  BY <1>1, <1>2, Here
     DEF Moves, OnlyMoves, OnTrack, AnswerInPlace, KeepsCall, Loaders, Closers, Asking, Waiting, Closing
<1>4. KeepsHold(c)
  BY <1>1, <1>2 DEF Inv, OwnerInv, HoldsLock, Moves, KeepsHold, Owner, Asking, Waiting, Closing
<1>5. enabledRow' \in [Plugins -> BOOLEAN]
  BY Here DEF Failed, TypeInv, CallerType
<1>6. Endures /\ lock' \in Callers \union {None}
  BY <1>1, IpcStays, Here DEF TypeInv
<1> QED
  BY <1>1, <1>3, <1>4, <1>5, <1>6, CallerMoves

------------------------------------------------------------------------------
(* Requests *)

(* The request table and the channels of one process change. *)
Asks(i, requests, channel, nextId) ==
    /\ ipc' \in [Instances -> InstanceType]
    /\ \A j \in Instances \ {i} : ipc'[j] = ipc[j]
    /\ ipc'[i].requests = requests /\ ipc'[i].channel = channel /\ ipc'[i].nextId = nextId
    /\ ipc'[i].reader = ipc[i].reader /\ ipc'[i].got = ipc[i].got
    /\ ipc'[i].up = ipc[i].up /\ ipc'[i].closed = ipc[i].closed

Channels == [Ids -> Ids \union {Open, Shut}]

AskedFields(k, r, requests, channel, nextId) ==
    /\ r \in InstanceType
    /\ r.requests = requests /\ r.channel = channel /\ r.nextId = nextId
    /\ r.reader = k.reader /\ r.got = k.got /\ r.up = k.up /\ r.closed = k.closed

LEMMA AskedRecord ==
    ASSUME NEW k \in InstanceType, NEW requests \in SUBSET Ids, NEW channel \in Channels, NEW nextId \in Nat \ {0}
    PROVE  AskedFields(k, [k EXCEPT !.nextId = nextId, !.requests = requests, !.channel = channel],
                       requests, channel, nextId)
  BY DEF AskedFields, InstanceType, Channels

LEMMA AskEffect ==
    ASSUME ipc \in [Instances -> InstanceType], NEW i \in Instances,
           NEW requests \in SUBSET Ids, NEW channel \in Channels, NEW nextId \in Nat \ {0},
           ipc' = [ipc EXCEPT ![i] = [@ EXCEPT !.nextId = nextId, !.requests = requests, !.channel = channel]]
    PROVE  Asks(i, requests, channel, nextId)
<1> DEFINE r == [ipc[i] EXCEPT !.nextId = nextId, !.requests = requests, !.channel = channel]
<1>1. AskedFields(ipc[i], r, requests, channel, nextId)
  BY AskedRecord
<1>2. ipc' = [ipc EXCEPT ![i] = r]
  OBVIOUS
<1> HIDE DEF r
<1> QED
  BY <1>1, <1>2 DEF Asks, AskedFields

LEMMA RegisterAsks ==
    ASSUME ipc \in [Instances -> InstanceType], NEW i \in Instances, NEW n \in Ids, NEW next \in Nat \ {0},
           ipc' = [ipc EXCEPT ![i].nextId = next, ![i].requests = @ \union {n}, ![i].channel[n] = Open]
    PROVE  Asks(i, ipc[i].requests \union {n}, [ipc[i].channel EXCEPT ![n] = Open], next)
<1>1. ipc[i].requests \union {n} \in SUBSET Ids /\ [ipc[i].channel EXCEPT ![n] = Open] \in Channels
  BY DEF InstanceType, Channels
<1>2. ipc' = [ipc EXCEPT ![i] = [@ EXCEPT !.nextId = next, !.requests = ipc[i].requests \union {n},
                                          !.channel = [ipc[i].channel EXCEPT ![n] = Open]]]
  OBVIOUS
<1> QED
  BY <1>1, <1>2, AskEffect

LEMMA AwaitAsks ==
    ASSUME ipc \in [Instances -> InstanceType], NEW i \in Instances, NEW n \in Ids,
           ipc' = [ipc EXCEPT ![i].channel[n] = Shut]
    PROVE  Asks(i, ipc[i].requests, [ipc[i].channel EXCEPT ![n] = Shut], ipc[i].nextId)
<1>1. ipc[i].requests \in SUBSET Ids /\ [ipc[i].channel EXCEPT ![n] = Shut] \in Channels
      /\ ipc[i].nextId \in Nat \ {0}
  BY DEF InstanceType, Channels, Ids, Open, Shut
<1> DEFINE k == ipc[i]
           shut == [k.channel EXCEPT ![n] = Shut]
<1>2. ipc' = [ipc EXCEPT ![i] = [k EXCEPT !.channel = shut]]
  OBVIOUS
<1>3. k \in InstanceType
  OBVIOUS
<1> HIDE DEF k, shut
<1>4. [k EXCEPT !.channel = shut] = [k EXCEPT !.nextId = k.nextId, !.requests = k.requests, !.channel = shut]
  BY <1>3 DEF InstanceType
<1>5. ipc' = [ipc EXCEPT ![i] = [@ EXCEPT !.nextId = ipc[i].nextId, !.requests = ipc[i].requests, !.channel = shut]]
  BY <1>2, <1>4 DEF k
<1> QED
  BY <1>1, <1>5, AskEffect DEF k, shut

Abandoned(i, n) ==
    [ipc[i].channel EXCEPT ![n] = IF ipc[i].reader = "answer" /\ ipc[i].got = n THEN @ ELSE Shut]

LEMMA GiveUpAsks ==
    ASSUME ipc \in [Instances -> InstanceType], NEW c \in Callers, GiveUp(c),
           caller[c].inst \in Instances, caller[c].id \in Ids
    PROVE  /\ Asks(caller[c].inst, Instance(c).requests \ {caller[c].id},
                   Abandoned(caller[c].inst, caller[c].id), Instance(c).nextId)
           /\ Returned(c, None)
<1> DEFINE i == caller[c].inst
           n == caller[c].id
<1>1. /\ ipc' = [ipc EXCEPT ![i].requests = @ \ {n},
                            ![i].channel[n] = IF ipc[i].reader = "answer" /\ ipc[i].got = n THEN @ ELSE Shut]
      /\ Returned(c, None) /\ i \in Instances /\ n \in Ids
  BY DEF GiveUp
<1> HIDE DEF i, n
<1>2. ipc[i].requests \ {n} \in SUBSET Ids /\ Abandoned(i, n) \in Channels /\ ipc[i].nextId \in Nat \ {0}
  <2>1. ipc[i].requests \in SUBSET Ids /\ ipc[i].channel \in Channels /\ ipc[i].nextId \in Nat \ {0}
    BY <1>1 DEF InstanceType, Channels
  <2>2. ASSUME NEW old \in Channels, NEW v, v = Shut \/ v = old[n] PROVE [old EXCEPT ![n] = v] \in Channels
    BY <1>1, <2>2 DEF Channels
  <2> QED
    BY <2>1, <2>2 DEF Abandoned
<1>3. ipc' = [ipc EXCEPT ![i] = [@ EXCEPT !.requests = ipc[i].requests \ {n}, !.channel = Abandoned(i, n)]]
  BY <1>1 DEF Abandoned
<1> DEFINE k == ipc[i]
           rest == k.requests \ {n}
           left == Abandoned(i, n)
<1>4. k \in InstanceType
  BY <1>1
<1> HIDE DEF k, rest, left
<1>5. [k EXCEPT !.requests = rest, !.channel = left]
        = [k EXCEPT !.nextId = k.nextId, !.requests = rest, !.channel = left]
  BY <1>4 DEF InstanceType
<1>6. ipc' = [ipc EXCEPT ![i] = [@ EXCEPT !.nextId = ipc[i].nextId, !.requests = rest, !.channel = left]]
  BY <1>3, <1>5 DEF k, rest, left
<1>7. Asks(i, ipc[i].requests \ {n}, Abandoned(i, n), ipc[i].nextId)
  BY <1>1, <1>2, <1>6, AskEffect DEF k, rest, left
<1> QED
  BY <1>1, <1>7 DEF i, n, Instance

(* What a call does to the table and the channels leaves them in agreement: a *)
(* new request has an open channel, and one that is not in the table any more  *)
(* may have its channel closed, unless its answer is about to be delivered.    *)
LEMMA AskAgrees ==
    ASSUME NEW k \in InstanceType, NEW r, Agree(k), k.nextId \in Ids,
           r.requests = k.requests \union {k.nextId}, r.channel = [k.channel EXCEPT ![k.nextId] = Open],
           r.nextId = k.nextId + 1, r.reader = k.reader, r.got = k.got
    PROVE  Agree(r)
<1>1. PICK n \in Ids : n = k.nextId
  OBVIOUS
<1>2. \A m \in Ids : m \in Int /\ (m < n => m < n + 1 /\ m # n) /\ n < n + 1
  BY DEF Ids
<1>3. PICK old, chan : old = k.channel /\ chan = r.channel
  OBVIOUS
<1>4. chan = [old EXCEPT ![n] = Open] /\ DOMAIN old = Ids
  BY <1>1, <1>3 DEF InstanceType
<1>5. chan[n] = Open /\ \A m \in Ids \ {n} : chan[m] = old[m]
  BY <1>4
<1>6. \A m \in k.requests : m \in Ids /\ m < n /\ old[m] = Open
  BY <1>1, <1>3 DEF Agree, InstanceType
<1>7. r.requests = k.requests \union {n} /\ r.nextId = n + 1
  BY <1>1
<1>8. \A m \in r.requests : m < r.nextId /\ r.channel[m] = Open
  BY <1>2, <1>3, <1>5, <1>6, <1>7
<1>9. \A m \in Ids : r.channel[m] \in {Open, Shut, m}
  BY <1>3, <1>5 DEF Agree
<1>10. ASSUME r.reader = "answer" PROVE r.got \in Ids \ r.requests /\ r.got < r.nextId /\ r.channel[r.got] = Open
  <2>1. k.got \in Ids \ k.requests /\ k.got < n /\ old[k.got] = Open /\ r.got = k.got
    BY <1>1, <1>3, <1>10 DEF Agree
  <2> QED
    BY <1>2, <1>3, <1>5, <1>7, <2>1
<1> QED
  BY <1>8, <1>9, <1>10 DEF Agree

LEMMA ShutAgrees ==
    ASSUME NEW k \in InstanceType, NEW r, Agree(k), NEW n \in Ids \ k.requests,
           ~(k.reader = "answer" /\ k.got = n),
           r.requests = k.requests, r.channel = [k.channel EXCEPT ![n] = Shut],
           r.nextId = k.nextId, r.reader = k.reader, r.got = k.got
    PROVE  Agree(r)
<1>1. k.requests \subseteq Ids /\ k.channel \in [Ids -> Ids \union {Open, Shut}]
  BY DEF InstanceType
<1>2. \A m \in r.requests : m < r.nextId /\ r.channel[m] = Open
  BY <1>1 DEF Agree
<1>3. \A m \in Ids : r.channel[m] \in {Open, Shut, m}
  BY <1>1 DEF Agree
<1>4. ASSUME r.reader = "answer" PROVE r.got \in Ids \ r.requests /\ r.got < r.nextId /\ r.channel[r.got] = Open
  BY <1>1, <1>4 DEF Agree
<1> QED
  BY <1>2, <1>3, <1>4 DEF Agree

(* A step of a call: who calls has the lock it had, and owns what it owned. *)
LEMMA AskingKeepsHold ==
    ASSUME Inv, NEW c \in Callers, NEW place, NEW n, NEW answer,
           Moves(c, place, caller[c].inst, n, answer), caller[c].at \in Asking,
           \/ place \in {"enqueue", "await", "close"}
           \/ place = "install" /\ caller[c].op \in Loaders
           \/ place = "release" /\ caller[c].op = "invoke",
           UNCHANGED <<table, lock>>
    PROVE  KeepsHold(c)
  BY DEF Inv, OwnerInv, HoldsLock, Moves, KeepsHold, Owner, Asking, Waiting, Loaders, Closers

LEMMA AsksLives ==
    ASSUME NEW i \in Instances, NEW requests, NEW channel, NEW nextId, Asks(i, requests, channel, nextId)
    PROVE  Lives
  BY DEF Asks, Lives

LEMMA ReturnedMoves ==
    ASSUME Inv, NEW c \in Callers, caller[c].at \in Asking, NEW answer \in Ids \union {None},
           answer \in {None, caller[c].id}, Returned(c, answer), UNCHANGED <<table, lock>>
    PROVE  /\ OnlyMoves(c) /\ AnswerInPlace(caller'[c]) /\ KeepsHold(c)
           /\ caller'[c].at \notin Waiting
<1> DEFINE place == AfterAnswer(c, answer)
<1>1. Moves(c, place, caller[c].inst, caller[c].id, answer)
  BY Here, ReturnedEffect DEF TypeInv
<1>2. OnTrack(caller[c]) /\ caller[c].op \in Loaders \union {"fetch", "invoke"}
      /\ caller[c].inst \in Instances /\ caller[c].plugin \in Plugins
  BY Here DEF OnTrack, Asking, Waiting, Loaders
<1>3. \/ place = "close" /\ caller[c].op # "invoke"
            /\ (answer = None \/ caller[c].op = "fetch")
      \/ place = "install" /\ caller[c].op \in Loaders
      \/ place = "release" /\ caller[c].op = "invoke"
  BY <1>2 DEF AfterAnswer
<1> HIDE DEF place
<1>4. OnlyMoves(c)
  BY <1>1, <1>2, <1>3 DEF Moves, OnlyMoves, OnTrack, Loaders, Closers, Asking, Waiting, Closing
<1>5. AnswerInPlace(caller'[c]) /\ caller'[c].at \notin Waiting
  BY <1>1, <1>3 DEF Moves, AnswerInPlace, Waiting, Closing
<1>6. KeepsHold(c)
  BY <1>1, <1>3, AskingKeepsHold
<1> QED
  BY <1>4, <1>5, <1>6

(* A call that asks or returns: the others are not concerned. *)
LEMMA AskStep ==
    ASSUME Inv, NEW c \in Callers, OnlyMoves(c), AnswerInPlace(caller'[c]), KeepsHold(c),
           UNCHANGED <<table, lock, command, enabledRow>>,
           ipc' \in [Instances -> InstanceType], Lives, ChannelsAgree', RequestHasCall'
    PROVE  Inv'
<1>1. TypeInv'
  BY TypeStays DEF Inv, TypeInv
<1>2. RequestInv'
  <2>1. AnswerComesLast' /\ AnswerIsMine'
    BY DEF Inv, RequestInv, AnswerComesLast, AnswerIsMine, AnswerInPlace, OnlyMoves
  <2> QED
    BY <2>1 DEF RequestInv
<1>3. OwnerInv'
  BY OwnersStay DEF Inv
<1> QED
  BY <1>1, <1>2, <1>3 DEF Inv

LEMMA RegisterStep ==
    ASSUME Inv, NEW c \in Callers, Register(c)
    PROVE  Inv'
<1> DEFINE i == caller[c].inst
           n == ipc[i].nextId
<1>1. caller[c].at = "register" /\ UNCHANGED <<table, lock, command, enabledRow>>
  BY DEF Register, At, manager
<1>2. /\ i \in Instances /\ ipc[i] \in InstanceType /\ n \in Nat \ {0} /\ ipc \in [Instances -> InstanceType]
      /\ caller[c].answer = None
  BY <1>1, Here DEF OnTrack, TypeInv, InstanceType, Asking, AnswerInPlace, Closing
<1>3. CASE Returned(c, None) /\ UNCHANGED ipc
  <2>1. OnlyMoves(c) /\ AnswerInPlace(caller'[c]) /\ KeepsHold(c)
    BY <1>1, <1>3, ReturnedMoves DEF Asking
  <2>2. KeepsCall(c)
    BY <1>1 DEF KeepsCall, Waiting
  <2> QED
    BY <1>1, <1>3, <2>1, <2>2, CallerMoves, IpcStays, Here DEF TypeInv
<1> DEFINE next == n + 1
<1>4. n \in Nat /\ MaxId \in Nat /\ next \in Nat \ {0} /\ (n <= MaxId => n \in Ids)
  BY <1>2, CapsAssumption DEF Ids
<1>5. CASE /\ n <= MaxId
           /\ ipc' = [ipc EXCEPT ![i].nextId = next, ![i].requests = @ \union {n}, ![i].channel[n] = Open]
           /\ caller' = [caller EXCEPT ![c].at = "enqueue", ![c].id = n]
  <2>1. n \in Ids
    BY <1>5, <1>4
  <2>2. Asks(i, ipc[i].requests \union {n}, [ipc[i].channel EXCEPT ![n] = Open], next)
    <3> HIDE DEF next, n, i
    <3> QED
      BY <1>2, <1>5, <1>4, <2>1, RegisterAsks
  <2>3. Moves(c, "enqueue", i, n, None)
    BY <1>2, <1>5, <2>1, Here, RegisterEffect DEF TypeInv
  <2>4. OnlyMoves(c) /\ AnswerInPlace(caller'[c])
    BY <1>1, <1>2, <2>1, <2>3, Here
       DEF Moves, OnlyMoves, OnTrack, AnswerInPlace, Loaders, Closers, Asking, Waiting, Closing
  <2>5. KeepsHold(c)
    BY <1>1, <2>3, AskingKeepsHold DEF Asking
  <2>6. ChannelsAgree'
    <3>1. Agree(ipc[i])
      BY <1>2 DEF Inv, RequestInv, ChannelsAgree
    <3>2. Agree(ipc'[i])
      BY <1>2, <2>1, <2>2, <3>1, AskAgrees DEF Asks
    <3> QED
      BY <2>2, <3>2 DEF Inv, RequestInv, ChannelsAgree, Asks
  <2>7. RequestHasCall'
    <3>1. ASSUME NEW j \in Instances, NEW m \in ipc'[j].requests, ~(j = i /\ m = n)
          PROVE  m \in ipc[j].requests
      BY <2>2, <3>1 DEF Asks
    <3>2. ASSUME NEW j \in Instances, NEW m \in ipc[j].requests
          PROVE  \E d \in Callers \ {c} : caller[d].inst = j /\ caller[d].id = m /\ caller[d].at \in {"enqueue", "await"}
      BY <1>1 DEF Inv, RequestInv, RequestHasCall
    <3>3. caller'[c].inst = i /\ caller'[c].id = n /\ caller'[c].at = "enqueue"
      BY <2>3 DEF Moves
    <3> QED
      BY <3>1, <3>2, <3>3, <2>4 DEF OnlyMoves, RequestHasCall
  <2> QED
    BY <1>1, <2>2, <2>4, <2>5, <2>6, <2>7, AsksLives, AskStep, <1>2 DEF Asks
<1> QED
  BY <1>3, <1>5, <1>4 DEF Register

LEMMA GiveUpStep ==
    ASSUME Inv, NEW c \in Callers, caller[c].at \in Waiting, GiveUp(c), UNCHANGED manager
    PROVE  Inv'
<1> DEFINE i == caller[c].inst
           n == caller[c].id
<1>1. /\ i \in Instances /\ n \in Ids /\ ipc \in [Instances -> InstanceType] /\ ipc[i] \in InstanceType
      /\ UNCHANGED <<table, lock, command, enabledRow>>
  BY Here DEF OnTrack, TypeInv, Asking, Waiting, manager
<1>2. Asks(i, ipc[i].requests \ {n}, Abandoned(i, n), ipc[i].nextId) /\ Returned(c, None)
  BY <1>1, GiveUpAsks DEF Instance
<1>3. OnlyMoves(c) /\ AnswerInPlace(caller'[c]) /\ KeepsHold(c) /\ caller'[c].at \notin Waiting
  BY <1>1, <1>2, ReturnedMoves DEF Asking
<1>4. ChannelsAgree'
  <2>1. Agree(ipc[i])
    BY <1>1 DEF Inv, RequestInv, ChannelsAgree
  <2>2. ipc[i].requests \subseteq Ids /\ ipc[i].channel \in [Ids -> Ids \union {Open, Shut}]
    BY <1>1 DEF InstanceType
  <2>3. Agree(ipc'[i])
    <3> HIDE DEF i, n
    <3>1. /\ ipc'[i].requests = ipc[i].requests \ {n} /\ ipc'[i].nextId = ipc[i].nextId
          /\ ipc'[i].reader = ipc[i].reader /\ ipc'[i].got = ipc[i].got
          /\ \A m \in Ids : ipc'[i].channel[m] = IF m = n /\ ~(ipc[i].reader = "answer" /\ ipc[i].got = n)
                                                 THEN Shut ELSE ipc[i].channel[m]
      BY <1>1, <1>2, <2>2 DEF Asks, Abandoned
    <3> QED
      BY <2>1, <2>2, <3>1 DEF Agree
  <2> QED
    BY <1>2, <2>3 DEF Inv, RequestInv, ChannelsAgree, Asks
<1>5. RequestHasCall'
  <2>1. ASSUME NEW j \in Instances, NEW m \in ipc'[j].requests
        PROVE  m \in ipc[j].requests /\ ~(j = i /\ m = n)
    BY <1>2 DEF Asks
  <2>2. ASSUME NEW j \in Instances, NEW m \in ipc[j].requests, ~(j = i /\ m = n)
        PROVE  \E d \in Callers \ {c} : caller[d].inst = j /\ caller[d].id = m /\ caller[d].at \in {"enqueue", "await"}
    BY <2>2 DEF Inv, RequestInv, RequestHasCall
  <2> QED
    BY <2>1, <2>2, <1>3 DEF OnlyMoves, RequestHasCall
<1> QED
  BY <1>1, <1>2, <1>3, <1>4, <1>5, AsksLives, AskStep DEF Asks

LEMMA EnqueueStep ==
    ASSUME Inv, NEW c \in Callers, Enqueue(c)
    PROVE  Inv'
<1> DEFINE i == caller[c].inst
<1>1. caller[c].at = "enqueue" /\ UNCHANGED <<table, lock, command, enabledRow>> /\ UNCHANGED manager
  BY DEF Enqueue, At, manager
<1>2. /\ i \in Instances /\ ipc \in [Instances -> InstanceType] /\ ipc[i] \in InstanceType
      /\ caller[c].id \in Lines /\ caller[c].answer = None
  BY <1>1, Here DEF OnTrack, TypeInv, Asking, Waiting, Lines, AnswerInPlace, Closing
<1>3. CASE ipc' = [ipc EXCEPT ![i].writeCh = Append(@, caller[c].id)] /\ Goto(c, "await")
  <2>1. Endures
    <3> DEFINE n == caller[c].id
    <3>1. ipc' = [ipc EXCEPT ![i].writeCh = Append(@, n)] /\ n \in Lines
      BY <1>2, <1>3
    <3> HIDE DEF n, i
    <3>2. Talks(ipc[i], [ipc[i] EXCEPT !.writeCh = Append(@, n)])
      BY <1>2, <3>1, QueueTalk
    <3>3. ipc' = [ipc EXCEPT ![i] = [ipc[i] EXCEPT !.writeCh = Append(@, n)]]
      BY <1>2, <3>1
    <3> QED
      BY <1>2, <3>2, <3>3, TalkEndures
  <2>2. Moves(c, "await", i, caller[c].id, None)
    BY <1>2, <1>3, Here, GotoEffect DEF TypeInv, Places, Asking, Waiting
  <2>3. OnlyMoves(c) /\ AnswerInPlace(caller'[c]) /\ KeepsCall(c)
    BY <1>1, <1>2, <2>2, Here
       DEF Moves, OnlyMoves, OnTrack, AnswerInPlace, KeepsCall, Loaders, Closers, Asking, Waiting, Closing
  <2>4. KeepsHold(c)
    BY <1>1, <2>2, AskingKeepsHold DEF Asking, Waiting
  <2> QED
    BY <1>1, <2>1, <2>3, <2>4, CallerMoves, Here DEF TypeInv
<1>4. CASE GiveUp(c)
  BY <1>1, <1>4, GiveUpStep DEF Waiting
<1> QED
  BY <1>3, <1>4 DEF Enqueue

LEMMA AwaitStep ==
    ASSUME Inv, NEW c \in Callers, Await(c)
    PROVE  Inv'
<1> DEFINE i == caller[c].inst
           n == caller[c].id
           there == ipc[i].channel[n]
<1>1. caller[c].at = "await" /\ UNCHANGED <<table, lock, command, enabledRow>> /\ UNCHANGED manager
  BY DEF Await, At, manager
<1>2. i \in Instances /\ n \in Ids /\ ipc \in [Instances -> InstanceType] /\ ipc[i] \in InstanceType
  BY <1>1, Here DEF OnTrack, TypeInv, Asking, Waiting
<1>3. Agree(ipc[i]) /\ there \in {Open, Shut, n}
  BY <1>2 DEF Inv, RequestInv, ChannelsAgree, Agree
<1>4. CASE /\ there \in Ids
           /\ Returned(c, there) \/ Returned(c, None)
           /\ ipc' = [ipc EXCEPT ![i].channel[n] = Shut]
  <2>1. there = n /\ n # Open
    BY <1>3, <1>4 DEF Ids, Open, Shut
  <2>2. Asks(i, ipc[i].requests, [ipc[i].channel EXCEPT ![n] = Shut], ipc[i].nextId)
    <3> HIDE DEF i, n
    <3> QED
      BY <1>2, <1>4, AwaitAsks
  <2>3. OnlyMoves(c) /\ AnswerInPlace(caller'[c]) /\ KeepsHold(c) /\ caller'[c].at \notin Waiting
    BY <1>1, <1>2, <1>4, <2>1, ReturnedMoves DEF Asking, Waiting
  <2>4. n \notin ipc[i].requests /\ ~(ipc[i].reader = "answer" /\ ipc[i].got = n)
    BY <1>3, <2>1 DEF Agree
  <2>5. ChannelsAgree'
    <3>1. Agree(ipc'[i])
      BY <1>2, <1>3, <2>2, <2>4, ShutAgrees DEF Asks
    <3> QED
      BY <2>2, <3>1 DEF Inv, RequestInv, ChannelsAgree, Asks
  <2>6. RequestHasCall'
    <3>1. ASSUME NEW j \in Instances
          PROVE  ipc'[j].requests = ipc[j].requests
      BY <2>2 DEF Asks
    <3>2. ASSUME NEW j \in Instances, NEW m \in ipc[j].requests
          PROVE  \E d \in Callers \ {c} : caller[d].inst = j /\ caller[d].id = m /\ caller[d].at \in {"enqueue", "await"}
      BY <2>4 DEF Inv, RequestInv, RequestHasCall
    <3> QED
      BY <3>1, <3>2, <2>3 DEF OnlyMoves, RequestHasCall
  <2>7. Lives /\ ipc' \in [Instances -> InstanceType]
    <3>1. Lives
      BY <1>2, <2>2, AsksLives
    <3> QED
      BY <2>2, <3>1 DEF Asks
  <2> HIDE DEF there
  <2> QED
    BY <1>1, <2>3, <2>5, <2>6, <2>7, AskStep
<1>5. CASE there = Shut /\ Returned(c, None) /\ UNCHANGED ipc
  <2>1. OnlyMoves(c) /\ AnswerInPlace(caller'[c]) /\ KeepsHold(c) /\ caller'[c].at \notin Waiting
    BY <1>1, <1>5, ReturnedMoves DEF Asking, Waiting
  <2>2. n \notin ipc[i].requests
    BY <1>3, <1>5 DEF Agree, Open, Shut
  <2>3. RequestHasCall'
    <3>1. ASSUME NEW j \in Instances, NEW m \in ipc[j].requests
          PROVE  \E d \in Callers \ {c} : caller[d].inst = j /\ caller[d].id = m /\ caller[d].at \in {"enqueue", "await"}
      BY <2>2 DEF Inv, RequestInv, RequestHasCall
    <3> QED
      BY <1>5, <3>1, <2>1 DEF OnlyMoves, RequestHasCall
  <2>4. ChannelsAgree' /\ Lives
    BY <1>5 DEF Inv, RequestInv, ChannelsAgree, Lives
  <2> QED
    BY <1>1, <1>2, <1>5, <2>1, <2>3, <2>4, AskStep
<1>6. CASE GiveUp(c)
  BY <1>1, <1>6, GiveUpStep DEF Waiting
<1> QED
  BY <1>4, <1>5, <1>6 DEF Await

------------------------------------------------------------------------------
(* A process begins, enters the table and leaves it *)

LEMMA NewType ==
    /\ NewInstance \in InstanceType
    /\ NewInstance.requests = {} /\ NewInstance.channel = [n \in Ids |-> Shut]
    /\ NewInstance.reader = "none" /\ NewInstance.up = FALSE /\ NewInstance.closed = FALSE
<1>1. [n \in Ids |-> Shut] \in [Ids -> Ids \union {Open, Shut}]
  OBVIOUS
<1>2. <<>> \in Seq(Lines)
  BY EmptySeq
<1> QED
  BY <1>1, <1>2 DEF InstanceType, Lines, NewInstance

LEMMA StartStep ==
    ASSUME Inv, NEW c \in Callers, Start(c)
    PROVE  Inv'
<1> DEFINE p == caller[c].plugin
           op == caller[c].op
<1>1. caller[c].at = "start" /\ UNCHANGED <<table, lock, command, enabledRow>>
  BY DEF Start, At, manager
<1>2. /\ TypeInv /\ op \in Loaders \union {"fetch"} /\ caller[c].inst = None /\ caller[c].answer = None
      /\ p \in Plugins
      /\ op \in Loaders => lock = c /\ table[p] = None
  BY <1>1, Here DEF OnTrack, AnswerInPlace, Closing, Inv, OwnerInv, HoldsLock, Loaders
<1>3. ASSUME NEW i \in Instances, ipc[i] = NewInstance,
             ipc' = [ipc EXCEPT ![i] = [NewInstance EXCEPT
                        !.plugin = p, !.up = TRUE, !.reader = "read", !.writer = "wait"]],
             caller' = [caller EXCEPT ![c].inst = i, ![c].at = "register"]
      PROVE  Inv'
  <2> DEFINE r == [NewInstance EXCEPT !.plugin = p, !.up = TRUE, !.reader = "read", !.writer = "wait"]
  <2>1. r \in InstanceType /\ r.requests = {} /\ r.channel = [n \in Ids |-> Shut] /\ r.reader = "read"
        /\ ipc[i].closed = FALSE
    BY <1>2, <1>3, NewType DEF InstanceType
  <2>2. Agree(r)
    BY <2>1 DEF Agree
  <2>3. ipc' = [ipc EXCEPT ![i] = r]
    BY <1>3
  <2> HIDE DEF r
  <2>4. /\ ipc' \in [Instances -> InstanceType] /\ ipc'[i] = r
        /\ \A j \in Instances \ {i} : ipc'[j] = ipc[j]
    BY <2>1, <2>3, <1>2 DEF TypeInv
  <2>5. Moves(c, "register", i, caller[c].id, None)
    BY <1>2, <1>3, TakeEffect DEF TypeInv, Places, Asking
  <2>6. OnlyMoves(c) /\ AnswerInPlace(caller'[c])
    BY <1>1, <1>2, <2>5, Here
       DEF Moves, OnlyMoves, OnTrack, AnswerInPlace, Loaders, Closers, Asking, Waiting, Closing
  <2>7. TypeInv'
    BY <1>1, <1>2, <2>4, <2>6, TypeStays DEF TypeInv
  <2>8. RequestInv'
    <3>1. ChannelsAgree'
      BY <2>2, <2>4 DEF Inv, RequestInv, ChannelsAgree
    <3>2. AnswerComesLast' /\ AnswerIsMine'
      BY <2>6 DEF Inv, RequestInv, AnswerComesLast, AnswerIsMine, AnswerInPlace, OnlyMoves
    <3>3. ASSUME NEW j \in Instances, NEW m \in ipc'[j].requests
          PROVE  \E d \in Callers : caller'[d].inst = j /\ caller'[d].id = m /\ caller'[d].at \in {"enqueue", "await"}
      <4>1. m \in ipc[j].requests
        BY <2>1, <2>4, <3>3
      <4>2. PICK d \in Callers : caller[d].inst = j /\ caller[d].id = m /\ caller[d].at \in {"enqueue", "await"}
        BY <4>1 DEF Inv, RequestInv, RequestHasCall
      <4> QED
        BY <1>1, <4>2, <2>6 DEF OnlyMoves
    <3> QED
      BY <3>1, <3>2, <3>3 DEF RequestInv, RequestHasCall
  <2>9. OwnerInv'
    <3>1. HoldsLock' /\ CommandHasPlugin'
      BY <1>1, <1>2, <2>5, <2>6 DEF Inv, OwnerInv, HoldsLock, CommandHasPlugin, OnlyMoves, Moves, Closers, Loaders
    <3>2. ClosesForGood'
      BY <2>1, <2>4, <2>5, <2>6, <1>2 DEF Inv, OwnerInv, ClosesForGood, OnlyMoves, Moves, TypeInv, OnTrack, Closing
    <3>3. Owner(c, i)'
      BY <1>2, <2>5 DEF Owner, Moves, Asking, Loaders
    <3>4. ASSUME NEW j \in Instances \ {i}, ipc'[j].up, ~ipc'[j].closed
          PROVE  (\E q \in Plugins : table'[q] = j) \/ (\E d \in Callers : Owner(d, j)')
      <4>1. (\E q \in Plugins : table[q] = j) \/ (\E d \in Callers : Owner(d, j))
        BY <3>4, <2>4 DEF Inv, OwnerInv, Owned
      <4>2. ASSUME NEW d \in Callers, Owner(d, j) PROVE Owner(d, j)'
        BY <1>1, <4>2, <2>6 DEF Owner, OnlyMoves, Asking, Waiting
      <4> QED
        BY <1>1, <4>1, <4>2
    <3> QED
      BY <3>1, <3>2, <3>3, <3>4 DEF OwnerInv, Owned
  <2> QED
    BY <2>7, <2>8, <2>9 DEF Inv
<1>4. CASE Goto(c, "failed") /\ UNCHANGED ipc
  <2>1. Moves(c, "failed", None, caller[c].id, None)
    BY <1>2, <1>4, Here, GotoEffect DEF TypeInv, Places
  <2>2. OnlyMoves(c) /\ AnswerInPlace(caller'[c]) /\ KeepsCall(c)
    BY <1>1, <1>2, <2>1, Here
       DEF Moves, OnlyMoves, OnTrack, AnswerInPlace, KeepsCall, Loaders, Closers, Asking, Waiting, Closing
  <2>3. KeepsHold(c)
    BY <1>1, <1>2, <2>1 DEF Moves, KeepsHold, Owner, Loaders, Closers, Asking, Waiting, Closing
  <2> QED
    BY <1>1, <1>2, <1>4, <2>2, <2>3, IpcStays, CallerMoves DEF TypeInv
<1> QED
  BY <1>3, <1>4 DEF Start

LEMMA InstallStep ==
    ASSUME Inv, NEW c \in Callers, Install(c)
    PROVE  Inv'
<1> DEFINE p == caller[c].plugin
           i == caller[c].inst
<1>1. /\ caller[c].at = "install" /\ UNCHANGED <<lock, enabledRow, ipc>>
      /\ table' = [table EXCEPT ![p] = i] /\ command' = (IF command = None THEN p ELSE command)
      /\ Goto(c, "release")
  BY DEF Install, At
<1>2. /\ TypeInv /\ caller[c].op \in Loaders /\ i \in Instances /\ p \in Plugins
      /\ lock = c /\ table[p] = None
  BY <1>1, Here DEF OnTrack, Inv, OwnerInv, HoldsLock, Loaders
<1>3. Moves(c, "release", i, caller[c].id, caller[c].answer)
  BY <1>1, <1>2, Here, GotoEffect DEF TypeInv, Places
<1>4. OnlyMoves(c) /\ AnswerInPlace(caller'[c]) /\ KeepsCall(c)
  BY <1>1, <1>2, <1>3, Here
     DEF Moves, OnlyMoves, OnTrack, AnswerInPlace, KeepsCall, Loaders, Closers, Asking, Waiting, Closing
<1>5. TypeInv'
  BY <1>1, <1>2, <1>4, TypeStays DEF TypeInv
<1>6. RequestInv'
  BY <1>1, <1>2, <1>4, IpcStays, RequestsStay DEF Inv
<1>7. OwnerInv'
  <2>1. HoldsLock'
    BY <1>1, <1>2, <1>3, <1>4 DEF Inv, OwnerInv, HoldsLock, OnlyMoves, Moves, Asking, Waiting
  <2>2. ClosesForGood'
    BY <1>1, <1>3, <1>4 DEF Inv, OwnerInv, ClosesForGood, OnlyMoves, Moves
  <2>3. CommandHasPlugin'
    BY <1>1, <1>2, NamesAssumption DEF Inv, OwnerInv, CommandHasPlugin, TypeInv
  <2>4. ASSUME NEW j \in Instances, ipc'[j].up, ~ipc'[j].closed
        PROVE  (\E q \in Plugins : table'[q] = j) \/ (\E d \in Callers : Owner(d, j)')
    <3>1. CASE \E q \in Plugins : table[q] = j
      BY <1>1, <1>2, <3>1, NamesAssumption DEF TypeInv
    <3>2. CASE \E d \in Callers \ {c} : Owner(d, j)
      BY <3>2, <1>4 DEF OnlyMoves, Owner
    <3>3. CASE Owner(c, j)
      BY <1>1, <1>2, <3>3 DEF Owner, TypeInv
    <3> QED
      BY <1>1, <2>4, <3>1, <3>2, <3>3 DEF Inv, OwnerInv, Owned
  <2> QED
    BY <2>1, <2>2, <2>3, <2>4 DEF OwnerInv, Owned
<1> QED
  BY <1>5, <1>6, <1>7 DEF Inv

LEMMA CloseStep ==
    ASSUME Inv, NEW c \in Callers, MarkClosed(c) \/ Kill(c)
    PROVE  Inv'
<1> DEFINE i == caller[c].inst
<1>1. caller[c].at \in {"close", "kill"} /\ UNCHANGED <<table, lock, command, enabledRow>>
  BY DEF MarkClosed, Kill, At, manager
<1>2. /\ TypeInv /\ i \in Instances /\ ipc \in [Instances -> InstanceType] /\ ipc[i] \in InstanceType
      /\ caller[c].op \in Loaders \union Closers \union {"fetch"}
      /\ caller[c].op \in Loaders \union Closers => lock = c
  BY <1>1, Here DEF OnTrack, TypeInv, Closing, Inv, OwnerInv, HoldsLock
<1>3. PICK place \in {"closed", "kill"} : Goto(c, place)
  BY DEF MarkClosed, Kill
<1>4. Moves(c, place, i, caller[c].id, caller[c].answer)
  BY <1>2, <1>3, Here, GotoEffect DEF TypeInv, Places, Closing
<1>5. OnlyMoves(c) /\ AnswerInPlace(caller'[c]) /\ KeepsCall(c)
  BY <1>1, <1>2, <1>3, <1>4, Here
     DEF Moves, OnlyMoves, OnTrack, AnswerInPlace, KeepsCall, Loaders, Closers, Asking, Waiting, Closing
<1>6. Endures /\ ipc'[i].closed
  <2> HIDE DEF i
  <2>1. CASE ipc' = [ipc EXCEPT ![i].closed = TRUE]
    <3>1. ipc' = [ipc EXCEPT ![i] = [ipc[i] EXCEPT !.closed = TRUE]] /\ ipc'[i].closed
      BY <1>2, <2>1 DEF InstanceType
    <3> QED
      BY <1>2, <3>1, OtherTalk, TalkEndures
  <2>2. CASE ipc' = [ipc EXCEPT ![i].done = TRUE, ![i].up = FALSE] /\ ipc[i].closed
    <3>1. ipc' = [ipc EXCEPT ![i] = [ipc[i] EXCEPT !.done = TRUE, !.up = FALSE]]
      BY <1>2, <2>2 DEF InstanceType
    <3>2. Endures
      BY <1>2, <3>1, OtherTalk, TalkEndures
    <3> QED
      BY <1>2, <2>2, <3>2 DEF Endures, Talks
  <2>3. Kill(c) => ipc[i].closed
    BY DEF Kill, At, Inv, OwnerInv, ClosesForGood, i
  <2> QED
    BY <2>1, <2>2, <2>3 DEF MarkClosed, Kill, i
<1>7. KeepsHold(c)
  BY <1>1, <1>2, <1>3, <1>4, <1>6 DEF Moves, KeepsHold, Owner, Asking, Waiting, Closing
<1> QED
  BY <1>1, <1>2, <1>5, <1>6, <1>7, CallerMoves DEF TypeInv

LEMMA UnloadedStep ==
    ASSUME Inv, NEW c \in Callers, Unloaded(c)
    PROVE  Inv'
<1> DEFINE p == caller[c].plugin
           op == caller[c].op
           i == caller[c].inst
<1>1. caller[c].at = "closed" /\ UNCHANGED <<lock, enabledRow, ipc>>
  BY DEF Unloaded, At
<1>2. /\ TypeInv /\ i \in Instances /\ op \in Loaders \union Closers \union {"fetch"} /\ p \in Plugins
      /\ op \in Loaders \union Closers => lock = c
      /\ op # "fetch" => caller[c].answer = None
      /\ ipc[i].closed
  BY <1>1, Here DEF OnTrack, AnswerInPlace, Closing, Inv, OwnerInv, HoldsLock, ClosesForGood, Loaders, Closers
<1>3. CASE op \in Closers /\ table[p] = i
  <2>1. /\ table' = [table EXCEPT ![p] = None] /\ command' = IF command = p THEN None ELSE command
        /\ caller' = [caller EXCEPT ![c].inst = None,
                         ![c].at = IF op = "reload" /\ enabledRow[p] THEN "start" ELSE "release"]
    BY <1>3 DEF Unloaded, Closers
  <2>2. PICK place \in Places :
           /\ Moves(c, place, None, caller[c].id, caller[c].answer)
           /\ place = "release" \/ (place = "start" /\ op = "reload")
    <3> DEFINE place == IF op = "reload" /\ enabledRow[p] THEN "start" ELSE "release"
    <3>1. place \in Places /\ (place = "release" \/ (place = "start" /\ op = "reload"))
      BY DEF Places
    <3>2. caller' = [caller EXCEPT ![c].inst = None, ![c].at = place]
      BY <2>1
    <3> HIDE DEF place
    <3> QED
      BY <1>2, <3>1, <3>2, TakeEffect DEF TypeInv
  <2>3. OnlyMoves(c) /\ AnswerInPlace(caller'[c]) /\ KeepsCall(c)
    BY <1>1, <1>2, <1>3, <2>2, Here
       DEF Moves, OnlyMoves, OnTrack, AnswerInPlace, KeepsCall, Loaders, Closers, Asking, Waiting, Closing
  <2>4. TypeInv'
    BY <1>1, <1>2, <2>1, <2>3, TypeStays DEF TypeInv
  <2>5. RequestInv'
    BY <1>1, <1>2, <2>3, IpcStays, RequestsStay DEF Inv
  <2>6. OwnerInv'
    <3>1. HoldsLock'
      BY <1>1, <1>2, <1>3, <2>1, <2>2, <2>3
         DEF Inv, OwnerInv, HoldsLock, OnlyMoves, Moves, TypeInv, Asking, Waiting, Loaders, Closers
    <3>2. ClosesForGood'
      BY <1>1, <2>2, <2>3 DEF Inv, OwnerInv, ClosesForGood, OnlyMoves, Moves
    <3>3. CommandHasPlugin'
      BY <1>1, <1>2, <2>1 DEF Inv, OwnerInv, CommandHasPlugin, TypeInv
    <3>4. ASSUME NEW j \in Instances, ipc'[j].up, ~ipc'[j].closed
          PROVE  (\E q \in Plugins : table'[q] = j) \/ (\E d \in Callers : Owner(d, j)')
      <4>1. j # i /\ ((\E q \in Plugins : table[q] = j) \/ (\E d \in Callers : Owner(d, j)))
        BY <1>1, <1>2, <3>4 DEF Inv, OwnerInv, Owned
      <4>2. ASSUME NEW d \in Callers, Owner(d, j) PROVE Owner(d, j)'
        BY <1>1, <2>3, <4>2 DEF Owner, OnlyMoves, Asking, Waiting
      <4>3. ASSUME NEW q \in Plugins, table[q] = j, j # i PROVE table'[q] = j
        BY <1>2, <1>3, <2>1, <4>3 DEF TypeInv
      <4> QED
        BY <4>1, <4>2, <4>3
    <3> QED
      BY <3>1, <3>2, <3>3, <3>4 DEF OwnerInv, Owned
  <2> QED
    BY <2>4, <2>5, <2>6 DEF Inv
<1>4. CASE ~(op \in Closers /\ table[p] = i)
  <2>1. PICK place \in {"release", "failed"} : Goto(c, place) /\ UNCHANGED <<table, command>>
    BY <1>4 DEF Unloaded, Closers
  <2>2. Moves(c, place, i, caller[c].id, caller[c].answer)
    BY <1>2, <2>1, Here, GotoEffect DEF TypeInv, Places
  <2>3. OnlyMoves(c) /\ AnswerInPlace(caller'[c]) /\ KeepsCall(c)
    BY <1>1, <1>2, <2>1, <2>2, Here
       DEF Moves, OnlyMoves, OnTrack, AnswerInPlace, KeepsCall, Loaders, Closers, Asking, Waiting, Closing
  <2>4. KeepsHold(c)
    BY <1>1, <1>2, <2>1, <2>2 DEF Moves, KeepsHold, Owner, Asking, Waiting, Closing
  <2> QED
    BY <1>1, <1>2, <2>1, <2>3, <2>4, IpcStays, CallerMoves DEF TypeInv
<1> QED
  BY <1>3, <1>4

LEMMA ClosedSet ==
    ASSUME NEW c, CloseAll(c)
    PROVE  \E open : ipc' = [i \in Instances |-> IF i \in open
                    THEN [ipc[i] EXCEPT !.closed = TRUE, !.done = TRUE, !.up = FALSE] ELSE ipc[i]]
  BY Zenon DEF CloseAll

LEMMA ShutStep ==
    ASSUME Inv, NEW c \in Callers, CloseAll(c) \/ CloseQueue(c)
    PROVE  Inv'
<1>1. caller[c].at \in {"closeAll", "closeQueue"} /\ UNCHANGED <<table, lock, command, enabledRow>>
  BY DEF CloseAll, CloseQueue, At, manager
<1>2. TypeInv /\ caller[c].op = "shutdown" /\ caller[c].answer = None
  BY <1>1, Here DEF OnTrack, AnswerInPlace, Closing
<1>3. PICK place \in {"closeQueue", "release"} : Goto(c, place)
  BY DEF CloseAll, CloseQueue
<1>4. Moves(c, place, caller[c].inst, caller[c].id, caller[c].answer)
  BY <1>2, <1>3, Here, GotoEffect DEF TypeInv, Places
<1>5. OnlyMoves(c) /\ AnswerInPlace(caller'[c]) /\ KeepsCall(c)
  BY <1>1, <1>2, <1>3, <1>4, Here
     DEF Moves, OnlyMoves, OnTrack, AnswerInPlace, KeepsCall, Loaders, Closers, Asking, Waiting, Closing
<1>6. Endures
  <2>1. CASE CloseQueue(c)
    BY <1>2, <2>1, IpcStays DEF CloseQueue
  <2>2. CASE CloseAll(c)
    <3>1. PICK open : ipc' = [i \in Instances |-> IF i \in open
                                  THEN [ipc[i] EXCEPT !.closed = TRUE, !.done = TRUE, !.up = FALSE] ELSE ipc[i]]
      BY <2>2, ClosedSet
    <3>2. ASSUME NEW i \in Instances PROVE Talks(ipc[i], ipc'[i])
      <4>1. ipc[i] \in InstanceType
        BY <1>2 DEF TypeInv
      <4>2. ipc'[i] = ipc[i] \/ ipc'[i] = [ipc[i] EXCEPT !.closed = TRUE, !.done = TRUE, !.up = FALSE]
        BY <3>1
      <4> QED
        BY <4>1, <4>2, OtherTalk, SameTalk, Zenon
    <3>3. ipc' = [i \in Instances |-> ipc'[i]]
      BY <3>1
    <3> QED
      BY <3>2, <3>3 DEF Endures, Talks
  <2> QED
    BY <2>1, <2>2
<1>7. KeepsHold(c)
  BY <1>1, <1>2, <1>3, <1>4 DEF Moves, KeepsHold, Owner, Loaders, Closers, Asking, Waiting, Closing
<1> QED
  BY <1>1, <1>2, <1>5, <1>6, <1>7, CallerMoves DEF TypeInv

------------------------------------------------------------------------------
(* The read loop *)

LEMMA ReaderMoves ==
    ASSUME Inv, NEW i \in Instances, NEW r \in InstanceType, ipc' = [ipc EXCEPT ![i] = r],
           Agree(r), r.requests \subseteq ipc[i].requests,
           r.up => ipc[i].up, ipc[i].closed => r.closed,
           UNCHANGED <<table, lock, enabledRow, command, caller>>
    PROVE  Inv'
<1>1. /\ ipc' \in [Instances -> InstanceType] /\ ipc'[i] = r
      /\ \A j \in Instances \ {i} : ipc'[j] = ipc[j]
  BY DEF Inv, TypeInv
<1>2. TypeInv'
  BY <1>1 DEF Inv, TypeInv
<1>3. RequestInv'
  <2>1. ChannelsAgree'
    BY <1>1 DEF Inv, RequestInv, ChannelsAgree
  <2>2. AnswerComesLast' /\ AnswerIsMine'
    BY DEF Inv, RequestInv, AnswerComesLast, AnswerIsMine
  <2>3. RequestHasCall'
    BY <1>1 DEF Inv, RequestInv, RequestHasCall
  <2> QED
    BY <2>1, <2>2, <2>3 DEF RequestInv
<1>4. OwnerInv'
  <2>1. HoldsLock' /\ CommandHasPlugin'
    BY DEF Inv, OwnerInv, HoldsLock, CommandHasPlugin
  <2>2. ClosesForGood'
    BY <1>1 DEF Inv, OwnerInv, ClosesForGood, TypeInv, OnTrack, Asking, Waiting, Closing
  <2>3. ASSUME NEW j \in Instances, ipc'[j].up, ~ipc'[j].closed
        PROVE  (\E p \in Plugins : table'[p] = j) \/ (\E c \in Callers : Owner(c, j)')
    BY <1>1, <2>3 DEF Inv, OwnerInv, Owned, Owner
  <2> QED
    BY <2>1, <2>2, <2>3 DEF OwnerInv, Owned
<1> QED
  BY <1>2, <1>3, <1>4 DEF Inv

LEMMA ReadLineStep ==
    ASSUME Inv, NEW i \in Instances, ReadLine(i)
    PROVE  Inv'
<1> DEFINE k == ipc[i]
           line == Head(k.out)
           o == Tail(k.out)
           found == line \in k.requests
           r == [k EXCEPT !.out = o, !.requests = @ \ {line},
                          !.got = IF found THEN line ELSE None,
                          !.reader = IF found THEN "answer" ELSE "read"]
<1>1. ipc \in [Instances -> InstanceType] /\ k \in InstanceType /\ Agree(k)
      /\ line \in Ids /\ k.out # <<>> /\ UNCHANGED <<table, lock, enabledRow, command, caller>>
  BY DEF Inv, TypeInv, RequestInv, ChannelsAgree, ReadLine, manager
<1>2. ipc' = [ipc EXCEPT ![i] = r]
  BY <1>1 DEF ReadLine
<1>3. o \in Seq(Lines) /\ k.requests \subseteq Ids
  BY <1>1, HeadTailProperties DEF InstanceType
<1> HIDE DEF line, o, k
<1>4. /\ r \in InstanceType /\ r.requests = k.requests \ {line} /\ r.channel = k.channel /\ r.nextId = k.nextId
      /\ r.up = k.up /\ r.closed = k.closed
      /\ found => r.got = line /\ r.reader = "answer"
      /\ ~found => r.reader = "read"
  <2>1. CASE found
    BY <1>1, <1>3, <2>1 DEF InstanceType
  <2>2. CASE ~found
    BY <1>1, <1>3, <2>2 DEF InstanceType
  <2> QED
    BY <2>1, <2>2
<1> HIDE DEF r
<1>5. Agree(r)
  BY <1>1, <1>3, <1>4 DEF Agree
<1> QED
  BY <1>1, <1>2, <1>4, <1>5, ReaderMoves DEF k

LEMMA PassAnswerStep ==
    ASSUME Inv, NEW i \in Instances, PassAnswer(i)
    PROVE  Inv'
<1> DEFINE k == ipc[i]
           n == k.got
           r == [k EXCEPT !.channel = [@ EXCEPT ![n] = n], !.reader = "read", !.got = None]
<1>1. /\ ipc \in [Instances -> InstanceType] /\ k \in InstanceType /\ Agree(k)
      /\ k.reader = "answer" /\ UNCHANGED <<table, lock, enabledRow, command, caller>>
  BY DEF Inv, TypeInv, RequestInv, ChannelsAgree, PassAnswer, manager
<1>2. n \in Ids \ k.requests
  BY <1>1 DEF Agree
<1>3. ipc' = [ipc EXCEPT ![i] = r]
  BY <1>1 DEF PassAnswer
<1> HIDE DEF n, k
<1>4. [k.channel EXCEPT ![n] = n] \in [Ids -> Ids \union {Open, Shut}]
      /\ k.channel \in [Ids -> Ids \union {Open, Shut}] /\ k.requests \subseteq Ids
  BY <1>1, <1>2 DEF InstanceType
<1>5. /\ r \in InstanceType /\ r.requests = k.requests /\ r.channel = [k.channel EXCEPT ![n] = n]
      /\ r.nextId = k.nextId /\ r.up = k.up /\ r.closed = k.closed /\ r.reader = "read"
  BY <1>1, <1>4 DEF InstanceType
<1> HIDE DEF r
<1>6. Agree(r)
  BY <1>1, <1>2, <1>4, <1>5 DEF Agree
<1> QED
  BY <1>1, <1>3, <1>5, <1>6, ReaderMoves DEF k

LEMMA ReadEndStep ==
    ASSUME Inv, NEW i \in Instances, ReadEnd(i)
    PROVE  Inv'
<1> DEFINE k == ipc[i]
           channel == [n \in Ids |-> IF n \in k.requests THEN Shut ELSE k.channel[n]]
           s == [k EXCEPT !.reader = "end", !.out = <<>>, !.closed = TRUE]
           t == [s EXCEPT !.requests = {}, !.known = {}]
           first == 1
           r == [t EXCEPT !.nextId = first, !.channel = channel]
<1>1. /\ ipc \in [Instances -> InstanceType] /\ k \in InstanceType /\ Agree(k)
      /\ UNCHANGED <<table, lock, enabledRow, command, caller>>
  BY DEF Inv, TypeInv, RequestInv, ChannelsAgree, ReadEnd, manager
<1>2. ipc' = [ipc EXCEPT ![i] = r]
  BY <1>1 DEF ReadEnd
<1>3. channel \in [Ids -> Ids \union {Open, Shut}] /\ <<>> \in Seq(Lines) /\ first \in Nat \ {0}
      /\ \A n \in Ids : channel[n] \in {Open, Shut, n}
  BY <1>1, EmptySeq DEF InstanceType, Agree
<1> HIDE DEF channel, k, first
<1>4. s \in InstanceType /\ s.up = k.up /\ s.closed /\ s.reader = "end"
  BY <1>1, <1>3 DEF InstanceType
<1> HIDE DEF s
<1>5. t \in InstanceType /\ t.requests = {} /\ t.up = k.up /\ t.closed /\ t.reader = "end"
  BY <1>4 DEF InstanceType
<1> HIDE DEF t
<1>6. /\ r \in InstanceType /\ r.requests = {} /\ r.channel = channel
      /\ r.up = k.up /\ r.closed /\ r.reader = "end"
  BY <1>3, <1>5 DEF InstanceType
<1> HIDE DEF r
<1>7. Agree(r)
  BY <1>3, <1>6 DEF Agree
<1> QED
  BY <1>1, <1>2, <1>6, <1>7, ReaderMoves DEF k

------------------------------------------------------------------------------
LEMMA InitInv == Init => Inv
<1> SUFFICES ASSUME Init PROVE Inv
  OBVIOUS
<1>1. /\ \A i \in Instances : ipc[i] = NewInstance
      /\ \A c \in Callers : caller[c] = Resting
  BY DEF Init
<1>2. Resting \in CallerType /\ Resting.op = "none" /\ Resting.at = "idle"
      /\ Resting.inst = None /\ Resting.answer = None
  BY DEF Resting, CallerType, Operations, Places
<1>3. OnTrack(Resting)
  BY <1>2 DEF OnTrack, Loaders, Closers, Asking, Waiting, Closing
<1>4. TypeInv
  BY <1>2, <1>3, NewType DEF Init, TypeInv
<1>5. RequestInv
  BY <1>1, <1>2, NewType DEF RequestInv, ChannelsAgree, Agree, AnswerComesLast, AnswerIsMine, RequestHasCall
<1>6. OwnerInv
  BY <1>1, <1>2, NewType DEF Init, OwnerInv, HoldsLock, ClosesForGood, Owned, CommandHasPlugin, Loaders, Closers
<1> QED
  BY <1>4, <1>5, <1>6 DEF Inv

LEMMA NextInv == Inv /\ [Next]_vars => Inv'
<1> SUFFICES ASSUME Inv, [Next]_vars PROVE Inv'
  OBVIOUS
<1>1. ASSUME NEW c \in Callers, NEW p \in Plugins,
             \/ Load(c, p) \/ Unload(c, p) \/ Reload(c, p) \/ Enable(c, p) \/ Disable(c, p)
             \/ Fetch(c, p) \/ Invoke(c, p)
      PROVE  Inv'
  BY <1>1, BeginStep
<1>2. ASSUME NEW c \in Callers, Shutdown(c) \/ TakeLock(c) \/ CallerStep(c)
      PROVE  Inv'
  BY <1>2, ShutdownStep, TakeLockStep, SaveRowStep, LookupStep, ReleaseStep, StartStep, FailedStep,
     RegisterStep, EnqueueStep, AwaitStep, InstallStep, CloseStep, UnloadedStep, ShutStep DEF CallerStep
<1>3. ASSUME NEW p \in Plugins, Notify(p)
      PROVE  Inv'
  <2>1. table[p] \in Instances
    BY <1>3, Here DEF Notify, Inv, TypeInv
  <2> QED
    BY <1>3, <2>1, LineStep, NobodyMoves DEF Inv, manager
<1>4. ASSUME NEW i \in Instances,
             \/ WriterTakes(i) \/ WriterStops(i) \/ ReaderStep(i)
             \/ PluginReads(i) \/ PluginWrites(i) \/ PluginExits(i)
      PROVE  Inv'
  <2>1. CASE ReadLine(i) \/ PassAnswer(i) \/ ReadEnd(i)
    BY <2>1, ReadLineStep, PassAnswerStep, ReadEndStep
  <2>2. CASE \/ WriterTakes(i) \/ WriterStops(i) \/ PluginReads(i) \/ PluginWrites(i) \/ PluginExits(i)
             \/ SetMetadata(i) \/ EnqueueAction(i)
    BY <2>2, LineStep, NobodyMoves DEF Inv, manager
  <2> QED
    BY <1>4, <2>1, <2>2 DEF ReaderStep
<1>5. CASE Flush \/ UNCHANGED vars
  BY <1>5, IpcStays, NobodyMoves DEF Inv, Flush, vars, manager
<1> QED
  BY <1>1, <1>2, <1>3, <1>4, <1>5 DEF Next

LEMMA Invariance == Spec => []Inv
  BY InitInv, NextInv, PTL DEF Spec

(* The read loop of a process never stops at the channel of a call: what it    *)
(* took out of the request table has room for its answer, however late it is,   *)
(* and whatever the call, a close or the end of the process does meanwhile.     *)
THEOREM ReaderNeverBlocks == Spec => []AnswerHasRoom
<1>1. Inv => AnswerHasRoom
  BY DEF Inv, RequestInv, ChannelsAgree, Agree, AnswerHasRoom
<1> QED
  BY <1>1, Invariance, PTL

(* An answer reaches the call that asked for it or none: one that arrives late, *)
(* twice or unasked for is never taken for the answer to another request, with *)
(* any number of calls in flight to any number of processes.                   *)
THEOREM AnswersGoHome == Spec => []AnswerIsMine
<1>1. Inv => AnswerIsMine
  BY DEF Inv, RequestInv
<1> QED
  BY <1>1, Invariance, PTL

(* Every entry of a request table has a call that will remove it, so that a    *)
(* plugin that stays silent does not make the table grow.                      *)
THEOREM RequestsAreRemoved == Spec => []RequestHasCall
<1>1. Inv => RequestHasCall
  BY DEF Inv, RequestInv
<1> QED
  BY <1>1, Invariance, PTL

(* A process that runs and was not closed is in the table or in the hands of   *)
(* the operation that started it: no sequence of loads, reloads, failures and   *)
(* shutdowns forgets one.                                                      *)
THEOREM NoProcessIsForgotten == Spec => []RunningIsOwned
<1>1. Inv => RunningIsOwned
  BY DEF Inv, OwnerInv, Owned, Owner, RunningIsOwned
<1> QED
  BY <1>1, Invariance, PTL

(* A command belongs to a plugin that is loaded, so that it can be invoked.    *)
THEOREM CommandsCanBeInvoked == Spec => []CommandIsLoaded
<1>1. Inv => CommandIsLoaded
  BY DEF Inv, OwnerInv, CommandHasPlugin, CommandIsLoaded
<1> QED
  BY <1>1, Invariance, PTL
=============================================================================
