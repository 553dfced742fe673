------------------------------ MODULE ScriptProofs ------------------------------
(***************************************************************************)
(* What the proof system shows of the script host, for every number of     *)
(* versions, timers, edits and calls: hot reload converges and no timer    *)
(* outlives the Setup that made it.                                        *)
(***************************************************************************)
EXTENDS ScriptHost, FiniteSetTheorems, SequenceTheorems, TLAPS

------------------------------------------------------------------------------
(* What a call still has to do *)

Ops == {"none", "startup", "load", "reload", "unload", "disable", "enable"}

(* What is left of a call that brings in a version, from its Setup on... *)
Bringing ==
    {<<"setup", "install", "register">>,
     <<"arm", "add", "install", "register">>, <<"add", "install", "register">>,
     <<"arm", "add", "panic", "install", "register">>, <<"add", "panic", "install", "register">>,
     <<"panic", "install", "register">>, <<"install", "register">>}

(* ... of one that failed, that removes the script, that disables it... *)
Failing   == {<<"fail", "registerFailed">>, <<"registerFailed">>}
Removing  == {<<"stop", "stopping", "delete", "remove">>, <<"stopping", "delete", "remove">>,
              <<"delete", "remove">>, <<"remove">>}
Disabling == {<<"stop", "stopping", "disable">>, <<"stopping", "disable">>, <<"disable">>}

(* ... and that enables it again. *)
Enabling ==
    {<<"enable", "clear", "stop", "stopping", "find", "setup", "persist">>,
     <<"clear", "stop", "stopping", "find", "setup", "persist">>,
     <<"stop", "stopping", "find", "setup", "persist">>,
     <<"stopping", "find", "setup", "persist">>,
     <<"find", "setup", "persist">>, <<"setup", "persist">>,
     <<"arm", "add", "persist">>, <<"add", "persist">>, <<"persist">>}

Reloading ==
    {<<"stop", "stopping", "load", "setup", "install", "register">>,
     <<"stopping", "load", "setup", "install", "register">>}

Remainders ==
    Reloading \union {Loading} \union Bringing \union Failing \union {<<"register">>}
    \union Removing \union Disabling

CallType ==
    [op : Ops, todo : Remainders \union Enabling \union {<<>>}, ver : 0..MaxLoads,
     timer : Timers \union {0}, stopping : SUBSET Timers]

ExtType ==
    [there : BOOLEAN, enabled : BOOLEAN,
     status : {"none", "loaded", "error", "disabled", "runaway"}, subscribed : BOOLEAN]

TimerType ==
    [made : BOOLEAN, armed : BOOLEAN, stopped : BOOLEAN, repeats : BOOLEAN, ver : 0..MaxLoads]

JobType == [at : {"idle", "due", "lock", "run", "return"}, ver : 0..MaxLoads, failed : BOOLEAN]

(* A call is an enabling one exactly while what it has to do is. *)
OnTrack(k) == k.todo # <<>> => (k.op = "enable" <=> k.todo \in Enabling)

HasTimer(k) == k.todo # <<>> /\ Head(k.todo) = "add" => k.timer \in Timers

DataType ==
    /\ disk \in [there : BOOLEAN, n : Nat, good : BOOLEAN]
    /\ changes \in Seq({"remove", "write", "create"})
    /\ ext \in ExtType
    /\ content \in Seq(Nat) /\ Len(content) <= MaxLoads
    /\ script \in 0..Len(content)
    /\ sched \in SUBSET Timers
    /\ timer \in [Timers -> TimerType]
    /\ job \in [Jobs -> JobType]

TypeInv ==
    /\ DataType
    /\ call \in [Callers -> CallType]
    /\ \A c \in Callers : OnTrack(call[c]) /\ HasTimer(call[c]) /\ call[c].ver <= Len(content)

------------------------------------------------------------------------------
(* The version that runs, and the timers that tick *)

Fresh(v) == disk.there /\ disk.good /\ content[v] = disk.n

(* The steps of a call that will change the version that runs. *)
Changing == Reloading \union {Loading} \union Bringing \union {<<"fail", "registerFailed">>}
            \union (Removing \ {<<"remove">>})

Alone   == \A t, u \in Live : t = u
Of(v)   == \A t \in Live : timer[t].ver = v
NoTimers == sched = {} /\ Live = {}
Tidy    == Live \subseteq sched

(* The directory is gone, or it came back and was not looked at yet. *)
Away == IF changes = <<>> THEN ~disk.there ELSE changes[1] = "create"

(* The version a call has loaded is the one on disk, or a change is not handled   *)
(* yet; the one that runs may also be about to go.                                *)
VersionIsFresh(k) ==
    /\ k.todo \in Bringing => k.ver # 0 /\ (changes = <<>> => Fresh(k.ver))
    /\ script # 0 /\ changes = <<>> /\ k.todo \notin Changing => Fresh(script)

(* What a call may count on, by what it does next: the timers it has not stopped  *)
(* yet are known, and the one it made is the only one.                            *)
TimersInStage(k) ==
    LET next == Head(k.todo)
    IN  /\ next \in {"enable", "clear", "stop", "fail", "registerFailed"} => Tidy
        /\ next = "stopping" => sched = {} /\ Live \subseteq k.stopping
        /\ next \in {"load", "setup", "arm", "find", "delete", "remove", "disable"} => NoTimers
        /\ next = "add" => sched = {} /\ Live \subseteq {k.timer} /\ Of(k.ver)
        /\ next \in {"panic", "install"} => Tidy /\ Alone /\ Of(k.ver)
        /\ next = "register" => Tidy /\ Alone /\ Of(script)
        /\ next = "persist" => Tidy /\ (script # 0 => Alone /\ Of(script))

ScriptInStage(k) ==
    LET next == Head(k.todo)
    IN  /\ next \in {"setup", "arm", "add"} /\ k.todo \in Enabling => k.ver = script
        /\ next \in {"registerFailed", "remove"} => script = 0

(* A script that is disabled has no timer, but for one that a new version has made. *)
StatusInStage(k) ==
    /\ ext.status = "disabled" =>
          Live = {} \/ k.todo \in Bringing \union Failing \union {<<"register">>}
    /\ k.todo \in Enabling /\ Head(k.todo) # "enable" => ext.status # "disabled"

OnCourse(k) ==
    /\ VersionIsFresh(k) /\ TimersInStage(k) /\ ScriptInStage(k) /\ StatusInStage(k)
    /\ Away => k.todo \in Removing

(* With no call at work. *)
Rested ==
    /\ script # 0 /\ changes = <<>> => Fresh(script)
    /\ Tidy /\ (script # 0 => Alone /\ Of(script))
    /\ ext.status = "disabled" => Live = {}
    /\ Away => script = 0 /\ NoTimers /\ ~ext.there

OneAtATime == \A c, d \in Callers : Busy(c) /\ Busy(d) => c = d

CreatedIsFirst == \A i \in 2..Len(changes) : changes[i] # "create"

CourseInv ==
    /\ OneAtATime /\ CreatedIsFirst
    /\ Idle => Rested
    /\ \A c \in Callers : Busy(c) => OnCourse(call[c])

(* What holds of the timers with any number of calls at work. *)
ClockInv ==
    \A t \in Timers :
        /\ timer[t].armed => ~timer[t].stopped
        /\ ~timer[t].made => ~timer[t].armed /\ job[t].at = "idle"

Inv == TypeInv /\ ClockInv /\ (~Overlap => CourseInv)

------------------------------------------------------------------------------
(* Lemmas about the calls *)

(* What is left of a call, by what it does next. *)
LEMMA Heads ==
    ASSUME NEW s \in Remainders \union Enabling
    PROVE  /\ s # <<>>
           /\ Head(s) = "load" => s = Loading
           /\ Head(s) = "setup" => s \in {<<"setup", "install", "register">>, <<"setup", "persist">>}
           /\ Head(s) = "arm" => s \in {<<"arm", "add", "install", "register">>,
                      <<"arm", "add", "panic", "install", "register">>, <<"arm", "add", "persist">>}
           /\ Head(s) = "add" => s \in {<<"add", "install", "register">>,
                      <<"add", "panic", "install", "register">>, <<"add", "persist">>}
           /\ Head(s) = "panic" => s = <<"panic", "install", "register">>
           /\ Head(s) = "install" => s = <<"install", "register">>
           /\ Head(s) = "register" => s = <<"register">>
           /\ Head(s) = "fail" => s = <<"fail", "registerFailed">>
           /\ Head(s) = "registerFailed" => s = <<"registerFailed">>
           /\ Head(s) = "stop" => s \in {<<"stop", "stopping", "load", "setup", "install", "register">>,
                      <<"stop", "stopping", "delete", "remove">>, <<"stop", "stopping", "disable">>,
                      <<"stop", "stopping", "find", "setup", "persist">>}
           /\ Head(s) = "stopping" => s \in {<<"stopping", "load", "setup", "install", "register">>,
                      <<"stopping", "delete", "remove">>, <<"stopping", "disable">>,
                      <<"stopping", "find", "setup", "persist">>}
           /\ Head(s) = "delete" => s = <<"delete", "remove">>
           /\ Head(s) = "remove" => s = <<"remove">>
           /\ Head(s) = "disable" => s = <<"disable">>
           /\ Head(s) = "enable" =>
                 s = <<"enable", "clear", "stop", "stopping", "find", "setup", "persist">>
           /\ Head(s) = "clear" => s = <<"clear", "stop", "stopping", "find", "setup", "persist">>
           /\ Head(s) = "find" => s = <<"find", "setup", "persist">>
           /\ Head(s) = "persist" => s = <<"persist">>
  BY DEF Remainders, Enabling, Reloading, Loading, Bringing, Failing, Removing, Disabling

LEMMA TailsOfEnabling ==
    /\ Tail(<<"enable", "clear", "stop", "stopping", "find", "setup", "persist">>)
          = <<"clear", "stop", "stopping", "find", "setup", "persist">>
    /\ Tail(<<"clear", "stop", "stopping", "find", "setup", "persist">>)
          = <<"stop", "stopping", "find", "setup", "persist">>
    /\ Tail(<<"stop", "stopping", "find", "setup", "persist">>) = <<"stopping", "find", "setup", "persist">>
    /\ Tail(<<"stopping", "find", "setup", "persist">>) = <<"find", "setup", "persist">>
    /\ Tail(<<"find", "setup", "persist">>) = <<"setup", "persist">>
    /\ Tail(<<"setup", "persist">>) = <<"persist">>
    /\ Tail(<<"persist">>) = <<>>
    /\ Tail(<<"arm", "add", "persist">>) = <<"add", "persist">>
    /\ Tail(<<"add", "persist">>) = <<"persist">>
  OBVIOUS

LEMMA TailsOfRemainders ==
    /\ Tail(<<"stop", "stopping", "load", "setup", "install", "register">>)
          = <<"stopping", "load", "setup", "install", "register">>
    /\ Tail(<<"stopping", "load", "setup", "install", "register">>)
          = <<"load", "setup", "install", "register">>
    /\ Tail(<<"load", "setup", "install", "register">>) = <<"setup", "install", "register">>
    /\ Tail(<<"setup", "install", "register">>) = <<"install", "register">>
    /\ Tail(<<"install", "register">>) = <<"register">>
    /\ Tail(<<"register">>) = <<>>
    /\ Tail(<<"arm", "add", "install", "register">>) = <<"add", "install", "register">>
    /\ Tail(<<"add", "install", "register">>) = <<"install", "register">>
    /\ Tail(<<"arm", "add", "panic", "install", "register">>) = <<"add", "panic", "install", "register">>
    /\ Tail(<<"add", "panic", "install", "register">>) = <<"panic", "install", "register">>
    /\ Tail(<<"panic", "install", "register">>) = <<"install", "register">>
    /\ Tail(<<"fail", "registerFailed">>) = <<"registerFailed">>
    /\ Tail(<<"registerFailed">>) = <<>>
    /\ Tail(<<"stop", "stopping", "delete", "remove">>) = <<"stopping", "delete", "remove">>
    /\ Tail(<<"stopping", "delete", "remove">>) = <<"delete", "remove">>
    /\ Tail(<<"delete", "remove">>) = <<"remove">>
    /\ Tail(<<"remove">>) = <<>>
    /\ Tail(<<"stop", "stopping", "disable">>) = <<"stopping", "disable">>
    /\ Tail(<<"stopping", "disable">>) = <<"disable">>
    /\ Tail(<<"disable">>) = <<>>
  OBVIOUS

(* One step on, it is what is left of the same kind of call. *)
LEMMA Tails ==
    ASSUME NEW s \in Remainders \union Enabling
    PROVE  /\ Tail(s) \in Remainders \union Enabling \union {<<>>}
           /\ Tail(s) # <<>> => (s \in Enabling <=> Tail(s) \in Enabling)
           /\ Len(s) = 1 <=> Tail(s) = <<>>
  <1> DEFINE Lasts == {<<"register">>, <<"registerFailed">>, <<"remove">>, <<"disable">>}
  <1>1. \A r \in Enabling : r = <<"persist">> \/ Tail(r) \in Enabling
    BY TailsOfEnabling, Zenon DEF Enabling
  <1>2. \A r \in Remainders : r \in Lasts \/ Tail(r) \in Remainders
    <2>1. \A r \in Reloading : Tail(r) \in Reloading \union {Loading}
      BY TailsOfRemainders, Zenon DEF Reloading, Loading
    <2>2. Tail(Loading) \in Bringing
      BY TailsOfRemainders, Zenon DEF Loading, Bringing
    <2>3. \A r \in Bringing : Tail(r) \in Bringing \union {<<"register">>}
      BY TailsOfRemainders, Zenon DEF Bringing
    <2>4. \A r \in Failing : r \in Lasts \/ Tail(r) \in Failing
      BY TailsOfRemainders, Zenon DEF Failing
    <2>5. \A r \in Removing : r \in Lasts \/ Tail(r) \in Removing
      BY TailsOfRemainders, Zenon DEF Removing
    <2>6. \A r \in Disabling : r \in Lasts \/ Tail(r) \in Disabling
      BY TailsOfRemainders, Zenon DEF Disabling
    <2> QED
      BY <2>1, <2>2, <2>3, <2>4, <2>5, <2>6, Zenon DEF Remainders
  <1>3. \A r \in Enabling : r # <<>> /\ (Len(r) = 1 <=> r = <<"persist">>)
    BY DEF Enabling
  <1>4. \A r \in Remainders : r # <<>> /\ r \notin Enabling /\ (Len(r) = 1 <=> r \in Lasts)
    BY DEF Remainders, Enabling, Reloading, Loading, Bringing, Failing, Removing, Disabling
  <1>5. Tail(<<"persist">>) = <<>> /\ \A r \in Lasts : Tail(r) = <<>>
    OBVIOUS
  <1> HIDE DEF Lasts
  <1> QED
    BY <1>1, <1>2, <1>3, <1>4, <1>5, Zenon

LEMMA RestType ==
    ASSUME TypeInv, NEW c \in Callers, Busy(c), NEW k, k = Rest(c)
    PROVE  /\ k \in CallType /\ OnTrack(k) /\ k.ver <= Len(content)
           /\ k.todo = Tail(call[c].todo)
           /\ k.todo # <<>> => /\ k.op = call[c].op /\ k.ver = call[c].ver
                               /\ k.timer = call[c].timer /\ k.stopping = call[c].stopping
  <1> DEFINE s == call[c].todo
  <1>1. /\ call[c] \in CallType /\ OnTrack(call[c]) /\ call[c].ver <= Len(content)
        /\ s \in Remainders \union Enabling
    BY DEF TypeInv, CallType, Busy
  <1>2. /\ Tail(s) \in Remainders \union Enabling \union {<<>>}
        /\ Tail(s) # <<>> => (s \in Enabling <=> Tail(s) \in Enabling)
        /\ Len(s) = 1 <=> Tail(s) = <<>>
    BY <1>1, Tails
  <1>3. CASE Tail(s) = <<>>
    <2>1. k = AtRest
      BY <1>2, <1>3 DEF Rest
    <2>2. content \in Seq(Nat)
      BY DEF TypeInv, DataType
    <2>3. /\ k.todo = <<>> /\ k.ver = 0 /\ k.op = "none"
          /\ k = [op |-> "none", todo |-> <<>>, ver |-> 0, timer |-> 0, stopping |-> {}]
      BY <2>1 DEF AtRest
    <2>4. k \in CallType
      BY <2>3, BoundsAssumption DEF CallType, Ops
    <2> QED
      BY <1>3, <2>2, <2>3, <2>4 DEF OnTrack
  <1>4. CASE Tail(s) # <<>>
    <2>1. k = [call[c] EXCEPT !.todo = Tail(s)]
      BY <1>2, <1>4 DEF Rest
    <2>2. s # <<>>
      BY DEF Busy
    <2>3. call[c].todo = s
      OBVIOUS
    <2>4. PICK r : r = Tail(s)
      OBVIOUS
    <2> HIDE DEF s
    <2>5. k = [call[c] EXCEPT !.todo = r] /\ r \in Remainders \union Enabling \union {<<>>}
      BY <1>2, <2>1, <2>4
    <2>6. /\ k \in CallType /\ k.todo = r /\ k.op = call[c].op /\ k.ver = call[c].ver
          /\ k.timer = call[c].timer /\ k.stopping = call[c].stopping
      BY <1>1, <2>5 DEF CallType
    <2> QED
      BY <1>1, <1>2, <1>4, <2>2, <2>3, <2>4, <2>6 DEF OnTrack, s
  <1> QED
    BY <1>3, <1>4

(* One caller goes on as k. *)
LEMMA CallMoves ==
    ASSUME Inv, NEW c \in Callers, NEW k \in CallType,
           call' = [call EXCEPT ![c] = k],
           OnTrack(k), HasTimer(k), k.ver <= Len(content'), Len(content) <= Len(content'),
           DataType', ClockInv',
           ~Overlap => Busy(c) \/ Idle,
           ~Overlap => CreatedIsFirst',
           ~Overlap => (k.todo = <<>> => Rested'),
           ~Overlap => (k.todo # <<>> => OnCourse(k)')
    PROVE  Inv'
  <1>1. /\ call \in [Callers -> CallType] /\ call'[c] = k
        /\ \A d \in Callers \ {c} : call'[d] = call[d]
    BY DEF Inv, TypeInv
  <1>2. TypeInv'
    <2>1. call' \in [Callers -> CallType]
      BY <1>1
    <2>2. ASSUME NEW d \in Callers 
          PROVE  OnTrack(call'[d]) /\ HasTimer(call'[d]) /\ call'[d].ver <= Len(content')
      <3>1. OnTrack(call[d]) /\ HasTimer(call[d]) /\ call[d].ver \in Nat /\ call[d].ver <= Len(content)
        BY <1>1, BoundsAssumption DEF Inv, TypeInv, CallType
      <3>2. Len(content) \in Nat /\ Len(content') \in Nat
        BY DEF Inv, TypeInv, DataType
      <3> QED
        BY <1>1, <3>1, <3>2
    <2>3. \A d \in Callers : /\ OnTrack(call'[d]) <=> OnTrack(call[d])'
                            /\ HasTimer(call'[d]) <=> HasTimer(call[d])'
      BY DEF OnTrack, HasTimer
    <2> QED
      BY <2>1, <2>2, <2>3 DEF TypeInv
  <1>3. ASSUME ~Overlap PROVE CourseInv'
    <2>1. \A d \in Callers \ {c} : ~Busy(d)
      BY <1>3 DEF Inv, CourseInv, OneAtATime, Idle
    <2>2. \A d \in Callers \ {c} : ~Busy(d)'
      BY <1>1, <2>1 DEF Busy
    <2>3. Busy(c)' <=> k.todo # <<>>
      BY <1>1 DEF Busy
    <2>4. OneAtATime'
      BY <2>2 DEF OneAtATime
    <2>5. Idle' => Rested'
      BY <1>3, <2>3 DEF Idle
    <2>6. ASSUME k.todo # <<>> PROVE OnCourse(call[c])'
      BY <1>1, <1>3, <2>6
         DEF OnCourse, VersionIsFresh, TimersInStage, ScriptInStage, StatusInStage, Fresh, Of
    <2> QED
      BY <1>3, <2>2, <2>3, <2>4, <2>5, <2>6 DEF CourseInv
  <1> QED
    BY <1>2, <1>3 DEF Inv

(* Nothing happens to the calls, and timers only stop ticking. *)
LEMMA TimersRest ==
    ASSUME Inv, UNCHANGED <<files, scripts, sched, call>>,
           DataType', ClockInv', Live' \subseteq Live,
           \A t \in Live' : timer'[t].ver = timer[t].ver,
           ext'.status = "disabled" => ext.status = "disabled",
           ext'.there = ext.there
    PROVE  Inv'
  <1>1. TypeInv'
    BY DEF Inv, TypeInv, files, scripts, OnTrack, HasTimer
  <1>2. ASSUME ~Overlap PROVE CourseInv'
    <2> USE DEF files, scripts
    <2>1. CourseInv
      BY <1>2 DEF Inv
    <2>2. Away' = Away /\ (\A d \in Callers : Busy(d)' = Busy(d)) /\ (Idle' <=> Idle)
      BY DEF Away, Busy, Idle
    <2>3. OneAtATime' /\ CreatedIsFirst'
      BY <2>1, <2>2 DEF CourseInv, OneAtATime, CreatedIsFirst
    <2>4. /\ (Tidy => Tidy') /\ (Alone => Alone') /\ (NoTimers => NoTimers')
          /\ Live = {} => Live' = {}
          /\ \A v : Of(v) => \A t \in Live' : timer'[t].ver = v
      BY DEF Tidy, Alone, NoTimers, Of
    <2>5. Rested => Rested'
      BY <2>2, <2>4 DEF Rested, Fresh, Of
    <2>6. ASSUME NEW d \in Callers, OnCourse(call[d]) PROVE OnCourse(call[d])'
      <3>1. VersionIsFresh(call[d])'
        BY <2>6 DEF OnCourse, VersionIsFresh, Fresh
      <3>2. TimersInStage(call[d])'
        <4>1. PICK k : k = call[d]
          OBVIOUS
        <4>2. sched' = sched /\ script' = script /\ call' = call
          OBVIOUS
        <4>3. (Of(k.ver) => Of(k.ver)') /\ (Of(script) => Of(script)')
          BY <2>4, <4>2 DEF Of
        <4>4. TimersInStage(k)
          BY <2>6, <4>1 DEF OnCourse
        <4>5. TimersInStage(k)'
          <5>1. /\ Live \subseteq k.stopping => Live' \subseteq k.stopping
                /\ Live \subseteq {k.timer} => Live' \subseteq {k.timer}
            OBVIOUS
          <5> HIDE DEF Live
          <5> QED
            BY <2>4, <4>2, <4>3, <4>4, <5>1 DEF TimersInStage
        <4> QED
          BY <4>1, <4>2, <4>5 DEF TimersInStage, Of
      <3>3. ScriptInStage(call[d])'
        BY <2>6 DEF OnCourse, ScriptInStage
      <3>4. StatusInStage(call[d])'
        BY <2>4, <2>6, ext'.status = "disabled" => ext.status = "disabled"
           DEF OnCourse, StatusInStage
      <3> QED
        BY <2>2, <2>6, <3>1, <3>2, <3>3, <3>4 DEF OnCourse
    <2> QED
      BY <2>1, <2>2, <2>3, <2>5, <2>6 DEF CourseInv
  <1> QED
    BY <1>1, <1>2 DEF Inv

------------------------------------------------------------------------------
(* Dispatches *)

(* A job goes on as r; one that is at rest stays so, unless it is the bus's. *)
LEMMA JobMoves ==
    ASSUME Inv, UNCHANGED <<files, scripts, sched, timer, call>>,
           NEW j \in Jobs, NEW r \in JobType, job' = [job EXCEPT ![j] = r],
           j = Bus \/ job[j].at # "idle",
           ext' \in ExtType, ext'.there = ext.there,
           ext'.status = "disabled" => ext.status = "disabled"
    PROVE  Inv'
  <1>1. /\ job \in [Jobs -> JobType] /\ Bus \notin Timers /\ Timers \subseteq Jobs
        /\ timer' = timer
    BY DEF Inv, TypeInv, DataType, Bus, Timers, Jobs
  <1>2. DataType'
    BY <1>1 DEF Inv, TypeInv, DataType, files, scripts
  <1>3. \A t \in Timers : job[t].at = "idle" => job'[t].at = "idle"
    BY <1>1
  <1>4. ClockInv'
    BY <1>1, <1>3 DEF Inv, ClockInv
  <1>5. Live' \subseteq Live
    BY <1>1, <1>3 DEF Live, At
  <1> QED
    BY <1>1, <1>2, <1>4, <1>5, TimersRest

LEMMA Dispatches ==
    ASSUME TypeInv, NEW j \in Jobs, Dispatch(j)
    PROVE  \E r \in JobType : job' = [job EXCEPT ![j] = r]
  <1>1. CASE script = 0
    <2>1. [NoJob EXCEPT !.at = "return"] \in JobType
      <3>1. NoJob \in JobType
        BY BoundsAssumption DEF NoJob, JobType
      <3> QED
        BY <3>1 DEF JobType
    <2>2. job' = [job EXCEPT ![j] = [NoJob EXCEPT !.at = "return"]]
      BY <1>1 DEF Dispatch
    <2> QED
      BY <2>1, <2>2
  <1>2. CASE script # 0
    <2>1. script \in 0..MaxLoads
      BY BoundsAssumption DEF TypeInv, DataType
    <2>2. [NoJob EXCEPT !.at = "lock", !.ver = script] \in JobType
      BY <2>1 DEF NoJob, JobType
    <2>3. job' = [job EXCEPT ![j] = [NoJob EXCEPT !.at = "lock", !.ver = script]]
      BY <1>2 DEF Dispatch
    <2> QED
      BY <2>2, <2>3
  <1> QED
    BY <1>1, <1>2

(* The goroutine of a dispatch is back: its job says so. *)
LEMMA ReturnType ==
    ASSUME NEW j, NEW failed \in BOOLEAN
    PROVE  [NoJob EXCEPT !.at = "return", !.failed = failed /\ j = Bus] \in JobType
  <1>1. NoJob \in JobType
    BY BoundsAssumption DEF NoJob, JobType
  <1>2. PICK b \in BOOLEAN : b = (failed /\ j = Bus)
    OBVIOUS
  <1>3. [NoJob EXCEPT !.at = "return", !.failed = b] \in JobType
    BY <1>1 DEF JobType
  <1> QED
    BY <1>2, <1>3

LEMMA RunawayType ==
    ASSUME ext \in ExtType
    PROVE  /\ Runaway(ext) \in ExtType /\ Runaway(ext).there = ext.there
           /\ Runaway(ext).status = "disabled" => ext.status = "disabled"
  BY DEF Runaway, ExtType

LEMMA JobSteps ==
    ASSUME Inv, NEW j \in Jobs, Acquire(j) \/ Finish(j) \/ Overrun(j)
    PROVE  Inv'
  <1>1. /\ job \in [Jobs -> JobType] /\ ext \in ExtType
        /\ UNCHANGED <<files, scripts, sched, timer, call>> /\ job[j].at # "idle"
    BY DEF Inv, TypeInv, DataType, Acquire, Finish, Overrun, JobOnly, At
  <1>2. PICK r \in JobType : job' = [job EXCEPT ![j] = r]
    <2>1. CASE Acquire(j)
      <3>1. [job[j] EXCEPT !.at = "run"] \in JobType
        BY <1>1 DEF JobType
      <3> QED
        BY <2>1, <3>1 DEF Acquire, Goto
    <2>2. CASE Finish(j)
      BY <2>2, ReturnType DEF Finish, Returns
    <2>3. CASE Overrun(j)
      BY <2>3, ReturnType DEF Overrun, Returns
    <2> QED
      BY <2>1, <2>2, <2>3
  <1>3. ext' = ext \/ ext' = Runaway(ext)
    BY DEF Acquire, Finish, Overrun
  <1>4. /\ ext' \in ExtType /\ ext'.there = ext.there
        /\ ext'.status = "disabled" => ext.status = "disabled"
    BY <1>1, <1>3, RunawayType
  <1> QED
    BY <1>1, <1>2, <1>4, JobMoves

LEMMA EventSteps ==
    ASSUME Inv, OnEvent \/ Deliver
    PROVE  Inv'
  <1>1. /\ job \in [Jobs -> JobType] /\ ext \in ExtType /\ Bus \in Jobs
        /\ UNCHANGED <<files, scripts, sched, timer, call>>
    BY DEF Inv, TypeInv, DataType, OnEvent, Deliver, JobOnly, Jobs
  <1>2. PICK r \in JobType : job' = [job EXCEPT ![Bus] = r]
    <2>1. NoJob \in JobType
      BY BoundsAssumption DEF NoJob, JobType
    <2> QED
      BY <1>1, <2>1, Dispatches DEF Inv, OnEvent, Deliver
  <1>3. /\ ext' \in ExtType /\ ext'.there = ext.there
        /\ ext'.status = "disabled" => ext.status = "disabled"
    BY <1>1 DEF OnEvent, Deliver, ExtType
  <1> QED
    BY <1>1, <1>2, <1>3, JobMoves

LEMMA LateSteps ==
    ASSUME Inv, NEW v \in Versions, LateFinish(v)
    PROVE  Inv'
  <1>1. UNCHANGED <<files, scripts, ext, sched, timer, job, call>>
    BY DEF LateFinish, JobOnly
  <1>2. DataType' /\ ClockInv' /\ Live' = Live
    BY <1>1 DEF Inv, TypeInv, DataType, ClockInv, Live, At, files, scripts
  <1> QED
    BY <1>1, <1>2, TimersRest

LEMMA TimerFiresKeeps ==
    ASSUME Inv, NEW t \in Timers, TimerFires(t)
    PROVE  Inv'
  <1>1. /\ job \in [Jobs -> JobType] /\ timer \in [Timers -> TimerType] /\ t \in Jobs
        /\ UNCHANGED <<files, scripts, ext, sched, call>>
        /\ timer[t].armed /\ timer' = [timer EXCEPT ![t].armed = FALSE]
        /\ job' = [job EXCEPT ![t].at = "due"]
    BY DEF Inv, TypeInv, DataType, TimerFires, JobOnly, Goto, Jobs
  <1>2. /\ timer[t].made /\ ~timer[t].stopped
    BY <1>1 DEF Inv, ClockInv
  <1>3. /\ timer'[t] = [timer[t] EXCEPT !.armed = FALSE] /\ timer' \in [Timers -> TimerType]
        /\ \A u \in Timers \ {t} : timer'[u] = timer[u] /\ job'[u] = job[u]
    BY <1>1 DEF TimerType, Jobs
  <1>4. job' \in [Jobs -> JobType]
    BY <1>1 DEF JobType
  <1>5. DataType'
    BY <1>1, <1>3, <1>4 DEF Inv, TypeInv, DataType, files, scripts
  <1>6. /\ ~timer'[t].armed /\ timer'[t].made = timer[t].made
        /\ timer'[t].ver = timer[t].ver /\ timer'[t].stopped = timer[t].stopped
    BY <1>1, <1>3 DEF TimerType
  <1>7. ClockInv'
    BY <1>2, <1>3, <1>6 DEF Inv, ClockInv
  <1>8. Live' \subseteq Live /\ \A u \in Live' : timer'[u].ver = timer[u].ver
    BY <1>1, <1>2, <1>3, <1>6 DEF Live, At
  <1> QED
    BY <1>1, <1>5, <1>7, <1>8, TimersRest

LEMMA TickKeeps ==
    ASSUME Inv, NEW t \in Timers, Tick(t)
    PROVE  Inv'
  <1>1. /\ job \in [Jobs -> JobType] /\ ext \in ExtType /\ t \in Jobs
        /\ UNCHANGED <<files, scripts, sched, timer, call, ext>> /\ job[t].at # "idle"
    BY DEF Inv, TypeInv, DataType, Tick, JobOnly, At, Jobs
  <1>2. PICK r \in JobType : job' = [job EXCEPT ![t] = r]
    <2>1. [job[t] EXCEPT !.at = "idle"] \in JobType
      BY <1>1 DEF JobType
    <2> QED
      BY <1>1, <2>1, Dispatches DEF Inv, Tick, Goto
  <1> QED
    BY <1>1, <1>2, JobMoves

LEMMA RearmKeeps ==
    ASSUME Inv, NEW t \in Timers, Rearm(t)
    PROVE  Inv'
  <1>1. /\ job \in [Jobs -> JobType] /\ timer \in [Timers -> TimerType] /\ t \in Jobs
        /\ UNCHANGED <<files, scripts, ext, sched, call>>
        /\ timer' = [timer EXCEPT ![t].armed = timer[t].repeats /\ ~timer[t].stopped]
        /\ job' = [job EXCEPT ![t] = NoJob] /\ job[t].at = "return"
    BY DEF Inv, TypeInv, DataType, Rearm, JobOnly, At, Jobs
  <1>2. PICK b \in BOOLEAN : b = (timer[t].repeats /\ ~timer[t].stopped)
    OBVIOUS
  <1>3. /\ timer'[t] = [timer[t] EXCEPT !.armed = b] /\ timer' \in [Timers -> TimerType]
        /\ \A u \in Timers \ {t} : timer'[u] = timer[u] /\ job'[u] = job[u]
    <2>1. timer' = [timer EXCEPT ![t].armed = b]
      BY <1>1, <1>2
    <2>2. timer' \in [Timers -> TimerType]
      BY <1>1, <2>1 DEF TimerType
    <2> QED
      BY <1>1, <2>1, <2>2 DEF Jobs
  <1>4. job' \in [Jobs -> JobType] /\ job'[t].at = "idle"
    BY <1>1, BoundsAssumption DEF JobType, NoJob
  <1>5. DataType'
    BY <1>1, <1>3, <1>4 DEF Inv, TypeInv, DataType, files, scripts
  <1>6. /\ timer'[t].armed = b /\ timer'[t].made = timer[t].made
        /\ timer'[t].ver = timer[t].ver /\ timer'[t].stopped = timer[t].stopped
    BY <1>1, <1>3 DEF TimerType
  <1>7. timer[t].made
    BY <1>1 DEF Inv, ClockInv
  <1>8. ClockInv'
    <2>1. ASSUME NEW u \in Timers
          PROVE  (timer[u].armed => ~timer[u].stopped) /\ (~timer[u].made => ~timer[u].armed /\ job[u].at = "idle")
      BY DEF Inv, ClockInv
    <2>2. ASSUME NEW u \in Timers \ {t}
          PROVE  (timer'[u].armed => ~timer'[u].stopped) /\ (~timer'[u].made => ~timer'[u].armed /\ job'[u].at = "idle")
      BY <1>3, <2>1
    <2>3. timer'[t].armed => ~timer'[t].stopped
      BY <1>2, <1>6
    <2>4. timer'[t].made
      BY <1>6, <1>7
    <2> QED
      BY <2>2, <2>3, <2>4 DEF ClockInv
  <1>9. Live' \subseteq Live /\ \A u \in Live' : timer'[u].ver = timer[u].ver
    BY <1>1, <1>3, <1>6 DEF Live, At
  <1> QED
    BY <1>1, <1>5, <1>8, <1>9, TimersRest

------------------------------------------------------------------------------
(* What a call has to do, put together *)

LEMMA Joined ==
    ASSUME NEW S, NEW s \in Seq(S), NEW t \in Seq(S), NEW u \in Seq(S),
           Len(u) = Len(s) + Len(t),
           \A i \in 1..Len(s) : u[i] = s[i],
           \A i \in 1..Len(t) : u[Len(s) + i] = t[i]
    PROVE  s \o t = u
  <1>1. s \o t \in Seq(S) /\ Len(s \o t) = Len(u)
    OBVIOUS
  <1>2. ASSUME NEW i \in 1..Len(u) PROVE (s \o t)[i] = u[i]
    <2>1. CASE i \in 1..Len(s)
      BY <2>1
    <2>2. CASE i \notin 1..Len(s)
      <3>1. PICK j \in 1..Len(t) : i = Len(s) + j
        <4>1. i - Len(s) \in 1..Len(t) /\ i = Len(s) + (i - Len(s))
          BY <2>2
        <4> QED
          BY <4>1
      <3> QED
        BY <3>1
    <2> QED
      BY <2>1, <2>2
  <1> QED
    BY <1>1, <1>2, SeqEqual

LEMMA OneFirst ==
    ASSUME NEW S, NEW u \in Seq(S), Len(u) >= 1
    PROVE  <<u[1]>> \o Tail(u) = u
  <1>1. PICK p : p = <<u[1]>>
    OBVIOUS
  <1>2. Len(p) = 1 /\ p[1] = u[1] /\ p \in Seq(S)
    BY <1>1
  <1>3. PICK s : s = Tail(u)
    OBVIOUS
  <1>4. s \in Seq(S) /\ Len(u) = Len(p) + Len(s) /\ \A i \in 1..Len(s) : u[Len(p) + i] = s[i]
    BY <1>2, <1>3
  <1>5. \A i \in 1..Len(p) : u[i] = p[i]
    BY <1>2
  <1>6. p \o s = u
    BY <1>2, <1>4, <1>5, Joined
  <1> QED
    BY <1>1, <1>3, <1>6

LEMMA TwoFirst ==
    ASSUME NEW S, NEW u \in Seq(S), Len(u) >= 2
    PROVE  <<u[1], u[2]>> \o Tail(Tail(u)) = u
  <1>1. PICK p : p = <<u[1], u[2]>>
    OBVIOUS
  <1>2. Len(p) = 2 /\ p[1] = u[1] /\ p[2] = u[2] /\ p \in Seq(S)
    BY <1>1
  <1>3. PICK v : v = Tail(u)
    OBVIOUS
  <1>4. v \in Seq(S) /\ Len(v) = Len(u) - 1 /\ \A i \in 1..Len(v) : v[i] = u[i + 1]
    BY <1>3
  <1>5. PICK s : s = Tail(v)
    OBVIOUS
  <1>6. s \in Seq(S) /\ Len(s) = Len(v) - 1 /\ \A i \in 1..Len(s) : s[i] = v[i + 1]
    BY <1>4, <1>5
  <1>7. Len(u) = Len(p) + Len(s) /\ \A i \in 1..Len(s) : u[Len(p) + i] = s[i]
    BY <1>2, <1>4, <1>6
  <1>8. \A i \in 1..Len(p) : u[i] = p[i]
    BY <1>2
  <1>9. p \o s = u
    BY <1>2, <1>6, <1>7, <1>8, Joined
  <1> QED
    BY <1>1, <1>3, <1>5, <1>9, Zenon

Steps == {"enable", "clear", "stop", "stopping", "find", "load", "setup", "arm", "add", "panic",
          "install", "register", "fail", "registerFailed", "delete", "remove", "disable", "persist"}

LEMMA Programs ==
    /\ Program("startup") = Loading /\ Program("load") = Loading
    /\ Program("reload") = <<"stop", "stopping", "load", "setup", "install", "register">>
    /\ Program("unload") = <<"stop", "stopping", "delete", "remove">>
    /\ Program("disable") = <<"stop", "stopping", "disable">>
    /\ Program("enable") = <<"enable", "clear", "stop", "stopping", "find", "setup", "persist">>
  <1>1. Program("startup") = Loading /\ Program("load") = Loading
    BY DEF Program
  <1>2. ASSUME NEW u \in Seq(Steps), Len(u) >= 2, u[1] = "stop", u[2] = "stopping"
        PROVE  Stopping \o Tail(Tail(u)) = u
    BY <1>2, TwoFirst DEF Stopping
  <1>3. Program("reload") = <<"stop", "stopping", "load", "setup", "install", "register">>
    <2>1. PICK u : u = <<"stop", "stopping", "load", "setup", "install", "register">>
      OBVIOUS
    <2>2. u \in Seq(Steps) /\ Len(u) >= 2 /\ u[1] = "stop" /\ u[2] = "stopping"
      BY <2>1 DEF Steps
    <2>3. Tail(Tail(u)) = Loading
      BY <2>1, TailsOfRemainders DEF Loading
    <2> QED
      BY <1>2, <2>1, <2>2, <2>3 DEF Program
  <1>4. Program("unload") = <<"stop", "stopping", "delete", "remove">>
    <2>1. PICK u : u = <<"stop", "stopping", "delete", "remove">>
      OBVIOUS
    <2>2. u \in Seq(Steps) /\ Len(u) >= 2 /\ u[1] = "stop" /\ u[2] = "stopping"
      BY <2>1 DEF Steps
    <2>3. Tail(Tail(u)) = <<"delete", "remove">>
      BY <2>1, TailsOfRemainders
    <2> QED
      BY <1>2, <2>1, <2>2, <2>3 DEF Program
  <1>5. Program("disable") = <<"stop", "stopping", "disable">>
    <2>1. PICK u : u = <<"stop", "stopping", "disable">>
      OBVIOUS
    <2>2. u \in Seq(Steps) /\ Len(u) >= 2 /\ u[1] = "stop" /\ u[2] = "stopping"
      BY <2>1 DEF Steps
    <2>3. Tail(Tail(u)) = <<"disable">>
      BY <2>1, TailsOfRemainders
    <2> QED
      BY <1>2, <2>1, <2>2, <2>3 DEF Program
  <1>6. Program("enable") = <<"enable", "clear", "stop", "stopping", "find", "setup", "persist">>
    <2>1. PICK u : u = <<"enable", "clear", "stop", "stopping", "find", "setup", "persist">>
      OBVIOUS
    <2>2. PICK w : w = <<"find", "setup", "persist">>
      OBVIOUS
    <2>3. u \in Seq(Steps) /\ Len(u) >= 2 /\ u[1] = "enable" /\ u[2] = "clear"
      BY <2>1 DEF Steps
    <2>4. w \in Seq(Steps)
      BY <2>2 DEF Steps
    <2>5. (<<"enable", "clear">> \o Stopping) \o w = u
      <3>1. PICK r : r = <<"enable", "clear", "stop", "stopping">>
        OBVIOUS
      <3>2. r \in Seq(Steps) /\ Len(r) = 4 /\ Len(r) >= 2 /\ r[1] = "enable" /\ r[2] = "clear"
        BY <3>1 DEF Steps
      <3>3. Tail(Tail(r)) = Stopping
        <4>1. /\ Tail(<<"enable", "clear", "stop", "stopping">>) = <<"clear", "stop", "stopping">>
              /\ Tail(<<"clear", "stop", "stopping">>) = <<"stop", "stopping">>
          OBVIOUS
        <4> QED
          BY <3>1, <4>1, Zenon DEF Stopping
      <3>4. <<"enable", "clear">> \o Stopping = r
        <4>1. <<r[1], r[2]>> \o Tail(Tail(r)) = r
          BY <3>2, TwoFirst
        <4> QED
          BY <3>2, <3>3, <4>1, Zenon
      <3>5. Len(w) = 3 /\ Len(u) = Len(r) + Len(w)
        BY <2>1, <2>2, <3>2
      <3>6. (\A i \in 1..4 : u[i] = r[i]) /\ (\A i \in 1..3 : u[4 + i] = w[i])
        <4>1. u[1] = r[1] /\ u[2] = r[2] /\ u[3] = r[3] /\ u[4] = r[4]
          BY <2>1, <3>1
        <4>2. u[5] = w[1] /\ u[6] = w[2] /\ u[7] = w[3]
          BY <2>1, <2>2
        <4> QED
          BY <4>1, <4>2
      <3>7. (\A i \in 1..Len(r) : u[i] = r[i]) /\ (\A i \in 1..Len(w) : u[Len(r) + i] = w[i])
        BY <3>2, <3>5, <3>6
      <3>8. r \o w = u
        BY <2>3, <2>4, <3>2, <3>5, <3>7, Joined
      <3> QED
        BY <3>4, <3>8
    <2>6. Program("enable") = (<<"enable", "clear">> \o Stopping) \o <<"find", "setup", "persist">>
      BY DEF Program
    <2> QED
      BY <2>1, <2>2, <2>5, <2>6
  <1> QED
    BY <1>1, <1>3, <1>4, <1>5, <1>6

(* What RunSetup puts before the rest: the timer it makes, and its panic. *)
LEMMA Setups ==
    ASSUME NEW s \in {<<"setup", "install", "register">>, <<"setup", "persist">>},
           NEW makes \in BOOLEAN, NEW panics \in BOOLEAN, s = <<"setup", "persist">> => ~panics,
           NEW u, u = (IF makes THEN <<"arm", "add">> ELSE <<>>) \o
                      (IF panics THEN <<"panic">> ELSE <<>>) \o Tail(s)
    PROVE  u \in {<<"arm", "add", "install", "register">>, <<"install", "register">>,
                  <<"arm", "add", "panic", "install", "register">>, <<"panic", "install", "register">>,
                  <<"arm", "add", "persist">>, <<"persist">>}
           /\ (u \in Enabling <=> s \in Enabling) /\ (u \in Bringing <=> s \in Bringing)
  <1>1. PICK t : t = Tail(s)
    OBVIOUS
  <1>2. /\ Tail(<<"setup", "install", "register">>) = <<"install", "register">>
        /\ Tail(<<"setup", "persist">>) = <<"persist">>
    OBVIOUS
  <1>3. \/ s = <<"setup", "install", "register">> /\ t = <<"install", "register">>
        \/ s = <<"setup", "persist">> /\ t = <<"persist">>
    BY <1>1, <1>2, Zenon
  <1>4. t \in Seq(Steps)
    <2>1. <<"install", "register">> \in Seq(Steps) /\ <<"persist">> \in Seq(Steps)
      BY DEF Steps
    <2> QED
      BY <1>3, <2>1, Zenon
  <1>5. <<>> \in Seq(Steps) /\ <<"arm", "add">> \in Seq(Steps) /\ <<"panic">> \in Seq(Steps)
    BY DEF Steps
  <1> DEFINE New == {<<"setup", "install", "register">>, <<"install", "register">>,
                     <<"arm", "add", "install", "register">>, <<"panic", "install", "register">>,
                     <<"arm", "add", "panic", "install", "register">>}
             Again == {<<"setup", "persist">>, <<"persist">>, <<"arm", "add", "persist">>}
  <1>10. /\ \A v \in New : v \in Bringing /\ v \notin Enabling
         /\ \A v \in Again : v \in Enabling /\ v \notin Bringing
    BY DEF Enabling, Bringing
  <1>6. CASE ~makes /\ ~panics
    <2>1. u = (<<>> \o <<>>) \o t
      BY <1>1, <1>6
    <2>2. <<>> \o <<>> = <<>> /\ <<>> \o t = t
      BY <1>4, <1>5, ConcatEmptySeq
    <2>3. u = t
      BY <2>1, <2>2
    <2> QED
      BY <1>3, <1>10, <2>3, Zenon
  <1>7. CASE ~makes /\ panics
    <2>1. u = (<<>> \o <<"panic">>) \o t
      BY <1>1, <1>7
    <2>2. <<>> \o <<"panic">> = <<"panic">>
      BY <1>5, ConcatEmptySeq
    <2>3. PICK v : v = <<"panic", "install", "register">>
      OBVIOUS
    <2>4. v \in Seq(Steps) /\ Len(v) >= 1 /\ v[1] = "panic"
      BY <2>3 DEF Steps
    <2>5. <<v[1]>> \o Tail(v) = v
      BY <2>4, OneFirst
    <2>6. t = <<"install", "register">> /\ Tail(v) = t
      BY <1>3, <1>7, <2>3, TailsOfRemainders
    <2>7. u = v
      BY <2>1, <2>2, <2>4, <2>5, <2>6
    <2> QED
      BY <1>3, <1>7, <1>10, <2>3, <2>6, <2>7, Zenon
  <1>8. CASE makes /\ ~panics
    <2>1. u = (<<"arm", "add">> \o <<>>) \o t
      BY <1>1, <1>8
    <2>2. <<"arm", "add">> \o <<>> = <<"arm", "add">>
      BY <1>5, ConcatEmptySeq
    <2>3. PICK v : \/ v = <<"arm", "add", "install", "register">> /\ t = <<"install", "register">>
                         /\ s = <<"setup", "install", "register">>
                   \/ v = <<"arm", "add", "persist">> /\ t = <<"persist">> /\ s = <<"setup", "persist">>
      BY <1>3, Zenon
    <2>4. v \in Seq(Steps) /\ Len(v) >= 2 /\ v[1] = "arm" /\ v[2] = "add"
      <3>1. CASE v = <<"arm", "add", "install", "register">>
        BY <3>1 DEF Steps
      <3>2. CASE v = <<"arm", "add", "persist">>
        BY <3>2 DEF Steps
      <3> QED
        BY <2>3, <3>1, <3>2
    <2>5. <<v[1], v[2]>> \o Tail(Tail(v)) = v
      BY <2>4, TwoFirst, Zenon
    <2>6. Tail(Tail(v)) = t
      BY <2>3, TailsOfRemainders, TailsOfEnabling, Zenon
    <2>7. u = v
      BY <2>1, <2>2, <2>4, <2>5, <2>6, Zenon
    <2> QED
      BY <1>10, <2>3, <2>7, Zenon
  <1>9. CASE makes /\ panics
    <2>1. u = (<<"arm", "add">> \o <<"panic">>) \o t
      BY <1>1, <1>9
    <2>2. PICK r : r = <<"arm", "add", "panic">>
      OBVIOUS
    <2>3. r \in Seq(Steps) /\ Len(r) = 3 /\ Len(r) >= 2 /\ r[1] = "arm" /\ r[2] = "add"
      BY <2>2 DEF Steps
    <2>4. Tail(Tail(r)) = <<"panic">>
      BY <2>2
    <2>5. <<r[1], r[2]>> \o Tail(Tail(r)) = r
      BY <2>3, TwoFirst
    <2>6. u = r \o t
      BY <2>1, <2>3, <2>4, <2>5
    <2>7. PICK v : v = <<"arm", "add", "panic", "install", "register">>
      OBVIOUS
    <2>8. v \in Seq(Steps) /\ Len(v) = 5
      BY <2>7 DEF Steps
    <2>9. t = <<"install", "register">> /\ Len(t) = 2
      BY <1>3, <1>9
    <2>10. v[1] = r[1] /\ v[2] = r[2] /\ v[3] = r[3] /\ v[4] = t[1] /\ v[5] = t[2]
      BY <2>2, <2>7, <2>9
    <2>11. /\ Len(v) = Len(r) + Len(t)
           /\ \A i \in 1..Len(r) : v[i] = r[i]
           /\ \A i \in 1..Len(t) : v[Len(r) + i] = t[i]
      BY <2>3, <2>8, <2>9, <2>10
    <2>12. r \o t = v
      BY <1>4, <2>3, <2>8, <2>11, Joined
    <2> QED
      BY <1>3, <1>9, <1>10, <2>6, <2>7, <2>9, <2>12, Zenon
  <1> QED
    BY <1>6, <1>7, <1>8, <1>9

------------------------------------------------------------------------------
(* The steps of a call *)

LEMMA Kinds ==
    ASSUME NEW s \in Remainders \union Enabling
    PROVE  /\ s \in Bringing <=>
                 s \notin Enabling /\ Head(s) \in {"setup", "arm", "add", "panic", "install"}
           /\ s \in Enabling => s \notin Changing
           /\ s \in Failing <=> Head(s) \in {"fail", "registerFailed"}
           /\ s = <<"register">> <=> Head(s) = "register"
           /\ s \in Removing => Head(s) \in {"stop", "stopping", "delete", "remove"}
           /\ s \notin Changing =>
                 \/ s \in Enabling
                 \/ Head(s) \in {"register", "registerFailed", "remove", "stop", "stopping", "disable"}
  BY DEF Remainders, Enabling, Changing, Reloading, Loading, Bringing, Failing, Removing, Disabling

LEMMA OnItsCourse ==
    ASSUME Inv, NEW c \in Callers, Busy(c)
    PROVE  /\ call[c] \in CallType /\ call[c].todo \in Remainders \union Enabling
           /\ OnTrack(call[c]) /\ HasTimer(call[c]) /\ call[c].ver <= Len(content)
           /\ ~Overlap => OnCourse(call[c]) /\ CreatedIsFirst
  BY DEF Inv, TypeInv, CourseInv, CallType, Busy

(* The four calls that stop the timers, and what they go on to do. *)
LEMMA StopTails ==
    ASSUME NEW s \in Remainders \union Enabling, Head(s) = "stop"
    PROVE  /\ Tail(s) \in Remainders \union Enabling /\ Head(Tail(s)) = "stopping"
           /\ Tail(s) \in Removing <=> s \in Removing
           /\ Tail(s) \in Changing <=> s \in Changing
           /\ Tail(s) \in Enabling <=> s \in Enabling
  <1>1. PICK r : r = Tail(s)
    OBVIOUS
  <1> USE DEF Remainders, Enabling, Changing, Reloading, Loading, Bringing, Failing, Removing, Disabling
  <1>2. CASE s = <<"stop", "stopping", "load", "setup", "install", "register">>
    <2>1. r = <<"stopping", "load", "setup", "install", "register">>
      BY <1>1, <1>2
    <2> QED
      BY <1>1, <1>2, <2>1
  <1>3. CASE s = <<"stop", "stopping", "delete", "remove">>
    <2>1. r = <<"stopping", "delete", "remove">>
      BY <1>1, <1>3
    <2> QED
      BY <1>1, <1>3, <2>1
  <1>4. CASE s = <<"stop", "stopping", "disable">>
    <2>1. r = <<"stopping", "disable">>
      BY <1>1, <1>4
    <2> QED
      BY <1>1, <1>4, <2>1
  <1>5. CASE s = <<"stop", "stopping", "find", "setup", "persist">>
    <2>1. r = <<"stopping", "find", "setup", "persist">>
      BY <1>1, <1>5
    <2> QED
      BY <1>1, <1>5, <2>1
  <1> HIDE DEF Remainders, Enabling, Changing, Reloading, Loading, Bringing, Failing, Removing, Disabling
  <1> QED
    BY <1>2, <1>3, <1>4, <1>5, Heads

LEMMA StopTimersKeeps ==
    ASSUME Inv, NEW c \in Callers, StopTimers(c)
    PROVE  Inv'
  <1>1. /\ Busy(c) /\ Head(call[c].todo) = "stop" /\ sched' = {}
        /\ call' = [call EXCEPT ![c] = [Rest(c) EXCEPT !.stopping = sched]]
        /\ UNCHANGED <<disk, changes, ext, script, content, timer, job>>
    BY DEF StopTimers, Does, files, scripts
  <1>2. PICK s : s = call[c].todo
    OBVIOUS
  <1>3. /\ s \in Remainders \union Enabling /\ OnTrack(call[c])
        /\ ~Overlap => OnCourse(call[c]) /\ CreatedIsFirst
    BY <1>1, <1>2, OnItsCourse
  <1>4. PICK r : r = Rest(c)
    OBVIOUS
  <1>5. /\ r \in CallType /\ OnTrack(r) /\ r.ver <= Len(content) /\ r.todo = Tail(s)
    BY <1>1, <1>2, <1>4, RestType DEF Inv
  <1>6. PICK k : k = [r EXCEPT !.stopping = sched]
    OBVIOUS
  <1>7. /\ k \in CallType /\ OnTrack(k) /\ k.ver <= Len(content) /\ k.todo = Tail(s)
        /\ k.stopping = sched
    BY <1>5, <1>6 DEF CallType, Inv, TypeInv, DataType, OnTrack
  <1>8. DataType' /\ ClockInv' /\ Live' = Live
    BY <1>1 DEF Inv, TypeInv, DataType, ClockInv, Live, At
  <1>9. /\ Tail(s) \in Remainders \union Enabling /\ Head(Tail(s)) = "stopping"
        /\ Tail(s) \in Removing <=> s \in Removing
        /\ Tail(s) \in Changing <=> s \in Changing
        /\ Tail(s) \in Enabling <=> s \in Enabling
    BY <1>1, <1>2, <1>3, StopTails
  <1>10. ASSUME ~Overlap PROVE OnCourse(k)'
    <2>1. OnCourse(call[c])
      BY <1>3, <1>10
    <2>2. VersionIsFresh(k)'
      BY <1>1, <1>2, <1>7, <1>9, <2>1, Kinds DEF OnCourse, VersionIsFresh, Fresh
    <2>3. TimersInStage(k)'
      BY <1>1, <1>2, <1>7, <1>8, <1>9, <2>1 DEF OnCourse, TimersInStage, Tidy
    <2>4. ScriptInStage(k)'
      BY <1>7, <1>9 DEF ScriptInStage
    <2>5. StatusInStage(k)'
      BY <1>1, <1>2, <1>3, <1>7, <1>8, <1>9, <2>1, Kinds DEF OnCourse, StatusInStage
    <2>6. Away' => k.todo \in Removing
      BY <1>1, <1>2, <1>7, <1>9, <2>1 DEF OnCourse, Away
    <2> QED
      BY <2>2, <2>3, <2>4, <2>5, <2>6 DEF OnCourse
  <1>11. k.todo # <<>> /\ HasTimer(k)
    BY <1>7, <1>9, Heads DEF HasTimer
  <1>12. call' = [call EXCEPT ![c] = k] /\ content' = content
    BY <1>1, <1>4, <1>6
  <1>13. ~Overlap => CreatedIsFirst'
    BY <1>1, <1>3 DEF CreatedIsFirst
  <1>14. Len(content) <= Len(content)
    BY DEF Inv, TypeInv, DataType
  <1> QED
    BY <1>1, <1>7, <1>8, <1>10, <1>11, <1>12, <1>13, <1>14, CallMoves

(* ... and what they do once all are stopped. *)
LEMMA StoppingTails ==
    ASSUME NEW s \in Remainders \union Enabling, Head(s) = "stopping"
    PROVE  /\ Tail(s) \in Remainders \union Enabling
           /\ Head(Tail(s)) \in {"load", "delete", "disable", "find"}
           /\ Tail(s) \in Removing <=> s \in Removing
           /\ Tail(s) \in Changing <=> s \in Changing
           /\ Tail(s) \in Enabling <=> s \in Enabling
  <1>1. PICK r : r = Tail(s)
    OBVIOUS
  <1> USE DEF Remainders, Enabling, Changing, Reloading, Loading, Bringing, Failing, Removing, Disabling
  <1>2. CASE s = <<"stopping", "load", "setup", "install", "register">>
    <2>1. r = <<"load", "setup", "install", "register">>
      BY <1>1, <1>2
    <2> QED
      BY <1>1, <1>2, <2>1
  <1>3. CASE s = <<"stopping", "delete", "remove">>
    <2>1. r = <<"delete", "remove">>
      BY <1>1, <1>3
    <2> QED
      BY <1>1, <1>3, <2>1
  <1>4. CASE s = <<"stopping", "disable">>
    <2>1. r = <<"disable">>
      BY <1>1, <1>4
    <2> QED
      BY <1>1, <1>4, <2>1
  <1>5. CASE s = <<"stopping", "find", "setup", "persist">>
    <2>1. r = <<"find", "setup", "persist">>
      BY <1>1, <1>5
    <2> QED
      BY <1>1, <1>5, <2>1
  <1> HIDE DEF Remainders, Enabling, Changing, Reloading, Loading, Bringing, Failing, Removing, Disabling
  <1> QED
    BY <1>2, <1>3, <1>4, <1>5, Heads

LEMMA StoppedType ==
    ASSUME TypeInv, ClockInv, NEW t \in Timers
    PROVE  /\ Stopped(t) \in TimerType
           /\ Stopped(t).stopped /\ ~Stopped(t).armed /\ Stopped(t).made
  <1>1. timer[t] \in TimerType /\ (job[t].at # "idle" => timer[t].made)
    BY DEF TypeInv, DataType, ClockInv
  <1>2. CASE job[t].at = "idle"
    <2>1. NoTimer \in TimerType
      BY BoundsAssumption DEF NoTimer, TimerType
    <2>2. Stopped(t) = [NoTimer EXCEPT !.made = TRUE, !.stopped = TRUE]
      BY <1>2 DEF Stopped
    <2>3. ~NoTimer.armed
      BY DEF NoTimer
    <2> QED
      BY <2>1, <2>2, <2>3 DEF TimerType
  <1>3. CASE job[t].at # "idle"
    <2>1. Stopped(t) = [timer[t] EXCEPT !.stopped = TRUE, !.armed = FALSE]
      BY <1>3 DEF Stopped
    <2> QED
      BY <1>1, <1>3, <2>1 DEF TimerType
  <1> QED
    BY <1>2, <1>3

LEMMA StopEachKeeps ==
    ASSUME Inv, NEW c \in Callers, StopEach(c)
    PROVE  Inv'
  <1>1. /\ Busy(c) /\ Head(call[c].todo) = "stopping"
        /\ UNCHANGED <<disk, changes, ext, script, content, sched, job>>
    BY DEF StopEach, Does, files, scripts
  <1>2. PICK s : s = call[c].todo
    OBVIOUS
  <1>3. /\ s \in Remainders \union Enabling /\ OnTrack(call[c]) /\ call[c] \in CallType
        /\ call[c].ver <= Len(content)
        /\ ~Overlap => OnCourse(call[c]) /\ CreatedIsFirst
    BY <1>1, <1>2, OnItsCourse
  <1>4. ~Overlap => CreatedIsFirst'
    BY <1>1, <1>3 DEF CreatedIsFirst
  <1>5. Len(content) <= Len(content) /\ content' = content
    BY <1>1 DEF Inv, TypeInv, DataType
  <1>6. ~Overlap => sched = {} /\ Live \subseteq call[c].stopping
    BY <1>1, <1>3 DEF OnCourse, TimersInStage
  <1>7. CASE call[c].stopping = {}
    <2>1. call' = [call EXCEPT ![c] = Rest(c)] /\ timer' = timer
      BY <1>7 DEF StopEach, Proceed
    <2>2. PICK k : k = Rest(c)
      OBVIOUS
    <2>3. /\ k \in CallType /\ OnTrack(k) /\ k.ver <= Len(content) /\ k.todo = Tail(s)
          /\ k.todo # <<>> => k.ver = call[c].ver
      BY <1>1, <1>2, <2>2, RestType DEF Inv
    <2>4. /\ Tail(s) \in Remainders \union Enabling
          /\ Head(Tail(s)) \in {"load", "delete", "disable", "find"}
          /\ Tail(s) \in Removing <=> s \in Removing
          /\ Tail(s) \in Changing <=> s \in Changing
          /\ Tail(s) \in Enabling <=> s \in Enabling
      BY <1>1, <1>2, <1>3, StoppingTails
    <2>5. DataType' /\ ClockInv' /\ Live' = Live
      BY <1>1, <2>1 DEF Inv, TypeInv, DataType, ClockInv, Live, At
    <2>6. ASSUME ~Overlap PROVE OnCourse(k)'
      <3>1. OnCourse(call[c]) /\ NoTimers'
        BY <1>1, <1>3, <1>6, <1>7, <2>5, <2>6 DEF NoTimers
      <3>2. VersionIsFresh(k)'
        BY <1>1, <1>2, <2>3, <2>4, <3>1, Kinds DEF OnCourse, VersionIsFresh, Fresh
      <3>3. TimersInStage(k)'
        BY <2>3, <2>4, <3>1 DEF TimersInStage
      <3>4. ScriptInStage(k)'
        BY <2>3, <2>4 DEF ScriptInStage
      <3>5. StatusInStage(k)'
        BY <1>1, <1>2, <1>3, <2>3, <2>4, <3>1 DEF OnCourse, StatusInStage, NoTimers
      <3>6. Away' => k.todo \in Removing
        BY <1>1, <1>2, <2>3, <2>4, <3>1 DEF OnCourse, Away
      <3> QED
        BY <3>2, <3>3, <3>4, <3>5, <3>6 DEF OnCourse
    <2>7. k.todo # <<>> /\ HasTimer(k)
      BY <2>3, <2>4, Heads DEF HasTimer
    <2>8. call' = [call EXCEPT ![c] = k]
      BY <2>1, <2>2
    <2> QED
      BY <1>1, <1>4, <1>5, <2>3, <2>5, <2>6, <2>7, <2>8, CallMoves
  <1>8. CASE call[c].stopping # {}
    <2>1. PICK t \in call[c].stopping :
            /\ timer' = [timer EXCEPT ![t] = Stopped(t)]
            /\ call' = [call EXCEPT ![c].stopping = @ \ {t}]
      BY <1>8 DEF StopEach
    <2>2. t \in Timers /\ timer \in [Timers -> TimerType]
      BY <1>3, <2>1 DEF CallType, Inv, TypeInv, DataType
    <2>3. PICK k : k = [call[c] EXCEPT !.stopping = call[c].stopping \ {t}]
      OBVIOUS
    <2>4. /\ k \in CallType /\ k.todo = s /\ k.op = call[c].op /\ k.ver = call[c].ver
          /\ k.stopping = call[c].stopping \ {t}
      BY <1>2, <1>3, <2>3 DEF CallType
    <2>5. call' = [call EXCEPT ![c] = k]
      BY <2>1, <2>3
    <2>6. /\ timer' \in [Timers -> TimerType] /\ timer'[t] = Stopped(t)
          /\ \A u \in Timers \ {t} : timer'[u] = timer[u]
          /\ timer'[t].stopped /\ ~timer'[t].armed /\ timer'[t].made
      BY <2>1, <2>2, StoppedType DEF Inv
    <2>7. DataType' /\ ClockInv'
      BY <1>1, <2>6 DEF Inv, TypeInv, DataType, ClockInv
    <2>8. Live' \subseteq Live \ {t}
      BY <1>1, <2>6 DEF Live, At
    <2>9. ASSUME ~Overlap PROVE OnCourse(k)'
      <3>1. OnCourse(call[c])
        BY <1>3, <2>9
      <3>2. VersionIsFresh(k)'
        BY <1>1, <1>2, <2>4, <3>1 DEF OnCourse, VersionIsFresh, Fresh
      <3>3. sched' = {} /\ Live' \subseteq k.stopping
        BY <1>1, <1>6, <2>4, <2>8, <2>9
      <3>4. TimersInStage(k)'
        BY <1>1, <1>2, <2>4, <3>3 DEF TimersInStage
      <3>5. ScriptInStage(k)'
        BY <1>1, <1>2, <2>4 DEF ScriptInStage
      <3>6. StatusInStage(k)'
        BY <1>1, <1>2, <2>4, <2>8, <3>1 DEF OnCourse, StatusInStage
      <3>7. Away' => k.todo \in Removing
        BY <1>1, <1>2, <2>4, <3>1 DEF OnCourse, Away
      <3> QED
        BY <3>2, <3>4, <3>5, <3>6, <3>7 DEF OnCourse
    <2>10. k.todo # <<>> /\ HasTimer(k) /\ OnTrack(k)
      BY <1>1, <1>2, <1>3, <2>4, Heads DEF HasTimer, OnTrack
    <2>11. k.ver <= Len(content)
      BY <1>3, <2>4
    <2> QED
      BY <1>1, <1>4, <1>5, <2>4, <2>5, <2>7, <2>9, <2>10, <2>11, CallMoves
  <1> QED
    BY <1>7, <1>8

(* A call that fails: the script goes, whatever timers it has are known. *)
LEMMA Fails ==
    ASSUME Inv, NEW c \in Callers, Busy(c), Fail(c),
           UNCHANGED <<files, ext, scripts, sched, timer, job>>,
           call[c].todo \notin Enabling, call[c].todo \notin Removing,
           Tidy \/ Overlap, call[c].todo \in Bringing \/ (Live = {} \/ Overlap)
    PROVE  Inv'
  <1>1. /\ call[c] \in CallType /\ OnTrack(call[c]) /\ call[c].ver <= Len(content)
        /\ call[c].todo # <<>>
        /\ ~Overlap => OnCourse(call[c]) /\ CreatedIsFirst
    BY OnItsCourse DEF Busy
  <1>2. PICK s : s = <<"fail", "registerFailed">>
    OBVIOUS
  <1>3. /\ s \in Remainders /\ s \notin Enabling /\ s \in Changing /\ s \in Failing /\ s \notin Bringing
        /\ s # <<>> /\ Head(s) = "fail"
    BY <1>2 DEF Remainders, Enabling, Changing, Bringing, Failing
  <1>4. PICK k : k = [call[c] EXCEPT !.todo = s]
    OBVIOUS
  <1>5. /\ k \in CallType /\ k.todo = s /\ k.op = call[c].op /\ k.ver = call[c].ver
        /\ call' = [call EXCEPT ![c] = k]
    BY <1>1, <1>2, <1>3, <1>4 DEF CallType, Fail
  <1>6. OnTrack(k) /\ HasTimer(k) /\ k.ver <= Len(content) /\ k.todo # <<>>
    BY <1>1, <1>3, <1>5 DEF OnTrack, HasTimer
  <1>7. /\ DataType' /\ ClockInv' /\ Live' = Live /\ content' = content
        /\ Len(content) <= Len(content)
    BY DEF Inv, TypeInv, DataType, ClockInv, Live, At, files, scripts
  <1>8. ~Overlap => CreatedIsFirst'
    BY <1>1 DEF CreatedIsFirst, files
  <1>9. ASSUME ~Overlap PROVE OnCourse(k)'
    <2>1. VersionIsFresh(k)'
      BY <1>3, <1>5 DEF VersionIsFresh
    <2>2. TimersInStage(k)'
      BY <1>3, <1>5, <1>7, <1>9 DEF TimersInStage, Tidy
    <2>3. ScriptInStage(k)'
      BY <1>3, <1>5 DEF ScriptInStage
    <2>4. StatusInStage(k)'
      BY <1>3, <1>5 DEF StatusInStage
    <2>5. ~Away'
      BY <1>1, <1>9 DEF OnCourse, Away, files
    <2> QED
      BY <2>1, <2>2, <2>3, <2>4, <2>5 DEF OnCourse
  <1> QED
    BY <1>5, <1>6, <1>7, <1>8, <1>9, CallMoves

LEMMA LoadPackageKeeps ==
    ASSUME Inv, NEW c \in Callers, LoadPackage(c)
    PROVE  Inv'
  <1>1. /\ Busy(c) /\ Head(call[c].todo) = "load"
        /\ UNCHANGED <<files, disk, changes, ext, script, sched, timer, job>>
    BY DEF LoadPackage, Does, files, clock
  <1>2. /\ call[c] \in CallType /\ OnTrack(call[c]) /\ call[c].ver <= Len(content)
        /\ call[c].todo \in Remainders \union Enabling
        /\ ~Overlap => OnCourse(call[c]) /\ CreatedIsFirst
    BY <1>1, OnItsCourse
  <1>3. call[c].todo = Loading
    BY <1>1, <1>2, Heads
  <1>4. Loading \notin Enabling /\ Loading \notin Removing
    BY DEF Loading, Enabling, Removing
  <1>5. ~Overlap => NoTimers /\ ~Away
    BY <1>1, <1>2, <1>3, <1>4 DEF OnCourse, TimersInStage
  <1>6. CASE ~(disk.there /\ disk.good)
    <2>1. Fail(c) /\ UNCHANGED scripts
      BY <1>1, <1>6 DEF LoadPackage, scripts
    <2>2. ~Overlap => Tidy /\ Live = {}
      BY <1>5 DEF NoTimers, Tidy
    <2> QED
      BY <1>1, <1>3, <1>4, <2>1, <2>2, Fails
  <1>7. CASE disk.there /\ disk.good
    <2>1. /\ Len(content) < MaxLoads /\ content' = Append(content, disk.n)
          /\ call' = [call EXCEPT ![c] = [Rest(c) EXCEPT !.ver = Len(content) + 1]]
      BY <1>7 DEF LoadPackage
    <2>2. /\ content \in Seq(Nat) /\ disk.n \in Nat /\ MaxLoads \in Nat
      BY BoundsAssumption DEF Inv, TypeInv, DataType
    <2>3. PICK v : v = Len(content) + 1
      OBVIOUS
    <2>4. /\ content' \in Seq(Nat) /\ Len(content') = v /\ content'[v] = disk.n
          /\ v \in 1..MaxLoads /\ Len(content) <= Len(content')
          /\ \A i \in 1..Len(content) : content'[i] = content[i]
      BY <2>1, <2>2, <2>3
    <2>5. PICK r : r = Rest(c)
      OBVIOUS
    <2>6. r \in CallType /\ OnTrack(r) /\ r.todo = Tail(Loading)
      BY <1>1, <1>3, <2>5, RestType DEF Inv
    <2>7. PICK s : s = <<"setup", "install", "register">>
      OBVIOUS
    <2>8. Tail(Loading) = s
      BY <2>7, TailsOfRemainders DEF Loading
    <2>9. /\ s # <<>> /\ Head(s) = "setup" /\ s \in Bringing /\ s \in Changing
          /\ s \notin Enabling
      BY <2>7 DEF Bringing, Changing, Enabling
    <2>10. PICK k : k = [r EXCEPT !.ver = v]
      OBVIOUS
    <2>11. /\ k \in CallType /\ k.todo = s /\ k.op = r.op /\ k.ver = v
           /\ call' = [call EXCEPT ![c] = k]
      <3>1. v \in 0..MaxLoads /\ r.todo = s
        BY <2>2, <2>4, <2>6, <2>8
      <3>2. k \in CallType /\ k.todo = s /\ k.op = r.op /\ k.ver = v
        BY <2>6, <2>10, <3>1 DEF CallType
      <3> QED
        BY <2>1, <2>3, <2>5, <2>10, <3>2
    <2>12. OnTrack(k) /\ HasTimer(k) /\ k.todo # <<>> /\ k.ver <= Len(content')
      <3>1. r.todo = s
        BY <2>6, <2>8
      <3>2. OnTrack(k)
        BY <2>6, <2>9, <2>11, <3>1 DEF OnTrack
      <3>3. HasTimer(k) /\ k.todo # <<>>
        BY <2>9, <2>11 DEF HasTimer
      <3> QED
        BY <2>2, <2>4, <2>11, <3>2, <3>3
    <2>13. DataType'
      BY <1>1, <2>2, <2>4 DEF Inv, TypeInv, DataType
    <2>14. ClockInv' /\ Live' = Live
      BY <1>1 DEF Inv, ClockInv, Live, At
    <2>15. ~Overlap => CreatedIsFirst'
      BY <1>1, <1>2 DEF CreatedIsFirst
    <2>16. ASSUME ~Overlap PROVE OnCourse(k)'
      <3>1. VersionIsFresh(k)'
        BY <1>1, <1>7, <2>4, <2>9, <2>11 DEF VersionIsFresh, Fresh
      <3>2. TimersInStage(k)'
        BY <1>1, <1>5, <2>9, <2>11, <2>14, <2>16 DEF TimersInStage, NoTimers
      <3>3. ScriptInStage(k)'
        BY <2>9, <2>11 DEF ScriptInStage
      <3>4. StatusInStage(k)'
        BY <2>9, <2>11 DEF StatusInStage
      <3>5. ~Away'
        BY <1>1, <1>5, <2>16 DEF Away
      <3> QED
        BY <3>1, <3>2, <3>3, <3>4, <3>5 DEF OnCourse
    <2> QED
      BY <1>1, <2>4, <2>11, <2>12, <2>13, <2>14, <2>15, <2>16, CallMoves
  <1> QED
    BY <1>6, <1>7

LEMMA RunSetupKeeps ==
    ASSUME Inv, NEW c \in Callers, RunSetup(c)
    PROVE  Inv'
  <1>1. /\ Busy(c) /\ Head(call[c].todo) = "setup"
        /\ UNCHANGED <<disk, changes, ext, script, content, sched, timer, job>>
    BY DEF RunSetup, Does, files, scripts, clock
  <1>2. PICK s : s = call[c].todo
    OBVIOUS
  <1>3. /\ call[c] \in CallType /\ OnTrack(call[c]) /\ call[c].ver <= Len(content)
        /\ s \in Remainders \union Enabling
        /\ ~Overlap => OnCourse(call[c]) /\ CreatedIsFirst
    BY <1>1, <1>2, OnItsCourse
  <1>4. s \in {<<"setup", "install", "register">>, <<"setup", "persist">>} /\ s # <<>>
    BY <1>1, <1>2, <1>3, Heads
  <1>5. <<"setup", "persist">> \in Enabling /\ \A r \in Enabling : r \notin Removing
    BY DEF Enabling, Removing
  <1>6. PICK makes \in BOOLEAN, panics \in BOOLEAN :
          /\ panics => call[c].op # "enable"
          /\ call' = [call EXCEPT ![c].todo =
                (IF makes THEN <<"arm", "add">> ELSE <<>>) \o
                (IF panics THEN <<"panic">> ELSE <<>>) \o Tail(@)]
    BY DEF RunSetup
  <1>7. s = <<"setup", "persist">> => ~panics
    BY <1>2, <1>3, <1>4, <1>5, <1>6 DEF OnTrack
  <1>8. PICK u : u = (IF makes THEN <<"arm", "add">> ELSE <<>>) \o
                     (IF panics THEN <<"panic">> ELSE <<>>) \o Tail(s)
    OBVIOUS
  <1>9. /\ u \in {<<"arm", "add", "install", "register">>, <<"install", "register">>,
                  <<"arm", "add", "panic", "install", "register">>, <<"panic", "install", "register">>,
                  <<"arm", "add", "persist">>, <<"persist">>}
        /\ (u \in Enabling <=> s \in Enabling) /\ (u \in Bringing <=> s \in Bringing)
    BY <1>4, <1>7, <1>8, Setups
  <1>10. /\ u \in Remainders \union Enabling /\ u # <<>>
         /\ Head(u) \in {"arm", "install", "panic", "persist"}
         /\ u \in Bringing => u \in Changing
         /\ u \notin Removing
         /\ Head(u) = "persist" => u \in Enabling
    BY <1>9 DEF Remainders, Bringing, Enabling, Changing, Removing
  <1>11. s \in Bringing \/ s \in Enabling
    BY <1>4 DEF Bringing, Enabling
  <1>12. PICK k : k = [call[c] EXCEPT !.todo = u]
    OBVIOUS
  <1>13. /\ k \in CallType /\ k.todo = u /\ k.op = call[c].op /\ k.ver = call[c].ver
         /\ call' = [call EXCEPT ![c] = k]
    BY <1>2, <1>3, <1>6, <1>8, <1>10, <1>12 DEF CallType
  <1>14. OnTrack(k) /\ HasTimer(k) /\ k.ver <= Len(content) /\ k.todo # <<>>
    BY <1>2, <1>3, <1>4, <1>9, <1>10, <1>13 DEF OnTrack, HasTimer
  <1>15. /\ DataType' /\ ClockInv' /\ Live' = Live /\ content' = content
         /\ Len(content) <= Len(content)
    BY <1>1 DEF Inv, TypeInv, DataType, ClockInv, Live, At
  <1>16. ~Overlap => CreatedIsFirst'
    BY <1>1, <1>3 DEF CreatedIsFirst
  <1>17. ASSUME ~Overlap PROVE OnCourse(k)'
    <2>1. OnCourse(call[c]) /\ NoTimers'
      BY <1>1, <1>3, <1>15, <1>17 DEF OnCourse, TimersInStage, NoTimers
    <2>2. VersionIsFresh(k)'
      <3>1. s \in Enabling => s \notin Changing
        BY <1>3, Kinds
      <3> QED
        BY <1>1, <1>2, <1>9, <1>10, <1>11, <1>13, <2>1, <3>1 DEF OnCourse, VersionIsFresh, Fresh
    <2>3. TimersInStage(k)'
      BY <1>10, <1>13, <2>1 DEF TimersInStage, NoTimers, Tidy, Alone, Of
    <2>4. ScriptInStage(k)'
      BY <1>1, <1>2, <1>9, <1>10, <1>13, <2>1 DEF OnCourse, ScriptInStage
    <2>5. StatusInStage(k)'
      BY <1>1, <1>2, <1>9, <1>10, <1>13, <2>1 DEF OnCourse, StatusInStage, NoTimers
    <2>6. ~Away'
      <3>1. s \notin Removing
        BY <1>4 DEF Removing
      <3> QED
        BY <1>1, <1>2, <2>1, <3>1 DEF OnCourse, Away
    <2> QED
      BY <2>2, <2>3, <2>4, <2>5, <2>6 DEF OnCourse
  <1> QED
    BY <1>1, <1>13, <1>14, <1>15, <1>16, <1>17, CallMoves

(* The tails of what is left once Setup has run. *)
LEMMA SetupTails ==
    ASSUME NEW s \in Remainders \union Enabling, Head(s) \in {"arm", "add"}
    PROVE  /\ Tail(s) \in Remainders \union Enabling /\ Tail(s) # <<>>
           /\ Head(s) = "arm" => Head(Tail(s)) = "add"
           /\ Head(s) = "add" => Head(Tail(s)) \in {"panic", "install", "persist"}
           /\ Head(Tail(s)) = "persist" => s \in Enabling
           /\ s \notin Removing
           /\ Tail(s) \in Changing <=> s \in Changing
           /\ Tail(s) \in Enabling <=> s \in Enabling
           /\ Tail(s) \in Bringing <=> s \in Bringing
           /\ s \in Bringing \/ s \in Enabling
  <1>1. s \in {<<"arm", "add", "install", "register">>, <<"arm", "add", "panic", "install", "register">>,
               <<"arm", "add", "persist">>, <<"add", "install", "register">>,
               <<"add", "panic", "install", "register">>, <<"add", "persist">>}
    BY Heads, Zenon
  <1>2. CASE s = <<"arm", "add", "persist">>
    <2>1. Tail(s) = <<"add", "persist">>
      BY <1>2, TailsOfEnabling, Zenon
    <2> QED
      BY <1>2, <2>1 DEF Remainders, Enabling, Changing, Bringing, Removing, Reloading, Loading
  <1>3. CASE s = <<"add", "persist">>
    <2>1. Tail(s) = <<"persist">>
      BY <1>3, TailsOfEnabling, Zenon
    <2> QED
      BY <1>3, <2>1 DEF Remainders, Enabling, Changing, Bringing, Removing, Reloading, Loading
  <1>4. CASE s = <<"arm", "add", "install", "register">>
    <2>1. Tail(s) = <<"add", "install", "register">>
      BY <1>4, TailsOfRemainders, Zenon
    <2> QED
      BY <1>4, <2>1 DEF Remainders, Enabling, Changing, Bringing, Removing
  <1>5. CASE s = <<"arm", "add", "panic", "install", "register">>
    <2>1. Tail(s) = <<"add", "panic", "install", "register">>
      BY <1>5, TailsOfRemainders, Zenon
    <2> QED
      BY <1>5, <2>1 DEF Remainders, Enabling, Changing, Bringing, Removing
  <1>6. CASE s = <<"add", "install", "register">>
    <2>1. Tail(s) = <<"install", "register">>
      BY <1>6, TailsOfRemainders, Zenon
    <2> QED
      BY <1>6, <2>1 DEF Remainders, Enabling, Changing, Bringing, Removing
  <1>7. CASE s = <<"add", "panic", "install", "register">>
    <2>1. Tail(s) = <<"panic", "install", "register">>
      BY <1>7, TailsOfRemainders, Zenon
    <2> QED
      BY <1>7, <2>1 DEF Remainders, Enabling, Changing, Bringing, Removing
  <1> QED
    BY <1>1, <1>2, <1>3, <1>4, <1>5, <1>6, <1>7, Zenon

LEMMA ArmTimerKeeps ==
    ASSUME Inv, NEW c \in Callers, ArmTimer(c)
    PROVE  Inv'
  <1>1. /\ Busy(c) /\ Head(call[c].todo) = "arm"
        /\ UNCHANGED <<disk, changes, ext, script, content, sched, job>>
    BY DEF ArmTimer, Does, files, scripts
  <1>2. PICK s : s = call[c].todo
    OBVIOUS
  <1>3. /\ s \in Remainders \union Enabling /\ call[c] \in CallType
        /\ call[c].ver <= Len(content)
        /\ ~Overlap => OnCourse(call[c]) /\ CreatedIsFirst
    BY <1>1, <1>2, OnItsCourse
  <1>4. /\ Tail(s) \in Remainders \union Enabling /\ Tail(s) # <<>> /\ Head(Tail(s)) = "add"
        /\ s \notin Removing
        /\ Tail(s) \in Changing <=> s \in Changing
        /\ Tail(s) \in Enabling <=> s \in Enabling
        /\ Tail(s) \in Bringing <=> s \in Bringing
        /\ s \in Bringing \/ s \in Enabling
    BY <1>1, <1>2, <1>3, SetupTails
  <1>5. PICK t \in Unmade, repeats \in BOOLEAN :
          /\ timer' = [timer EXCEPT ![t] =
                [made |-> TRUE, armed |-> TRUE, stopped |-> FALSE, repeats |-> repeats, ver |-> call[c].ver]]
          /\ call' = [call EXCEPT ![c] = [Rest(c) EXCEPT !.timer = t]]
    BY DEF ArmTimer
  <1>6. t \in Timers /\ timer \in [Timers -> TimerType] /\ call[c].ver \in 0..MaxLoads
    BY <1>3, <1>5 DEF Unmade, Inv, TypeInv, DataType, CallType
  <1>7. PICK r : r = Rest(c)
    OBVIOUS
  <1>8. r \in CallType /\ OnTrack(r) /\ r.ver = call[c].ver /\ r.todo = Tail(s) /\ r.op = call[c].op
    BY <1>1, <1>2, <1>4, <1>7, RestType DEF Inv
  <1>9. PICK k : k = [r EXCEPT !.timer = t]
    OBVIOUS
  <1>10. k \in CallType /\ k.todo = Tail(s) /\ k.op = r.op /\ k.ver = call[c].ver /\ k.timer = t
    BY <1>6, <1>8, <1>9 DEF CallType
  <1>11. OnTrack(k) /\ HasTimer(k) /\ k.ver <= Len(content) /\ k.todo # <<>>
    BY <1>3, <1>4, <1>6, <1>8, <1>10 DEF OnTrack, HasTimer
  <1>12. call' = [call EXCEPT ![c] = k]
    BY <1>5, <1>7, <1>9
  <1>13. /\ timer' \in [Timers -> TimerType]
         /\ timer'[t].made /\ ~timer'[t].stopped /\ timer'[t].ver = call[c].ver
         /\ \A u \in Timers \ {t} : timer'[u] = timer[u]
    BY <1>5, <1>6 DEF TimerType
  <1>14. DataType' /\ ClockInv' /\ content' = content /\ Len(content) <= Len(content)
    BY <1>1, <1>13 DEF Inv, TypeInv, DataType, ClockInv
  <1>15. ~Overlap => CreatedIsFirst'
    BY <1>1, <1>3 DEF CreatedIsFirst
  <1>16. ASSUME ~Overlap PROVE OnCourse(k)'
    <2>1. OnCourse(call[c]) /\ NoTimers
      BY <1>1, <1>3, <1>16 DEF OnCourse, TimersInStage
    <2>2. sched' = {} /\ Live' \subseteq {t} /\ Of(k.ver)'
      BY <1>1, <1>10, <1>13, <2>1 DEF NoTimers, Live, At, Of
    <2>3. VersionIsFresh(k)'
      BY <1>1, <1>2, <1>4, <1>10, <2>1 DEF OnCourse, VersionIsFresh, Fresh
    <2>4. TimersInStage(k)'
      BY <1>4, <1>10, <2>2 DEF TimersInStage
    <2>5. ScriptInStage(k)'
      BY <1>1, <1>2, <1>4, <1>10, <2>1 DEF OnCourse, ScriptInStage
    <2>6. StatusInStage(k)'
      BY <1>1, <1>2, <1>4, <1>10, <2>1 DEF OnCourse, StatusInStage
    <2>7. ~Away'
      BY <1>1, <1>2, <1>4, <2>1 DEF OnCourse, Away
    <2> QED
      BY <2>3, <2>4, <2>5, <2>6, <2>7 DEF OnCourse
  <1> QED
    BY <1>1, <1>10, <1>11, <1>12, <1>14, <1>15, <1>16, CallMoves

LEMMA AddTimerKeeps ==
    ASSUME Inv, NEW c \in Callers, AddTimer(c)
    PROVE  Inv'
  <1>1. /\ Busy(c) /\ Head(call[c].todo) = "add"
        /\ UNCHANGED <<disk, changes, ext, script, content, timer, job>>
        /\ sched' = sched \union {call[c].timer}
        /\ call' = [call EXCEPT ![c] = Rest(c)]
    BY DEF AddTimer, Does, Proceed, files, scripts
  <1>2. PICK s : s = call[c].todo
    OBVIOUS
  <1>3. /\ s \in Remainders \union Enabling /\ call[c] \in CallType /\ HasTimer(call[c])
        /\ call[c].ver <= Len(content)
        /\ ~Overlap => OnCourse(call[c]) /\ CreatedIsFirst
    BY <1>1, <1>2, OnItsCourse
  <1>4. /\ Tail(s) \in Remainders \union Enabling /\ Tail(s) # <<>>
        /\ Head(Tail(s)) \in {"panic", "install", "persist"}
        /\ Head(Tail(s)) = "persist" => s \in Enabling
        /\ s \notin Removing
        /\ Tail(s) \in Changing <=> s \in Changing
        /\ Tail(s) \in Enabling <=> s \in Enabling
        /\ Tail(s) \in Bringing <=> s \in Bringing
        /\ s \in Bringing \/ s \in Enabling
    BY <1>1, <1>2, <1>3, SetupTails
  <1>5. call[c].timer \in Timers
    BY <1>1, <1>3 DEF HasTimer, Busy
  <1>6. PICK k : k = Rest(c)
    OBVIOUS
  <1>7. /\ k \in CallType /\ OnTrack(k) /\ k.ver <= Len(content) /\ k.todo = Tail(s)
        /\ k.todo # <<>> /\ k.op = call[c].op /\ k.ver = call[c].ver
    BY <1>1, <1>2, <1>4, <1>6, RestType DEF Inv
  <1>8. HasTimer(k) /\ call' = [call EXCEPT ![c] = k]
    BY <1>1, <1>4, <1>6, <1>7 DEF HasTimer
  <1>9. /\ DataType' /\ ClockInv' /\ Live' = Live /\ content' = content
        /\ Len(content) <= Len(content)
    BY <1>1, <1>5 DEF Inv, TypeInv, DataType, ClockInv, Live, At
  <1>10. ~Overlap => CreatedIsFirst'
    BY <1>1, <1>3 DEF CreatedIsFirst
  <1>11. ASSUME ~Overlap PROVE OnCourse(k)'
    <2>1. OnCourse(call[c]) /\ Live \subseteq {call[c].timer} /\ Of(call[c].ver)
      BY <1>1, <1>3, <1>11 DEF OnCourse, TimersInStage
    <2>2. Tidy' /\ Alone' /\ Of(k.ver)'
      BY <1>1, <1>7, <1>9, <2>1 DEF Tidy, Alone, Of
    <2>3. s \in Enabling => k.ver = script
      BY <1>1, <1>2, <1>7, <2>1 DEF OnCourse, ScriptInStage
    <2>4. VersionIsFresh(k)'
      BY <1>1, <1>2, <1>4, <1>7, <2>1 DEF OnCourse, VersionIsFresh, Fresh
    <2>5. TimersInStage(k)'
      BY <1>1, <1>4, <1>7, <2>2, <2>3 DEF TimersInStage, Of
    <2>6. ScriptInStage(k)'
      BY <1>4, <1>7 DEF ScriptInStage
    <2>7. StatusInStage(k)'
      BY <1>1, <1>2, <1>4, <1>7, <1>9, <2>1 DEF OnCourse, StatusInStage
    <2>8. ~Away'
      BY <1>1, <1>2, <1>4, <2>1 DEF OnCourse, Away
    <2> QED
      BY <2>4, <2>5, <2>6, <2>7, <2>8 DEF OnCourse
  <1> QED
    BY <1>1, <1>7, <1>8, <1>9, <1>10, <1>11, CallMoves

LEMMA SetupPanicsKeeps ==
    ASSUME Inv, NEW c \in Callers, SetupPanics(c)
    PROVE  Inv'
  <1>1. /\ Busy(c) /\ Head(call[c].todo) = "panic" /\ Fail(c)
        /\ UNCHANGED <<files, ext, scripts, sched, timer, job>>
    BY DEF SetupPanics, Does, clock
  <1>2. PICK s : s = call[c].todo
    OBVIOUS
  <1>3. /\ s \in Remainders \union Enabling
        /\ ~Overlap => OnCourse(call[c])
    BY <1>1, <1>2, OnItsCourse
  <1>4. s = <<"panic", "install", "register">>
    BY <1>1, <1>2, <1>3, Heads
  <1>5. s \notin Enabling /\ s \notin Removing /\ s \in Bringing
    BY <1>4 DEF Enabling, Removing, Bringing
  <1>6. Tidy \/ Overlap
    BY <1>1, <1>3 DEF OnCourse, TimersInStage
  <1> QED
    BY <1>1, <1>2, <1>5, <1>6, Fails

(* A step that only moves the script, or its entry in the registry. *)
LEMMA Proceeds ==
    ASSUME Inv, NEW c \in Callers, Busy(c), Proceed(c),
           UNCHANGED <<disk, changes, content, sched, timer, job>>,
           ext' \in ExtType, script' \in 0..Len(content),
           Tail(call[c].todo) # <<>> => Head(Tail(call[c].todo)) # "add",
           \A k \in CallType :
              /\ ~Overlap
              /\ k.todo = Tail(call[c].todo)
              /\ k.todo # <<>> => k.op = call[c].op /\ k.ver = call[c].ver
              => /\ k.todo = <<>> => Rested'
                 /\ k.todo # <<>> => OnCourse(k)'
    PROVE  Inv'
  <1>1. PICK k : k = Rest(c)
    OBVIOUS
  <1>2. /\ k \in CallType /\ OnTrack(k) /\ k.ver <= Len(content) /\ k.todo = Tail(call[c].todo)
        /\ k.todo # <<>> => k.op = call[c].op /\ k.ver = call[c].ver
    BY <1>1, RestType DEF Inv
  <1>3. HasTimer(k) /\ call' = [call EXCEPT ![c] = k]
    BY <1>1, <1>2 DEF HasTimer, Proceed
  <1>4. DataType' /\ ClockInv' /\ content' = content /\ Len(content) <= Len(content)
    BY DEF Inv, TypeInv, DataType, ClockInv
  <1>5. ~Overlap => CreatedIsFirst'
    BY DEF Inv, CourseInv, CreatedIsFirst
  <1>6. ~Overlap => /\ k.todo = <<>> => Rested'
                    /\ k.todo # <<>> => OnCourse(k)'
    BY <1>2
  <1> QED
    BY <1>2, <1>3, <1>4, <1>5, <1>6, CallMoves

LEMMA SetScriptKeeps ==
    ASSUME Inv, NEW c \in Callers, SetScript(c)
    PROVE  Inv'
  <1>1. /\ Busy(c) /\ Proceed(c)
        /\ UNCHANGED <<disk, changes, ext, content, sched, timer, job>>
        /\ \/ Head(call[c].todo) = "install" /\ script' = call[c].ver
           \/ Head(call[c].todo) \in {"delete", "fail"} /\ script' = 0
    BY DEF SetScript, Does, files, clock
  <1>2. PICK s : s = call[c].todo
    OBVIOUS
  <1>3. /\ s \in Remainders \union Enabling /\ call[c] \in CallType
        /\ call[c].ver <= Len(content)
        /\ ~Overlap => OnCourse(call[c])
    BY <1>1, <1>2, OnItsCourse
  <1>4. ext' \in ExtType /\ script' \in 0..Len(content) /\ Live' = Live
    BY <1>1, <1>3 DEF Inv, TypeInv, DataType, CallType, Live, At
  <1>5. CASE Head(s) = "install"
    <2>1. s = <<"install", "register">> /\ Tail(s) = <<"register">> /\ script' = call[c].ver
      BY <1>1, <1>2, <1>3, <1>5, Heads, TailsOfRemainders
    <2>2. /\ s \in Bringing /\ s \notin Removing
          /\ Tail(s) \notin Bringing /\ Tail(s) \notin Enabling /\ Head(Tail(s)) = "register"
      BY <2>1 DEF Bringing, Removing, Enabling
    <2>3. ASSUME ~Overlap, NEW k \in CallType, k.todo = Tail(s) PROVE OnCourse(k)'
      <3>1. OnCourse(call[c]) /\ Tidy /\ Alone /\ Of(call[c].ver)
        BY <1>2, <1>3, <1>5, <2>3 DEF OnCourse, TimersInStage
      <3>2. VersionIsFresh(k)'
        BY <1>1, <1>2, <2>1, <2>2, <2>3, <3>1 DEF OnCourse, VersionIsFresh, Fresh
      <3>3. TimersInStage(k)'
        BY <1>1, <1>4, <2>1, <2>2, <2>3, <3>1 DEF TimersInStage, Tidy, Alone, Of
      <3>4. ScriptInStage(k)'
        BY <2>2, <2>3 DEF ScriptInStage
      <3>5. StatusInStage(k)'
        BY <2>1, <2>2, <2>3 DEF StatusInStage
      <3>6. ~Away'
        BY <1>1, <1>2, <2>2, <3>1 DEF OnCourse, Away
      <3> QED
        BY <3>2, <3>3, <3>4, <3>5, <3>6 DEF OnCourse
    <2>4. Tail(s) # <<>>
      BY <2>1
    <2> QED
      BY <1>1, <1>2, <1>4, <2>2, <2>3, <2>4, Proceeds
  <1>6. CASE Head(s) = "delete"
    <2>1. s = <<"delete", "remove">> /\ Tail(s) = <<"remove">> /\ script' = 0
      BY <1>1, <1>2, <1>3, <1>6, Heads, TailsOfRemainders
    <2>2. /\ Tail(s) \notin Bringing /\ Tail(s) \notin Enabling /\ Head(Tail(s)) = "remove"
          /\ Tail(s) \in Removing
      BY <2>1 DEF Bringing, Removing, Enabling
    <2>3. ASSUME ~Overlap, NEW k \in CallType, k.todo = Tail(s) PROVE OnCourse(k)'
      <3>1. NoTimers'
        BY <1>1, <1>2, <1>3, <1>4, <1>6, <2>3 DEF OnCourse, TimersInStage, NoTimers
      <3>2. VersionIsFresh(k)' /\ ScriptInStage(k)'
        BY <2>1, <2>2, <2>3 DEF VersionIsFresh, ScriptInStage
      <3>3. TimersInStage(k)' /\ StatusInStage(k)'
        BY <2>2, <2>3, <3>1 DEF TimersInStage, StatusInStage, NoTimers
      <3> QED
        BY <2>2, <2>3, <3>2, <3>3 DEF OnCourse
    <2>4. Tail(s) # <<>>
      BY <2>1
    <2> QED
      BY <1>1, <1>2, <1>4, <2>2, <2>3, <2>4, Proceeds
  <1>7. CASE Head(s) = "fail"
    <2>1. s = <<"fail", "registerFailed">> /\ Tail(s) = <<"registerFailed">> /\ script' = 0
      BY <1>1, <1>2, <1>3, <1>7, Heads, TailsOfRemainders
    <2>2. /\ Tail(s) \notin Bringing /\ Tail(s) \notin Enabling /\ Head(Tail(s)) = "registerFailed"
          /\ Tail(s) \in Failing /\ s \notin Removing
      BY <2>1 DEF Bringing, Removing, Enabling, Failing
    <2>3. ASSUME ~Overlap, NEW k \in CallType, k.todo = Tail(s) PROVE OnCourse(k)'
      <3>1. Tidy' /\ ~Away'
        BY <1>1, <1>2, <1>3, <1>4, <1>7, <2>2, <2>3 DEF OnCourse, TimersInStage, Tidy, Away
      <3>2. VersionIsFresh(k)' /\ ScriptInStage(k)'
        BY <2>1, <2>2, <2>3 DEF VersionIsFresh, ScriptInStage
      <3>3. TimersInStage(k)' /\ StatusInStage(k)'
        BY <2>2, <2>3, <3>1 DEF TimersInStage, StatusInStage
      <3> QED
        BY <3>1, <3>2, <3>3 DEF OnCourse
    <2>4. Tail(s) # <<>>
      BY <2>1
    <2> QED
      BY <1>1, <1>2, <1>4, <2>2, <2>3, <2>4, Proceeds
  <1> QED
    BY <1>1, <1>2, <1>5, <1>6, <1>7

LEMMA FindScriptKeeps ==
    ASSUME Inv, NEW c \in Callers, FindScript(c)
    PROVE  Inv'
  <1>1. /\ Busy(c) /\ Head(call[c].todo) = "find"
        /\ UNCHANGED <<disk, changes, ext, script, content, sched, timer, job>>
    BY DEF FindScript, Does, files, scripts, clock
  <1>2. PICK s : s = call[c].todo
    OBVIOUS
  <1>3. /\ s \in Remainders \union Enabling /\ call[c] \in CallType
        /\ ~Overlap => OnCourse(call[c]) /\ CreatedIsFirst
    BY <1>1, <1>2, OnItsCourse
  <1>4. s = <<"find", "setup", "persist">> /\ Tail(s) = <<"setup", "persist">>
    BY <1>1, <1>2, <1>3, Heads, TailsOfEnabling
  <1>5. PICK r : r = Rest(c)
    OBVIOUS
  <1>6. r \in CallType /\ OnTrack(r) /\ r.todo = Tail(s)
    BY <1>1, <1>2, <1>5, RestType DEF Inv
  <1>7. PICK u : u = IF script = 0 THEN <<"persist">> ELSE r.todo
    OBVIOUS
  <1>8. /\ u \in Enabling /\ u # <<>> /\ r.todo \in Enabling /\ r.todo # <<>>
        /\ Head(u) = IF script = 0 THEN "persist" ELSE "setup"
        /\ u \notin Bringing /\ s \in Enabling /\ s \notin Removing
    BY <1>4, <1>6, <1>7 DEF Enabling, Bringing, Removing
  <1>9. PICK k : k = [r EXCEPT !.ver = script, !.todo = u]
    OBVIOUS
  <1>10. script \in 0..MaxLoads /\ script <= Len(content)
    BY BoundsAssumption DEF Inv, TypeInv, DataType
  <1>11. k \in CallType /\ k.todo = u /\ k.op = r.op /\ k.ver = script
    BY <1>6, <1>8, <1>9, <1>10 DEF CallType
  <1>12. OnTrack(k) /\ HasTimer(k)
    BY <1>6, <1>8, <1>11 DEF OnTrack, HasTimer
  <1>13. call' = [call EXCEPT ![c] = k]
    BY <1>5, <1>7, <1>9 DEF FindScript
  <1>14. /\ DataType' /\ ClockInv' /\ Live' = Live /\ content' = content
         /\ Len(content) <= Len(content)
    BY <1>1 DEF Inv, TypeInv, DataType, ClockInv, Live, At
  <1>15. ~Overlap => CreatedIsFirst'
    BY <1>1, <1>3 DEF CreatedIsFirst
  <1>16. ASSUME ~Overlap PROVE OnCourse(k)'
    <2>1. OnCourse(call[c]) /\ NoTimers'
      BY <1>1, <1>3, <1>14, <1>16 DEF OnCourse, TimersInStage, NoTimers
    <2>2. VersionIsFresh(k)'
      BY <1>1, <1>2, <1>3, <1>8, <1>11, <2>1, Kinds DEF OnCourse, VersionIsFresh, Fresh
    <2>3. TimersInStage(k)'
      BY <1>1, <1>8, <1>11, <2>1 DEF TimersInStage, NoTimers, Tidy
    <2>4. ScriptInStage(k)' /\ StatusInStage(k)'
      BY <1>1, <1>2, <1>8, <1>11, <2>1 DEF OnCourse, ScriptInStage, StatusInStage, NoTimers
    <2>5. ~Away'
      BY <1>1, <1>2, <1>8, <2>1 DEF OnCourse, Away
    <2> QED
      BY <2>2, <2>3, <2>4, <2>5 DEF OnCourse
  <1> QED
    BY <1>1, <1>8, <1>10, <1>11, <1>12, <1>13, <1>14, <1>15, <1>16, CallMoves

LEMMA RegisterKeeps ==
    ASSUME Inv, NEW c \in Callers, Register(c)
    PROVE  Inv'
  <1>1. /\ Busy(c) /\ Head(call[c].todo) \in {"register", "registerFailed"}
        /\ UNCHANGED <<disk, changes, script, content, sched, timer, job>>
        /\ ext'.status \in {"loaded", "error"} /\ ext' \in ExtType
    BY DEF Register, Does, files, scripts, clock, ExtType
  <1>2. PICK s : s = call[c].todo
    OBVIOUS
  <1>3. /\ s \in Remainders \union Enabling /\ call[c] \in CallType
        /\ call[c].ver <= Len(content)
        /\ ~Overlap => OnCourse(call[c]) /\ CreatedIsFirst
    BY <1>1, <1>2, OnItsCourse
  <1>4. s \in {<<"register">>, <<"registerFailed">>} /\ Tail(s) = <<>>
    BY <1>1, <1>2, <1>3, Heads, TailsOfRemainders
  <1>5. /\ s \notin Bringing /\ s \notin Changing /\ s \notin Removing
        /\ s = <<"registerFailed">> => Head(s) = "registerFailed"
        /\ s = <<"register">> => Head(s) = "register"
    BY <1>4 DEF Bringing, Changing, Removing, Reloading, Loading
  <1>6. Live' = Live /\ content' = content /\ Len(content) <= Len(content)
        /\ DataType' /\ ClockInv'
    BY <1>1 DEF Inv, TypeInv, DataType, ClockInv, Live, At
  <1>7. ASSUME ~Overlap
        PROVE  /\ Tidy' /\ ~Away'
               /\ script' # 0 => Alone' /\ Of(script)' /\ (changes' = <<>> => Fresh(script)')
    <2>1. OnCourse(call[c])
      BY <1>3, <1>7
    <2>2. Tidy' /\ ~Away'
      BY <1>1, <1>2, <1>4, <1>5, <1>6, <2>1 DEF OnCourse, TimersInStage, Tidy, Away
    <2>3. changes' = <<>> /\ script' # 0 => Fresh(script)'
      BY <1>1, <1>2, <1>5, <2>1 DEF OnCourse, VersionIsFresh, Fresh
    <2>4. script' # 0 => Alone' /\ Of(script)'
      BY <1>1, <1>2, <1>4, <1>5, <1>6, <2>1 DEF OnCourse, TimersInStage, ScriptInStage, Alone, Of
    <2> QED
      BY <2>2, <2>3, <2>4
  <1>8. CASE call[c].op = "startup" /\ ~persisted
    <2>1. PICK u : u = Program("disable")
      OBVIOUS
    <2>2. /\ u \in Remainders /\ u \notin Enabling /\ u # <<>> /\ Head(u) = "stop"
          /\ u \notin Bringing
      BY <2>1, Programs DEF Remainders, Disabling, Enabling, Bringing
    <2>3. PICK k : k = [call[c] EXCEPT !.todo = u]
      OBVIOUS
    <2>4. k \in CallType /\ k.todo = u /\ k.op = call[c].op /\ k.ver = call[c].ver
      BY <1>3, <2>2, <2>3 DEF CallType
    <2>5. call' = [call EXCEPT ![c] = k]
      BY <1>8, <2>1, <2>3 DEF Register
    <2>6. OnTrack(k) /\ HasTimer(k) /\ k.ver <= Len(content) /\ k.todo # <<>>
      BY <1>3, <1>8, <2>2, <2>4 DEF OnTrack, HasTimer
    <2>7. ~Overlap => CreatedIsFirst'
      BY <1>1, <1>3 DEF CreatedIsFirst
    <2>8. ASSUME ~Overlap PROVE OnCourse(k)'
      <3>1. VersionIsFresh(k)'
        BY <1>7, <2>2, <2>4, <2>8 DEF VersionIsFresh
      <3>2. TimersInStage(k)' /\ ScriptInStage(k)' /\ StatusInStage(k)'
        BY <1>1, <1>7, <2>2, <2>4, <2>8 DEF TimersInStage, ScriptInStage, StatusInStage
      <3> QED
        BY <1>7, <2>8, <3>1, <3>2 DEF OnCourse
    <2> QED
      BY <1>1, <1>6, <2>4, <2>5, <2>6, <2>7, <2>8, CallMoves
  <1>9. CASE ~(call[c].op = "startup" /\ ~persisted)
    <2>1. Proceed(c)
      BY <1>9 DEF Register
    <2>2. ~Overlap => Rested'
      BY <1>1, <1>7 DEF Rested
    <2>3. script' \in 0..Len(content)
      BY <1>1 DEF Inv, TypeInv, DataType
    <2> QED
      BY <1>1, <1>2, <1>4, <2>1, <2>2, <2>3, Proceeds
  <1> QED
    BY <1>8, <1>9

LEMMA SetEntryKeeps ==
    ASSUME Inv, NEW c \in Callers, SetEntry(c)
    PROVE  Inv'
  <1>1. /\ Busy(c) /\ Proceed(c)
        /\ UNCHANGED <<disk, changes, script, content, sched, timer, job>>
        /\ \/ Head(call[c].todo) = "enable" /\ ext' = Enabled(ext)
           \/ Head(call[c].todo) = "remove" /\ ext' = Unregistered
    BY DEF SetEntry, Does, files, scripts, clock
  <1>2. PICK s : s = call[c].todo
    OBVIOUS
  <1>3. s \in Remainders \union Enabling /\ (~Overlap => OnCourse(call[c]))
    BY <1>1, <1>2, OnItsCourse
  <1>4. ext \in ExtType /\ script' \in 0..Len(content) /\ Live' = Live
    BY <1>1 DEF Inv, TypeInv, DataType, Live, At
  <1>5. CASE Head(s) = "enable"
    <2>1. /\ s = <<"enable", "clear", "stop", "stopping", "find", "setup", "persist">>
          /\ Tail(s) = <<"clear", "stop", "stopping", "find", "setup", "persist">>
          /\ ext' = Enabled(ext)
      BY <1>1, <1>2, <1>3, <1>5, Heads, TailsOfEnabling
    <2>2. /\ s \in Enabling /\ s \notin Removing /\ Tail(s) \in Enabling /\ Tail(s) # <<>>
          /\ Head(Tail(s)) = "clear" /\ Tail(s) \notin Bringing
      BY <2>1 DEF Enabling, Removing, Bringing
    <2>3. ext' \in ExtType /\ ext'.status # "disabled"
      <3>1. ext' = [ext EXCEPT !.enabled = ext.there,
                               !.status = IF ext.status = "disabled" THEN "loaded" ELSE ext.status]
        BY <2>1 DEF Enabled
      <3> QED
        BY <1>4, <3>1 DEF ExtType
    <2>4. ASSUME ~Overlap, NEW k \in CallType, k.todo = Tail(s) PROVE OnCourse(k)'
      <3>1. OnCourse(call[c]) /\ Tidy' /\ ~Away'
        BY <1>1, <1>2, <1>3, <1>4, <1>5, <2>2, <2>4 DEF OnCourse, TimersInStage, Tidy, Away
      <3>2. VersionIsFresh(k)'
        BY <1>1, <1>2, <1>3, <2>2, <2>4, <3>1, Kinds DEF OnCourse, VersionIsFresh, Fresh
      <3>3. TimersInStage(k)' /\ ScriptInStage(k)' /\ StatusInStage(k)'
        BY <2>2, <2>3, <2>4, <3>1 DEF TimersInStage, ScriptInStage, StatusInStage
      <3> QED
        BY <3>1, <3>2, <3>3 DEF OnCourse
    <2> QED
      BY <1>1, <1>2, <1>4, <2>2, <2>3, <2>4, Proceeds
  <1>6. CASE Head(s) = "remove"
    <2>1. s = <<"remove">> /\ Tail(s) = <<>> /\ ext' = Unregistered
      BY <1>1, <1>2, <1>3, <1>6, Heads, TailsOfRemainders
    <2>2. ext' \in ExtType /\ ext'.status # "disabled" /\ ~ext'.there
      BY <2>1 DEF Unregistered, ExtType
    <2>3. ASSUME ~Overlap PROVE Rested'
      <3>1. NoTimers' /\ script' = 0
        BY <1>1, <1>2, <1>3, <1>4, <1>6, <2>3 DEF OnCourse, TimersInStage, ScriptInStage, NoTimers
      <3> QED
        BY <2>2, <3>1 DEF Rested, NoTimers, Tidy
    <2> QED
      BY <1>1, <1>2, <1>4, <2>1, <2>2, <2>3, Proceeds
  <1> QED
    BY <1>1, <1>2, <1>5, <1>6

LEMMA SetDisabledKeeps ==
    ASSUME Inv, NEW c \in Callers, SetDisabled(c)
    PROVE  Inv'
  <1>1. /\ Busy(c) /\ Proceed(c) /\ Head(call[c].todo) = "disable"
        /\ UNCHANGED <<disk, changes, script, content, sched, timer, job>>
        /\ ext' = Disabled(ext)
    BY DEF SetDisabled, Does, files, scripts, clock
  <1>2. PICK s : s = call[c].todo
    OBVIOUS
  <1>3. s \in Remainders \union Enabling /\ (~Overlap => OnCourse(call[c]))
    BY <1>1, <1>2, OnItsCourse
  <1>4. ext' \in ExtType /\ script' \in 0..Len(content) /\ Live' = Live
    BY <1>1 DEF Inv, TypeInv, DataType, ExtType, Disabled, Live, At
  <1>5. s = <<"disable">> /\ Tail(s) = <<>>
    BY <1>1, <1>2, <1>3, Heads, TailsOfRemainders
  <1>6. s \notin Changing /\ s \notin Removing
    BY <1>5 DEF Changing, Bringing, Removing, Reloading, Loading
  <1>7. ASSUME ~Overlap PROVE Rested'
    <2>1. OnCourse(call[c]) /\ NoTimers'
      BY <1>1, <1>3, <1>4, <1>7 DEF OnCourse, TimersInStage, NoTimers
    <2>2. ~Away' /\ (script' # 0 /\ changes' = <<>> => Fresh(script)')
      BY <1>1, <1>2, <1>6, <2>1 DEF OnCourse, VersionIsFresh, Fresh, Away
    <2> QED
      BY <2>1, <2>2 DEF Rested, NoTimers, Tidy, Alone, Of
  <1> QED
    BY <1>1, <1>2, <1>4, <1>5, <1>7, Proceeds

LEMMA ClearRunawayKeeps ==
    ASSUME Inv, NEW c \in Callers, ClearRunaway(c)
    PROVE  Inv'
  <1>1. /\ Busy(c) /\ Proceed(c) /\ Head(call[c].todo) = "clear"
        /\ UNCHANGED <<disk, changes, script, content, sched, timer, job>>
        /\ ext' = IF ext.there THEN [ext EXCEPT !.status = "loaded"] ELSE ext
    BY DEF ClearRunaway, Does, files, scripts, clock
  <1>2. PICK s : s = call[c].todo
    OBVIOUS
  <1>3. s \in Remainders \union Enabling /\ (~Overlap => OnCourse(call[c]))
    BY <1>1, <1>2, OnItsCourse
  <1>4. /\ ext' \in ExtType /\ (ext'.status = "disabled" => ext.status = "disabled")
        /\ script' \in 0..Len(content) /\ Live' = Live
    BY <1>1 DEF Inv, TypeInv, DataType, ExtType, Live, At
  <1>5. /\ s = <<"clear", "stop", "stopping", "find", "setup", "persist">>
        /\ Tail(s) = <<"stop", "stopping", "find", "setup", "persist">>
    BY <1>1, <1>2, <1>3, Heads, TailsOfEnabling
  <1>6. /\ s \in Enabling /\ s \notin Removing /\ Tail(s) \in Enabling /\ Tail(s) # <<>>
        /\ Head(Tail(s)) = "stop" /\ Tail(s) \notin Bringing
    BY <1>5 DEF Enabling, Removing, Bringing
  <1>7. ASSUME ~Overlap, NEW k \in CallType, k.todo = Tail(s) PROVE OnCourse(k)'
    <2>1. OnCourse(call[c]) /\ Tidy' /\ ~Away' /\ ext'.status # "disabled"
      BY <1>1, <1>2, <1>3, <1>4, <1>6, <1>7 DEF OnCourse, TimersInStage, StatusInStage, Tidy, Away
    <2>2. VersionIsFresh(k)'
      BY <1>1, <1>2, <1>3, <1>6, <1>7, <2>1, Kinds DEF OnCourse, VersionIsFresh, Fresh
    <2>3. TimersInStage(k)' /\ ScriptInStage(k)' /\ StatusInStage(k)'
      BY <1>6, <1>7, <2>1 DEF TimersInStage, ScriptInStage, StatusInStage
    <2> QED
      BY <2>1, <2>2, <2>3 DEF OnCourse
  <1> QED
    BY <1>1, <1>2, <1>4, <1>6, <1>7, Proceeds

LEMMA PersistEnabledKeeps ==
    ASSUME Inv, NEW c \in Callers, PersistEnabled(c)
    PROVE  Inv'
  <1>1. /\ Busy(c) /\ Proceed(c) /\ Head(call[c].todo) = "persist"
        /\ UNCHANGED <<disk, changes, ext, script, content, sched, timer, job>>
    BY DEF PersistEnabled, Does, files, scripts, clock
  <1>2. PICK s : s = call[c].todo
    OBVIOUS
  <1>3. s \in Remainders \union Enabling /\ (~Overlap => OnCourse(call[c]))
    BY <1>1, <1>2, OnItsCourse
  <1>4. ext' \in ExtType /\ script' \in 0..Len(content) /\ Live' = Live
    BY <1>1 DEF Inv, TypeInv, DataType, Live, At
  <1>5. s = <<"persist">> /\ Tail(s) = <<>>
    BY <1>1, <1>2, <1>3, Heads, TailsOfEnabling
  <1>6. s \in Enabling /\ s \notin Changing /\ s \notin Removing
    BY <1>5 DEF Enabling, Changing, Bringing, Removing, Reloading, Loading
  <1>7. ASSUME ~Overlap PROVE Rested'
    <2>1. OnCourse(call[c])
      BY <1>3, <1>7
    <2>2. Tidy' /\ (script' # 0 => Alone' /\ Of(script)') /\ ext'.status # "disabled"
      BY <1>1, <1>2, <1>4, <1>6, <2>1 DEF OnCourse, TimersInStage, StatusInStage, Tidy, Alone, Of
    <2>3. ~Away' /\ (script' # 0 /\ changes' = <<>> => Fresh(script)')
      BY <1>1, <1>2, <1>6, <2>1 DEF OnCourse, VersionIsFresh, Fresh, Away
    <2> QED
      BY <2>2, <2>3 DEF Rested
  <1> QED
    BY <1>1, <1>2, <1>4, <1>5, <1>7, Proceeds

------------------------------------------------------------------------------
(* Changes of the directory, and what is called *)

LEMMA EditKeeps ==
    ASSUME Inv, Edit
    PROVE  Inv'
  <1>1. PICK there \in BOOLEAN, good \in BOOLEAN :
          /\ disk.there \/ (there /\ (Overlap \/ changes = <<>>))
          /\ disk' = [there |-> there, n |-> disk.n + 1, good |-> good]
          /\ changes' = Append(changes, IF ~there THEN "remove" ELSE IF disk.there THEN "write" ELSE "create")
    BY DEF Edit
  <1>2. UNCHANGED <<ext, script, content, sched, timer, job, call>>
    BY DEF Edit, scripts, clock
  <1>3. PICK x : x = IF ~there THEN "remove" ELSE IF disk.there THEN "write" ELSE "create"
    OBVIOUS
  <1>4. DataType /\ disk.n \in Nat /\ changes \in Seq({"remove", "write", "create"})
    BY DEF Inv, TypeInv, DataType
  <1>5. /\ x \in {"remove", "write", "create"} /\ changes' = Append(changes, x)
        /\ changes' \in Seq({"remove", "write", "create"})
        /\ Len(changes') = Len(changes) + 1 /\ changes'[Len(changes) + 1] = x
        /\ \A i \in 1..Len(changes) : changes'[i] = changes[i]
        /\ changes' # <<>>
    BY <1>1, <1>3, <1>4
  <1>6. DataType' /\ TypeInv' /\ ClockInv' /\ Live' = Live
    BY <1>1, <1>2, <1>4, <1>5 DEF Inv, TypeInv, DataType, ClockInv, Live, At
  <1>7. ASSUME ~Overlap PROVE CourseInv'
    <2>1. CourseInv
      BY <1>7 DEF Inv
    <2>2. Away' => Away
      <3>1. CASE changes = <<>>
        <4>1. changes'[1] = x
          BY <1>5, <3>1
        <4> QED
          BY <1>1, <1>3, <1>5, <3>1, <4>1 DEF Away
      <3>2. CASE changes # <<>>
        <4>1. 1 \in 1..Len(changes)
          BY <1>4, <3>2
        <4> QED
          BY <1>5, <3>2, <4>1 DEF Away
      <3> QED
        BY <3>1, <3>2
    <2>3. CreatedIsFirst'
      <3>1. x = "create" => Len(changes) = 0
        BY <1>1, <1>3, <1>4, <1>7
      <3>2. \A i \in 2..(Len(changes) + 1) : i \in 2..Len(changes) \/ i = Len(changes) + 1
        BY <1>4
      <3>3. \A i \in 2..Len(changes) : i \in 1..Len(changes) /\ changes[i] # "create"
        BY <1>4, <2>1 DEF CourseInv, CreatedIsFirst
      <3>4. Len(changes) + 1 \in 2..(Len(changes) + 1) => Len(changes) # 0
        BY <1>4
      <3> QED
        BY <1>5, <3>1, <3>2, <3>3, <3>4 DEF CreatedIsFirst
    <2>4. OneAtATime' /\ (Idle' => Idle)
      BY <1>2, <2>1 DEF CourseInv, OneAtATime, Idle, Busy
    <2>5. Rested => Rested'
      BY <1>2, <1>5, <1>6, <2>2 DEF Rested, Tidy, Alone, Of, NoTimers
    <2>6. ASSUME NEW c \in Callers, Busy(c)' PROVE OnCourse(call[c])'
      <3>1. PICK k : k = call[c]
        OBVIOUS
      <3>2. OnCourse(k) /\ call'[c] = k
        BY <1>2, <2>1, <2>6, <3>1 DEF CourseInv, Busy
      <3>3. VersionIsFresh(k)'
        BY <1>2, <1>5, <3>2 DEF OnCourse, VersionIsFresh
      <3>4. TimersInStage(k)' /\ ScriptInStage(k)' /\ StatusInStage(k)'
        BY <1>2, <1>6, <3>2 DEF OnCourse, TimersInStage, ScriptInStage, StatusInStage, Tidy, Alone, Of, NoTimers
      <3>5. OnCourse(k)'
        BY <2>2, <3>2, <3>3, <3>4 DEF OnCourse
      <3> QED
        BY <3>2, <3>5 DEF OnCourse, VersionIsFresh, TimersInStage, ScriptInStage, StatusInStage
    <2> QED
      BY <2>1, <2>3, <2>4, <2>5, <2>6 DEF CourseInv
  <1> QED
    BY <1>6, <1>7 DEF Inv

LEMMA BeganType ==
    ASSUME NEW op \in {"startup", "load", "reload", "unload", "disable", "enable"},
           NEW k, k = Began(op)
    PROVE  /\ k \in CallType /\ k.op = op /\ k.todo = Program(op) /\ k.ver = 0
           /\ OnTrack(k) /\ HasTimer(k) /\ k.todo # <<>>
  <1>1. PICK s : s = Program(op)
    OBVIOUS
  <1>2. /\ s \in Remainders \union Enabling /\ s # <<>> /\ Head(s) \in {"stop", "load", "enable"}
        /\ s \in Enabling <=> op = "enable"
    BY <1>1, Programs
       DEF Remainders, Enabling, Reloading, Loading, Bringing, Failing, Removing, Disabling
  <1>3. AtRest \in CallType /\ AtRest.ver = 0
    BY BoundsAssumption DEF AtRest, CallType, Ops
  <1>4. k = [AtRest EXCEPT !.op = op, !.todo = s]
    BY <1>1 DEF Began
  <1>5. op \in Ops
    BY DEF Ops
  <1>6. k \in CallType /\ k.op = op /\ k.todo = s /\ k.ver = 0
    BY <1>2, <1>3, <1>4, <1>5 DEF CallType
  <1> QED
    BY <1>1, <1>2, <1>6 DEF OnTrack, HasTimer

(* A call that begins. *)
LEMMA Begins ==
    ASSUME Inv, NEW c \in Callers, NEW op \in {"load", "reload", "unload", "disable", "enable"},
           Begin(c, op), UNCHANGED <<disk, ext, script, content, sched, timer, job>>,
           changes' \in Seq({"remove", "write", "create"}), ~Overlap => CreatedIsFirst',
           ~Overlap => (op \in {"disable", "enable"} => UNCHANGED changes),
           ~Overlap => (op = "load" => Away),
           ~Overlap => (op = "unload" \/ ~Away')
    PROVE  Inv'
  <1>1. PICK k : k = Began(op)
    OBVIOUS
  <1>2. /\ k \in CallType /\ k.op = op /\ k.todo = Program(op) /\ k.ver = 0
        /\ OnTrack(k) /\ HasTimer(k) /\ k.todo # <<>>
    BY <1>1, BeganType
  <1>3. call' = [call EXCEPT ![c] = k] /\ (~Overlap => Idle)
    BY <1>1 DEF Begin
  <1>4. DataType' /\ ClockInv' /\ Live' = Live /\ content' = content
        /\ 0 <= Len(content) /\ Len(content) <= Len(content)
    BY DEF Inv, TypeInv, DataType, ClockInv, Live, At
  <1>5. ASSUME ~Overlap PROVE OnCourse(k)'
    <2>1. Rested
      BY <1>3, <1>5 DEF Inv, CourseInv
    <2>2. Tidy' /\ (op = "load" => NoTimers')
      BY <1>4, <1>5, <2>1 DEF Rested, Tidy, NoTimers
    <2>3. /\ op = "load" => Head(k.todo) = "load"
          /\ op \in {"reload", "unload", "disable"} => Head(k.todo) = "stop"
          /\ op = "enable" => Head(k.todo) = "enable"
          /\ op \in {"disable", "enable"} \/ k.todo \in Changing
          /\ k.todo \notin Bringing
          /\ op = "unload" => k.todo \in Removing
      BY <1>2, Programs DEF Changing, Reloading, Loading, Bringing, Removing
    <2>4. k.todo \in Enabling => op = "enable"
      BY <1>2 DEF OnTrack
    <2>5. VersionIsFresh(k)'
      BY <1>5, <2>1, <2>3 DEF Rested, VersionIsFresh, Fresh
    <2>6. TimersInStage(k)' /\ ScriptInStage(k)'
      BY <2>2, <2>3 DEF TimersInStage, ScriptInStage
    <2>7. StatusInStage(k)'
      <3>1. ext' = ext /\ Live' = Live /\ (ext.status = "disabled" => Live = {})
        BY <1>4, <2>1 DEF Rested
      <3>2. k.todo \in Enabling => Head(k.todo) = "enable"
        BY <2>3, <2>4
      <3> QED
        BY <3>1, <3>2 DEF StatusInStage
    <2> QED
      BY <1>5, <2>3, <2>5, <2>6, <2>7 DEF OnCourse
  <1> QED
    BY <1>2, <1>3, <1>4, <1>5, CallMoves

LEMMA HandleFSEventKeeps ==
    ASSUME Inv, HandleFSEvent
    PROVE  Inv'
  <1>1. /\ changes # <<>> /\ changes' = Tail(changes)
        /\ UNCHANGED <<disk, ext, script, content, sched, timer, job>>
    BY DEF HandleFSEvent, scripts, clock
  <1>2. PICK op : op = IF ~disk.there THEN "unload"
                       ELSE IF Head(changes) = "create" THEN "load" ELSE "reload"
    OBVIOUS
  <1>3. Begin("watcher", op) /\ op \in {"load", "reload", "unload", "disable", "enable"}
        /\ "watcher" \in Callers /\ op \notin {"disable", "enable"}
    BY <1>2 DEF HandleFSEvent, Callers
  <1>4. changes \in Seq({"remove", "write", "create"})
    BY DEF Inv, TypeInv, DataType
  <1>5. /\ changes' \in Seq({"remove", "write", "create"})
        /\ Len(changes') = Len(changes) - 1 /\ Len(changes) \in Nat \ {0}
        /\ \A i \in 1..(Len(changes) - 1) : changes'[i] = changes[i + 1]
        /\ Head(changes) = changes[1]
    BY <1>1, <1>4
  <1>6. ASSUME ~Overlap PROVE \A i \in 1..(Len(changes) - 1) : changes'[i] # "create"
    <2>1. CreatedIsFirst
      BY <1>6 DEF Inv, CourseInv
    <2>2. \A i \in 1..(Len(changes) - 1) : i + 1 \in 2..Len(changes)
      BY <1>5
    <2> QED
      BY <1>5, <2>1, <2>2 DEF CreatedIsFirst
  <1>7. ~Overlap => CreatedIsFirst'
    <2>1. \A i \in 2..Len(changes') : i \in 1..(Len(changes) - 1)
      BY <1>5
    <2> QED
      BY <1>6, <2>1 DEF CreatedIsFirst
  <1>8. ~Overlap => (op = "load" => Away)
    BY <1>1, <1>2, <1>5 DEF Away
  <1>9. ~Overlap => (op = "unload" \/ ~Away')
    <2>1. changes' # <<>> => 1 \in 1..(Len(changes) - 1)
      BY <1>5
    <2> QED
      BY <1>1, <1>2, <1>6, <2>1 DEF Away
  <1> QED
    BY <1>1, <1>3, <1>5, <1>7, <1>8, <1>9, Begins, Zenon

LEMMA FrontendCallKeeps ==
    ASSUME Inv, NEW op \in {"enable", "disable", "reload"}, FrontendCall(op)
    PROVE  Inv'
  <1>1. /\ ext.there /\ Begin("main", op)
        /\ UNCHANGED <<disk, changes, ext, script, content, sched, timer, job>>
    BY DEF FrontendCall, files, scripts, clock
  <1>2. "main" \in Callers /\ op \in {"load", "reload", "unload", "disable", "enable"} /\ op # "load"
    BY DEF Callers
  <1>3. changes' \in Seq({"remove", "write", "create"})
    BY <1>1 DEF Inv, TypeInv, DataType
  <1>4. ~Overlap => CreatedIsFirst' /\ ~Away'
    BY <1>1 DEF Inv, CourseInv, Begin, Rested, CreatedIsFirst, Away
  <1> QED
    BY <1>1, <1>2, <1>3, <1>4, Begins

------------------------------------------------------------------------------
(* The invariant *)

LEMMA InitEstablishes == Init => Inv
  <1> SUFFICES ASSUME Init PROVE Inv
    OBVIOUS
  <1>1. DataType
    <2>1. NoTimer \in TimerType /\ NoJob \in JobType /\ Unregistered \in ExtType
      BY BoundsAssumption DEF NoTimer, TimerType, NoJob, JobType, Unregistered, ExtType
    <2>2. <<>> \in Seq({"remove", "write", "create"}) /\ <<>> \in Seq(Nat) /\ Len(<<>>) = 0
      OBVIOUS
    <2> QED
      BY <2>1, <2>2, BoundsAssumption DEF Init, DataType
  <1>2. PICK k : k = Began("startup")
    OBVIOUS
  <1>3. /\ k \in CallType /\ k.op = "startup" /\ k.todo = Loading /\ k.ver = 0
        /\ OnTrack(k) /\ HasTimer(k) /\ k.todo # <<>>
    BY <1>2, BeganType, Programs
  <1>4. AtRest \in CallType /\ AtRest.todo = <<>> /\ AtRest.ver = 0
    BY BoundsAssumption DEF AtRest, CallType, Ops
  <1>5. call = [c \in Callers |-> IF c = "main" /\ disk.there THEN k ELSE AtRest]
    BY <1>2 DEF Init
  <1>6. TypeInv
    <2>1. 0 <= Len(content)
      BY <1>1 DEF DataType
    <2> QED
      BY <1>1, <1>3, <1>4, <1>5, <2>1 DEF TypeInv, OnTrack, HasTimer
  <1>7. ClockInv /\ Live = {} /\ sched = {} /\ script = 0
    BY DEF Init, ClockInv, Live, At, NoTimer, NoJob, Jobs
  <1>8. CourseInv
    <2>1. \A c \in Callers : Busy(c) => c = "main" /\ disk.there /\ call[c] = k
      BY <1>4, <1>5 DEF Busy
    <2>2. OneAtATime /\ CreatedIsFirst
      BY <2>1 DEF OneAtATime, CreatedIsFirst, Init
    <2>3. Idle => Rested
      <3>1. ext.status = "none" /\ ~ext.there
        BY DEF Init, Unregistered
      <3> QED
        BY <1>7, <3>1 DEF Rested, Tidy, NoTimers
    <2>4. ASSUME disk.there PROVE OnCourse(k)
      <3>1. ~Away
        BY <2>4 DEF Init, Away
      <3>2. Loading \in Changing /\ Loading \notin Bringing /\ Loading \notin Enabling
            /\ Head(Loading) = "load"
        BY DEF Loading, Changing, Bringing, Enabling
      <3> QED
        BY <1>3, <1>7, <3>1, <3>2
           DEF OnCourse, VersionIsFresh, TimersInStage, ScriptInStage, StatusInStage, NoTimers
    <2> QED
      BY <2>1, <2>2, <2>3, <2>4 DEF CourseInv
  <1> QED
    BY <1>6, <1>7, <1>8 DEF Inv

LEMMA StepKeeps == Inv /\ Next => Inv'
  <1> SUFFICES ASSUME Inv, Next PROVE Inv'
    OBVIOUS
  <1>1. CASE Edit
    BY <1>1, EditKeeps
  <1>2. CASE HandleFSEvent
    BY <1>2, HandleFSEventKeeps
  <1>3. CASE \E op \in {"enable", "disable", "reload"} : FrontendCall(op)
    BY <1>3, FrontendCallKeeps
  <1>4. CASE \E c \in Callers : CallStep(c)
    BY <1>4, StopTimersKeeps, StopEachKeeps, LoadPackageKeeps, RunSetupKeeps, ArmTimerKeeps,
       AddTimerKeeps, SetupPanicsKeeps, SetScriptKeeps, FindScriptKeeps, RegisterKeeps,
       SetEntryKeeps, SetDisabledKeeps, ClearRunawayKeeps, PersistEnabledKeeps DEF CallStep
  <1>5. CASE OnEvent \/ Deliver
    BY <1>5, EventSteps
  <1>6. CASE \E t \in Timers : TimerFires(t) \/ Tick(t) \/ Rearm(t)
    BY <1>6, TimerFiresKeeps, TickKeeps, RearmKeeps
  <1>7. CASE \E j \in Jobs : Acquire(j) \/ Finish(j) \/ Overrun(j)
    BY <1>7, JobSteps
  <1>8. CASE \E v \in Versions : LateFinish(v)
    BY <1>8, LateSteps
  <1> QED
    BY <1>1, <1>2, <1>3, <1>4, <1>5, <1>6, <1>7, <1>8 DEF Next

LEMMA StutterKeeps == Inv /\ UNCHANGED vars => Inv'
  <1> SUFFICES ASSUME Inv, UNCHANGED vars PROVE Inv'
    OBVIOUS
  <1>1. UNCHANGED <<files, scripts, sched, call>> /\ UNCHANGED <<ext, timer, job>>
    BY DEF vars, clock
  <1>2. DataType' /\ ClockInv' /\ Live' = Live
    BY <1>1 DEF Inv, TypeInv, DataType, ClockInv, Live, At, files, scripts
  <1>3. Live' \subseteq Live /\ \A t \in Live' : timer'[t].ver = timer[t].ver
    BY <1>1, <1>2
  <1>4. ext'.there = ext.there /\ (ext'.status = "disabled" => ext.status = "disabled")
    BY <1>1
  <1> QED
    BY <1>1, <1>2, <1>3, <1>4, TimersRest

THEOREM Inductive == Spec => []Inv
  BY InitEstablishes, StepKeeps, StutterKeeps, PTL DEF Spec

(* Hot reload converges.  However the writes, removals and re-creations of the       *)
(* directory fall between the steps of Load, Reload, Unload, Enable and Disable, and *)
(* whatever their Setup does, once every event of the watcher is handled and nobody  *)
(* is at work the version in m.scripts is what LoadPackage would read now.           *)
THEOREM ReloadConverges == Spec => []RunsWhatIsOnDisk
  <1>1. Inv => RunsWhatIsOnDisk
    BY DEF Inv, CourseInv, Rested, Fresh, RunsWhatIsOnDisk
  <1> QED
    BY <1>1, Inductive, PTL

LEMMA AtMostOne ==
    ASSUME Alone
    PROVE  Cardinality(Live) <= 1
  <1>1. CASE Live = {}
    BY <1>1, FS_EmptySet
  <1>2. CASE Live # {}
    <2>1. PICK t : t \in Live
      BY <1>2
    <2>2. Live = {t}
      BY <2>1 DEF Alone
    <2>3. Cardinality({t}) = 1
      BY FS_Singleton
    <2> QED
      BY <2>2, <2>3
  <1> QED
    BY <1>1, <1>2

(* No timer outlives its Setup.  stopTimers takes the entries the scheduler knows    *)
(* before the next Setup runs, and a tick in flight re-arms nothing that was stopped: *)
(* with nobody at work a script that runs has at most the timer its own version made, *)
(* one that is disabled has none, and never is a stopped timer armed.                 *)
THEOREM NoTimerOutlivesItsSetup == Spec => []TimersAreCurrent
  <1>1. Inv => TimersAreCurrent
    <2> SUFFICES ASSUME Inv PROVE TimersAreCurrent
      OBVIOUS
    <2>1. \A t \in Timers : timer[t].armed => ~timer[t].stopped
      BY DEF Inv, ClockInv
    <2>2. Idle /\ ~Overlap => Rested
      BY DEF Inv, CourseInv
    <2>3. Alone => Cardinality(Live) <= 1
      BY AtMostOne
    <2> QED
      BY <2>1, <2>2, <2>3 DEF TimersAreCurrent, Rested, Of
  <1> QED
    BY <1>1, Inductive, PTL
==============================================================================
