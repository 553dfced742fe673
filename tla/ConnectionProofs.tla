--------------------------- MODULE ConnectionProofs ---------------------------
(***************************************************************************)
(* Theorems about ConnectionLifecycle, for every number of goroutines,     *)
(* client objects and attempts.                                            *)
(***************************************************************************)
EXTENDS ConnectionLifecycle, SequenceTheorems, TLAPS

(* Where a goroutine can stand in each App method. *)
Connecting == {"build", "claim"} \union Attempting
Stopping   == {"disconnect", "quit", "unmap"}

OnTrack(g) ==
    /\ task[g] = "none" => pc[g] = "idle"
    /\ task[g] = "connect" => pc[g] \in Connecting
    /\ task[g] = "reconnect" => pc[g] \in Connecting \union {"row", "attempt", "finish"}
    /\ task[g] = "upgrade" => pc[g] \in Connecting \union Stopping \union {"idle", "row", "finish"}
    /\ task[g] = "disconnect" => pc[g] \in Stopping
    /\ task[g] = "delete" => pc[g] \in {"unregister", "deleteQuit", "deleteRow"}

Places == Connecting \union Stopping
            \union {"idle", "row", "attempt", "finish", "unregister", "deleteQuit", "deleteRow"}

ThreadsOK ==
    /\ task \in [Goroutines -> Tasks]
    /\ pc \in [Goroutines -> Places]
    /\ held \in [Goroutines -> Clients \union {NoClient}]
    /\ \A g \in Goroutines : OnTrack(g)
    /\ \A g \in Goroutines :
          pc[g] \in {"dial", "store", "quit", "unmap", "deleteQuit"} => held[g] \in Clients

ClientsOK ==
    /\ link \in [Clients -> Links]
    /\ connected \in [Clients -> BOOLEAN]
    /\ abandoned \in [Clients -> BOOLEAN]

TypeInv ==
    /\ registered \in Clients \union {NoClient}
    /\ {connecting, reconnecting, intentional} \subseteq BOOLEAN
    /\ events \in Seq({"lost", "sts"} \X Clients)
    /\ ThreadsOK
    /\ ClientsOK

------------------------------------------------------------------------------
LEMMA ClientType ==
    ASSUME TypeInv, NEW c \in Clients, ClientStep(c)
    PROVE  TypeInv'
<1> USE DEF TypeInv, ClientsOK, Links, app, threads, clients, delivery
<1>1. ThreadsOK'
  BY DEF ClientStep, Registers, Refused, RefusedLate, Advertises, OnConnect, ServerError,
         SignalQuit, Drop, FinishDisconnect, ThreadsOK, OnTrack
<1>2. CASE Registers(c) \/ RefusedLate(c) \/ (\E credentials \in BOOLEAN : Refused(c, credentials))
  BY <1>1, <1>2 DEF Registers, Refused, RefusedLate
<1>3. CASE Advertises(c) \/ FinishDisconnect(c)
  <2>1. <<"lost", c>> \in {"lost", "sts"} \X Clients /\ <<"sts", c>> \in {"lost", "sts"} \X Clients
    OBVIOUS
  <2>2. Append(events, <<"lost", c>>) \in Seq({"lost", "sts"} \X Clients)
        /\ Append(events, <<"sts", c>>) \in Seq({"lost", "sts"} \X Clients)
    BY <2>1, AppendProperties
  <2>3. events' \in Seq({"lost", "sts"} \X Clients)
    BY <1>3, <2>2 DEF Advertises, FinishDisconnect
  <2> QED
    BY <1>1, <1>3, <2>3 DEF Advertises, FinishDisconnect
<1>4. CASE OnConnect(c)
  BY <1>1, <1>4 DEF OnConnect
<1>5. CASE ServerError(c) \/ Drop(c)
  BY <1>1, <1>5 DEF ServerError, SignalQuit, Drop
<1> QED
  BY <1>2, <1>3, <1>4, <1>5 DEF ClientStep


(* Steps of one goroutine. *)
LEMMA ExitType ==
    ASSUME ThreadsOK, NEW g \in Goroutines, Exit(g)
    PROVE  ThreadsOK'
  BY DEF ThreadsOK, OnTrack, Exit, Goto, Tasks, Places, Connecting, Stopping, Attempting

LEMMA EnterType ==
    ASSUME ThreadsOK, NEW g \in Goroutines,
           \/ Enter(g, "connect", "build")
           \/ Enter(g, "disconnect", "disconnect")
           \/ Enter(g, "delete", "unregister")
           \/ Enter(g, "upgrade", "idle")
           \/ Enter(g, "reconnect", "attempt")
    PROVE  ThreadsOK'
  BY DEF ThreadsOK, OnTrack, Enter, Goto, Tasks, Places, Connecting, Stopping, Attempting

(* A goroutine goes to a place of the method it runs. *)
LEMMA HopType ==
    ASSUME ThreadsOK, NEW g \in Goroutines, NEW place \in Places, Goto(g, place), UNCHANGED task,
           held' = held \/ \E c \in Clients \union {NoClient} : held' = [held EXCEPT ![g] = c],
           OnTrack(g)',
           place \in {"dial", "store", "quit", "unmap", "deleteQuit"} => held'[g] \in Clients
    PROVE  ThreadsOK'
<1>1. /\ pc' \in [Goroutines -> Places] /\ held' \in [Goroutines -> Clients \union {NoClient}]
      /\ pc'[g] = place /\ \A h \in Goroutines \ {g} : pc'[h] = pc[h] /\ held'[h] = held[h]
  BY DEF ThreadsOK, Goto
<1>2. \A h \in Goroutines \ {g} : OnTrack(h)'
  BY <1>1 DEF ThreadsOK, OnTrack
<1> QED
  BY <1>1, <1>2 DEF ThreadsOK

LEMMA ReturnType ==
    ASSUME ThreadsOK, NEW g \in Goroutines, NEW ok \in BOOLEAN, Return(g, ok)
    PROVE  ThreadsOK'
<1>1. CASE task[g] = "connect" /\ Exit(g)
  BY <1>1, ExitType
<1>2. CASE task[g] # "connect"
  BY <1>2 DEF Return, ThreadsOK, OnTrack, Exit, Goto, Tasks, Places, Connecting, Stopping, Attempting
<1> QED
  BY <1>1, <1>2 DEF Return

LEMMA AfterDisconnectType ==
    ASSUME ThreadsOK, NEW g \in Goroutines, pc[g] \in Stopping, AfterDisconnect(g)
    PROVE  ThreadsOK'
<1>1. CASE task[g] = "upgrade"
  <2>1. Goto(g, "row") /\ UNCHANGED <<task, held>> /\ "row" \in Places
    BY <1>1 DEF AfterDisconnect, Places
  <2>2. OnTrack(g)'
    BY <1>1, <2>1 DEF OnTrack, ThreadsOK, Goto
  <2> QED
    BY <2>1, <2>2, HopType
<1>2. CASE task[g] # "upgrade"
  BY <1>2, ExitType DEF AfterDisconnect
<1> QED
  BY <1>1, <1>2

LEMMA ConnectType ==
    ASSUME TypeInv, NEW g \in Goroutines, ConnectStep(g)
    PROVE  TypeInv'
<1> USE DEF TypeInv, ClientsOK, Links, app, threads, clients, delivery
<1>1. CASE CheckRow(g) \/ Build(g)
  <2>1. CASE row = "gone"
    BY <1>1, <2>1, ReturnType DEF CheckRow, Build
  <2>2. CASE row # "gone"
    <3>1. ThreadsOK'
      <4> DEFINE place == IF pc[g] = "row" THEN "build" ELSE "claim"
      <4>1. pc[g] \in {"row", "build"} /\ Goto(g, place) /\ UNCHANGED <<task, held>>
        BY <1>1, <2>2 DEF CheckRow, Build
      <4>2. place \in Places /\ place \notin {"dial", "store", "quit", "unmap", "deleteQuit"}
        BY DEF Places, Connecting
      <4>3. OnTrack(g)'
        BY <4>1 DEF OnTrack, ThreadsOK, Goto, Connecting, Stopping, Attempting
      <4> QED
        BY <4>1, <4>2, <4>3, HopType
    <3> QED
      BY <1>1, <3>1 DEF CheckRow, Build
  <2> QED
    BY <2>1, <2>2
<1>2. CASE Claim(g)
  <2>1. CASE connecting \/ Live(registered)
    BY <1>2, <2>1, ReturnType DEF Claim
  <2>2. CASE ~(connecting \/ Live(registered))
    <3>1. ThreadsOK'
      BY <1>2, <2>2 DEF Claim, Goto, ThreadsOK, OnTrack, Places, Connecting, Stopping, Attempting
    <3> QED
      BY <1>2, <2>2, <3>1 DEF Claim
  <2> QED
    BY <2>1, <2>2
<1>3. CASE QuitStale(g)
  <2>1. ThreadsOK'
    BY <1>3 DEF QuitStale, Goto, ThreadsOK, OnTrack, Places, Connecting, Stopping, Attempting
  <2> QED
    BY <1>3, <2>1 DEF QuitStale, SignalQuit, ThreadsOK
<1>4. CASE Settle(g)
  <2>1. CASE Live(registered)
    BY <1>4, <2>1, ReturnType DEF Settle
  <2>2. CASE ~Live(registered)
    <3>1. ThreadsOK'
      <4>1. pc[g] = "settle" /\ Goto(g, "first") /\ UNCHANGED <<task, held>> /\ "first" \in Places
        BY <1>4, <2>2 DEF Settle, Places, Connecting, Attempting
      <4>2. OnTrack(g)'
        BY <4>1 DEF OnTrack, ThreadsOK, Goto, Connecting, Stopping, Attempting
      <4> QED
        BY <4>1, <4>2, HopType
    <3> QED
      BY <1>4, <2>2, <3>1 DEF Settle
  <2> QED
    BY <2>1, <2>2
<1>5. CASE GiveUp(g)
  BY <1>5, ReturnType DEF GiveUp
<1>6. ASSUME NEW c \in Clients, Dial(g, c) PROVE TypeInv'
  <2>1. ThreadsOK'
    BY <1>6 DEF Dial, Goto, ThreadsOK, OnTrack, Places, Connecting, Stopping, Attempting
  <2> QED
    BY <1>6, <2>1 DEF Dial
<1>7. CASE ConnectReturns(g)
  <2>1. ThreadsOK'
    BY <1>7 DEF ConnectReturns, Goto, ThreadsOK, OnTrack, Places, Connecting, Stopping, Attempting
  <2> QED
    BY <1>7, <2>1 DEF ConnectReturns
<1>8. CASE ConnectTimesOut(g)
  <2>1. ThreadsOK'
    BY <1>8 DEF ConnectTimesOut, Goto, ThreadsOK, OnTrack, Places, Connecting, Stopping, Attempting
  <2> QED
    BY <1>8, <2>1 DEF ConnectTimesOut, SignalQuit, ThreadsOK
<1>9. CASE Store(g)
  <2>1. ThreadsOK'
    BY <1>9, ReturnType DEF Store
  <2>2. held[g] \in Clients
    BY <1>9 DEF Store, ThreadsOK
  <2>3. registered' \in Clients \union {NoClient} /\ connecting' = FALSE /\ reconnecting' \in BOOLEAN
        /\ UNCHANGED <<intentional, events, link>>
    BY <1>9, <2>2 DEF Store, SignalQuit
  <2>4. connected' \in [Clients -> BOOLEAN] /\ abandoned' \in [Clients -> BOOLEAN]
    BY <1>9, <2>2 DEF Store, SignalQuit
  <2> QED
    BY <2>1, <2>3, <2>4
<1> QED
  BY <1>1, <1>2, <1>3, <1>4, <1>5, <1>6, <1>7, <1>8, <1>9 DEF ConnectStep

LEMMA TeardownType ==
    ASSUME TypeInv, NEW g \in Goroutines, TeardownStep(g)
    PROVE  TypeInv'
<1> USE DEF TypeInv, ClientsOK, Links, app, threads, clients, delivery
<1>1. CASE Disconnect(g)
  <2>1. CASE registered = NoClient
    BY <1>1, <2>1, AfterDisconnectType DEF Disconnect, Stopping
  <2>2. CASE registered # NoClient
    <3>1. ThreadsOK'
      <4>1. /\ pc[g] = "disconnect" /\ Goto(g, "quit") /\ UNCHANGED task
            /\ held' = [held EXCEPT ![g] = registered] /\ registered \in Clients /\ "quit" \in Places
        BY <1>1, <2>2 DEF Disconnect, Places, Stopping
      <4>2. OnTrack(g)'
        BY <4>1 DEF OnTrack, ThreadsOK, Goto, Connecting, Stopping, Attempting
      <4>3. held'[g] \in Clients
        BY <4>1 DEF ThreadsOK
      <4> QED
        BY <4>1, <4>2, <4>3, HopType
    <3>2. intentional' \in BOOLEAN
      BY <1>1, <2>2 DEF Disconnect
    <3> QED
      BY <1>1, <2>2, <3>1, <3>2 DEF Disconnect
  <2> QED
    BY <2>1, <2>2
<1>2. CASE Quit(g)
  <2>1. ThreadsOK'
    BY <1>2 DEF Quit, ThreadsOK, OnTrack, Goto, Places, Connecting, Stopping, Attempting
  <2> QED
    BY <1>2, <2>1 DEF Quit, SignalQuit, ThreadsOK
<1>3. CASE Unmap(g)
  BY <1>3, AfterDisconnectType DEF Unmap, Stopping
<1>4. CASE Unregister(g)
  <2>1. ThreadsOK'
    BY <1>4 DEF Unregister, ThreadsOK, OnTrack, Goto, Places, Connecting, Stopping, Attempting
  <2> QED
    BY <1>4, <2>1 DEF Unregister
<1>5. CASE DeleteRow(g)
  BY <1>5, ExitType DEF DeleteRow
<1> QED
  BY <1>1, <1>2, <1>3, <1>4, <1>5 DEF TeardownStep

LEMMA LoopType ==
    ASSUME TypeInv, NEW g \in Goroutines,
           Begin(g) \/ Attempt(g) \/ StartUpgrade(g) \/ Finish(g)
    PROVE  TypeInv'
<1> USE DEF TypeInv, ClientsOK, Links, app, threads, clients, delivery
<1>1. CASE Begin(g)
  BY <1>1, EnterType DEF Begin
<1>2. CASE Attempt(g) \/ StartUpgrade(g)
  <2>1. ThreadsOK'
    BY <1>2 DEF Attempt, StartUpgrade, ThreadsOK, OnTrack, Goto, Places, Connecting, Stopping, Attempting
  <2> QED
    BY <1>2, <2>1 DEF Attempt, StartUpgrade
<1>3. CASE Finish(g)
  BY <1>3, ExitType DEF Finish
<1> QED
  BY <1>1, <1>2, <1>3

LEMMA DispatchType ==
    ASSUME TypeInv, Dispatch
    PROVE  TypeInv'
<1> USE DEF TypeInv, ClientsOK, Links, app, threads, clients, delivery
<1>1. events # <<>> => Tail(events) \in Seq({"lost", "sts"} \X Clients)
  BY HeadTailProperties
<1>2. ASSUME NEW g \in Goroutines, HandleSTS(g) PROVE TypeInv'
  BY <1>1, <1>2, EnterType DEF HandleSTS
<1>3. ASSUME NEW g \in Goroutines, StartReconnect(g) PROVE TypeInv'
  BY <1>3, EnterType DEF StartReconnect
<1>4. CASE HandleLost
  BY <1>1, <1>4 DEF HandleLost, ThreadsOK, OnTrack
<1>5. CASE ClaimReconnect \/ LookupNetwork
  BY <1>5 DEF ClaimReconnect, LookupNetwork, ThreadsOK, OnTrack
<1>6. CASE DeclineReconnect
  <2>1. ThreadsOK'
    BY <1>6 DEF DeclineReconnect, ThreadsOK, OnTrack
  <2> QED
    BY <1>6, <2>1 DEF DeclineReconnect, SignalQuit
<1> QED
  BY <1>2, <1>3, <1>4, <1>5, <1>6 DEF Dispatch

LEMMA TypeInvariant == SafetySpec => []TypeInv
<1>1. Init => TypeInv
  <2> SUFFICES ASSUME Init PROVE TypeInv
    OBVIOUS
  <2>1. ThreadsOK
    BY DEF Init, ThreadsOK, OnTrack, Tasks, Places
  <2>2. ClientsOK
    BY DEF Init, ClientsOK, Links
  <2>3. events \in Seq({"lost", "sts"} \X Clients)
    BY EmptySeq DEF Init
  <2> QED
    BY <2>1, <2>2, <2>3 DEF Init, TypeInv
<1>2. TypeInv /\ [Next]_vars => TypeInv'
  <2> SUFFICES ASSUME TypeInv, [Next]_vars PROVE TypeInv'
    OBVIOUS
  <2>1. CASE Next
    <3>1. CASE ToggleAutoConnect
      BY <3>1 DEF ToggleAutoConnect, TypeInv, ThreadsOK, ClientsOK, OnTrack, app, threads, clients, delivery
    <3> QED
      BY <2>1, <3>1, ClientType, ConnectType, TeardownType, LoopType, DispatchType DEF Next, GoroutineStep
  <2>2. CASE UNCHANGED vars
    BY <2>2 DEF vars, app, threads, clients, delivery, TypeInv, ThreadsOK, ClientsOK, OnTrack
  <2> QED
    BY <2>1, <2>2
<1> QED
  BY <1>1, <1>2, PTL DEF SafetySpec

------------------------------------------------------------------------------
(* One attempt at a time *)

(* What a step of a goroutine that is outside an attempt may do. *)
LEMMA OutsideKeepsAttempt ==
    ASSUME OneAttempt, ThreadsOK, NEW g \in Goroutines, NEW place,
           place \notin Attempting, pc[g] \notin Attempting, pc' = [pc EXCEPT ![g] = place],
           UNCHANGED connecting, registered' \in {NoClient, registered}
    PROVE  OneAttempt'
  BY DEF OneAttempt, ThreadsOK

LEMMA InsideKeepsAttempt ==
    ASSUME OneAttempt, ThreadsOK, NEW g \in Goroutines, NEW place,
           place \in Attempting, pc[g] \in Attempting, pc' = [pc EXCEPT ![g] = place],
           UNCHANGED <<connecting, registered>>
    PROVE  OneAttempt'
  BY DEF OneAttempt, ThreadsOK

(* The step that ends the attempt clears the entry. *)
LEMMA LeavesAttempt ==
    ASSUME OneAttempt, ThreadsOK, NEW g \in Goroutines, NEW place,
           place \notin Attempting, pc[g] \in Attempting, pc' = [pc EXCEPT ![g] = place],
           connecting' = FALSE
    PROVE  OneAttempt'
  BY DEF OneAttempt, ThreadsOK

LEMMA SameThreadsKeepAttempt ==
    ASSUME OneAttempt, UNCHANGED <<pc, connecting, registered>>
    PROVE  OneAttempt'
  BY DEF OneAttempt

LEMMA ReturnPlace ==
    ASSUME NEW g \in Goroutines, NEW ok \in BOOLEAN, Return(g, ok)
    PROVE  \E place \in {"idle", "finish", "attempt"} : pc' = [pc EXCEPT ![g] = place]
  BY DEF Return, Exit, Goto

LEMMA ConnectKeepsAttempt ==
    ASSUME OneAttempt, TypeInv, NEW g \in Goroutines, ConnectStep(g)
    PROVE  OneAttempt'
<1> USE DEF app, threads, clients, delivery
<1>1. CASE CheckRow(g) \/ Build(g)
  <2>1. \E place \in {"idle", "finish", "attempt", "build", "claim"} : pc' = [pc EXCEPT ![g] = place]
    BY <1>1, ReturnPlace DEF CheckRow, Build, Goto
  <2> QED
    BY <1>1, <2>1, OutsideKeepsAttempt DEF CheckRow, Build, TypeInv, Attempting
<1>2. CASE Claim(g)
  <2>1. CASE connecting \/ Live(registered)
    <3>1. \E place \in {"idle", "finish", "attempt"} : pc' = [pc EXCEPT ![g] = place]
      BY <1>2, <2>1, ReturnPlace DEF Claim
    <3> QED
      BY <1>2, <2>1, <3>1, OutsideKeepsAttempt DEF Claim, TypeInv, Attempting
  <2>2. CASE ~(connecting \/ Live(registered))
    <3>1. connecting' = TRUE /\ registered' = NoClient /\ pc' = [pc EXCEPT ![g] = "stale"]
      BY <1>2, <2>2 DEF Claim, Goto
    <3>2. \A h \in Goroutines : pc[h] \notin Attempting
      BY <2>2 DEF OneAttempt
    <3> QED
      BY <3>1, <3>2 DEF OneAttempt, TypeInv, ThreadsOK, Attempting
  <2> QED
    BY <2>1, <2>2
<1>3. CASE QuitStale(g) \/ ConnectReturns(g) \/ ConnectTimesOut(g) \/ \E c \in Clients : Dial(g, c)
  <2>1. /\ pc[g] \in Attempting
        /\ \E place \in Attempting : pc' = [pc EXCEPT ![g] = place]
        /\ UNCHANGED <<connecting, registered>>
    BY <1>3 DEF QuitStale, ConnectReturns, ConnectTimesOut, Dial, Goto, Attempting
  <2> QED
    BY <2>1, InsideKeepsAttempt DEF TypeInv
<1>4. CASE Settle(g) \/ GiveUp(g) \/ Store(g)
  <2>1. pc[g] \in Attempting
    BY <1>4 DEF Settle, GiveUp, Store, Attempting
  <2>2. CASE connecting' = FALSE /\ \E ok \in BOOLEAN : Return(g, ok)
    <3>1. \E place \in {"idle", "finish", "attempt"} : pc' = [pc EXCEPT ![g] = place]
      BY <2>2, ReturnPlace
    <3> QED
      BY <2>1, <2>2, <3>1, LeavesAttempt DEF TypeInv, Attempting
  <2>3. CASE pc' = [pc EXCEPT ![g] = "first"] /\ UNCHANGED <<connecting, registered>>
    BY <2>1, <2>3, InsideKeepsAttempt DEF TypeInv, Attempting
  <2> QED
    BY <1>4, <2>2, <2>3 DEF Settle, GiveUp, Store, Goto
<1> QED
  BY <1>1, <1>2, <1>3, <1>4 DEF ConnectStep

LEMMA OthersKeepAttempt ==
    ASSUME OneAttempt, TypeInv, NEW g \in Goroutines,
           Begin(g) \/ TeardownStep(g) \/ Attempt(g) \/ StartUpgrade(g) \/ Finish(g)
    PROVE  OneAttempt'
<1> USE DEF app, threads, clients, delivery
<1>1. pc[g] \notin Attempting
  BY DEF Begin, TeardownStep, Attempt, StartUpgrade, Finish, Enter, Disconnect, Quit, Unmap,
         Unregister, DeleteRow, TypeInv, ThreadsOK, OnTrack, Attempting
<1>2. /\ \E place \in Places \ Attempting : pc' = [pc EXCEPT ![g] = place]
      /\ UNCHANGED connecting
      /\ registered' \in {NoClient, registered}
  BY DEF Begin, TeardownStep, Attempt, StartUpgrade, Finish, Enter, Exit, AfterDisconnect, Goto,
         Disconnect, Quit, Unmap, Unregister, DeleteRow, Places, Connecting, Stopping, Attempting
<1> QED
  BY <1>1, <1>2, OutsideKeepsAttempt DEF TypeInv

(* Connects from the frontend, startup, a deep link, the reconnect loop and  *)
(* an upgrade can meet: one attempt is in flight, and the in-progress entry  *)
(* is there exactly as long as it is.                                        *)
THEOREM AttemptsExclude == SafetySpec => []OneAttempt
<1>1. Init => OneAttempt
  BY DEF Init, OneAttempt, Attempting
<1>2. OneAttempt /\ TypeInv /\ [Next]_vars => OneAttempt'
  <2> SUFFICES ASSUME OneAttempt, TypeInv, [Next]_vars PROVE OneAttempt'
    OBVIOUS
  <2>1. ASSUME NEW c \in Clients, ClientStep(c) PROVE OneAttempt'
    BY <2>1, SameThreadsKeepAttempt
       DEF ClientStep, Registers, Refused, RefusedLate, Advertises, OnConnect, ServerError,
           SignalQuit, Drop, FinishDisconnect, app, threads
  <2>2. ASSUME NEW g \in Goroutines, HandleSTS(g) \/ StartReconnect(g) PROVE OneAttempt'
    <3>1. /\ pc[g] \notin Attempting
          /\ \E place \in {"idle", "attempt"} : pc' = [pc EXCEPT ![g] = place]
          /\ UNCHANGED <<connecting, registered>>
      BY <2>2 DEF HandleSTS, StartReconnect, Enter, Goto, TypeInv, ThreadsOK, OnTrack, Attempting, app
    <3> QED
      BY <3>1, OutsideKeepsAttempt DEF TypeInv, Attempting
  <2>3. CASE HandleLost \/ ClaimReconnect \/ LookupNetwork \/ DeclineReconnect \/ ToggleAutoConnect
    BY <2>3, SameThreadsKeepAttempt
       DEF HandleLost, ClaimReconnect, LookupNetwork, DeclineReconnect, ToggleAutoConnect, app, threads
  <2>4. CASE UNCHANGED vars
    BY <2>4, SameThreadsKeepAttempt DEF vars, app, threads
  <2> QED
    BY <2>1, <2>2, <2>3, <2>4, ConnectKeepsAttempt, OthersKeepAttempt DEF Next, GoroutineStep, Dispatch
<1> QED
  BY <1>1, <1>2, TypeInvariant, PTL DEF SafetySpec

------------------------------------------------------------------------------
(* The reconnecting flag *)

LEMMA OwnerStays ==
    ASSUME ReconnectingIsOwned,
           reconnecting' => reconnecting,
           handler \in {"lookup", "decide"} => handler' \in {"lookup", "decide"},
           \A g \in Goroutines : task[g] = "reconnect" => task'[g] = "reconnect"
    PROVE  ReconnectingIsOwned'
  BY DEF ReconnectingIsOwned

LEMMA OnlyOthersExit ==
    ASSUME ThreadsOK, NEW g \in Goroutines, Exit(g), task[g] # "reconnect"
    PROVE  \A h \in Goroutines : task[h] = "reconnect" => task'[h] = "reconnect"
  BY DEF ThreadsOK, Exit

LEMMA ReturnKeepsLoop ==
    ASSUME ThreadsOK, NEW g \in Goroutines, NEW ok \in BOOLEAN, Return(g, ok)
    PROVE  \A h \in Goroutines : task[h] = "reconnect" => task'[h] = "reconnect"
  BY OnlyOthersExit DEF Return

LEMMA ConnectKeepsOwner ==
    ASSUME ReconnectingIsOwned, TypeInv, NEW g \in Goroutines, ConnectStep(g)
    PROVE  ReconnectingIsOwned'
<1> USE DEF app, threads, clients, delivery, TypeInv
<1>1. (reconnecting' => reconnecting) /\ handler' = handler
  BY DEF ConnectStep, CheckRow, Build, Claim, QuitStale, Settle, Dial, ConnectReturns,
         ConnectTimesOut, GiveUp, Store
<1>2. UNCHANGED task \/ \E ok \in BOOLEAN : Return(g, ok)
  BY DEF ConnectStep, CheckRow, Build, Claim, QuitStale, Settle, Dial, ConnectReturns,
         ConnectTimesOut, GiveUp, Store
<1>3. \A h \in Goroutines : task[h] = "reconnect" => task'[h] = "reconnect"
  BY <1>2, ReturnKeepsLoop
<1> QED
  BY <1>1, <1>3, OwnerStays

LEMMA TeardownKeepsOwner ==
    ASSUME ReconnectingIsOwned, TypeInv, NEW g \in Goroutines, TeardownStep(g)
    PROVE  ReconnectingIsOwned'
<1> USE DEF app, threads, clients, delivery
<1>1. UNCHANGED <<reconnecting, handler>>
  BY DEF TeardownStep, Disconnect, Quit, Unmap, Unregister, DeleteRow
<1>2. UNCHANGED task \/ (Exit(g) /\ task[g] # "reconnect")
  BY DEF TeardownStep, Disconnect, Quit, Unmap, Unregister, DeleteRow, AfterDisconnect,
         TypeInv, ThreadsOK, OnTrack, Connecting, Attempting
<1>3. \A h \in Goroutines : task[h] = "reconnect" => task'[h] = "reconnect"
  BY <1>2, OnlyOthersExit DEF TypeInv
<1> QED
  BY <1>1, <1>3, OwnerStays

(* While the flag is set, losses are skipped: somebody is on the way to clear *)
(* it, whichever of the goroutines that clear it was overtaken.              *)
THEOREM FlagHasOwner == SafetySpec => []ReconnectingIsOwned
<1>1. Init => ReconnectingIsOwned
  BY DEF Init, ReconnectingIsOwned
<1>2. ReconnectingIsOwned /\ TypeInv /\ [Next]_vars => ReconnectingIsOwned'
  <2> SUFFICES ASSUME ReconnectingIsOwned, TypeInv, [Next]_vars PROVE ReconnectingIsOwned'
    OBVIOUS
  <2> USE DEF app, threads, clients, delivery
  <2>1. ASSUME NEW c \in Clients, ClientStep(c) PROVE ReconnectingIsOwned'
    BY <2>1, OwnerStays
       DEF ClientStep, Registers, Refused, RefusedLate, Advertises, OnConnect, ServerError,
           SignalQuit, Drop, FinishDisconnect
  <2>2. ASSUME NEW g \in Goroutines, Begin(g) \/ Attempt(g) \/ StartUpgrade(g) PROVE ReconnectingIsOwned'
    <3>1. \A h \in Goroutines : task[h] = "reconnect" => task'[h] = "reconnect"
      BY <2>2 DEF Begin, Attempt, StartUpgrade, Enter, TypeInv, ThreadsOK
    <3> QED
      BY <2>2, <3>1, OwnerStays DEF Begin, Attempt, StartUpgrade
  <2>3. ASSUME NEW g \in Goroutines, Finish(g) PROVE ReconnectingIsOwned'
    <3>1. CASE task[g] = "upgrade"
      BY <2>3, <3>1, OnlyOthersExit, OwnerStays DEF Finish, TypeInv
    <3>2. CASE task[g] # "upgrade"
      BY <2>3, <3>2 DEF Finish, ReconnectingIsOwned
    <3> QED
      BY <3>1, <3>2
  <2>4. ASSUME NEW g \in Goroutines, HandleSTS(g) PROVE ReconnectingIsOwned'
    <3>1. \A h \in Goroutines : task[h] = "reconnect" => task'[h] = "reconnect"
      BY <2>4 DEF HandleSTS, Enter, TypeInv, ThreadsOK
    <3> QED
      BY <2>4, <3>1, OwnerStays DEF HandleSTS
  <2>5. ASSUME NEW g \in Goroutines, StartReconnect(g) PROVE ReconnectingIsOwned'
    BY <2>5 DEF StartReconnect, Enter, ReconnectingIsOwned, TypeInv, ThreadsOK
  <2>6. CASE HandleLost \/ ToggleAutoConnect
    BY <2>6 DEF HandleLost, ToggleAutoConnect, ReconnectingIsOwned
  <2>7. CASE ClaimReconnect \/ LookupNetwork \/ DeclineReconnect
    BY <2>7 DEF ClaimReconnect, LookupNetwork, DeclineReconnect, HandlerDone, ReconnectingIsOwned
  <2>8. CASE UNCHANGED vars
    BY <2>8 DEF vars, ReconnectingIsOwned
  <2> QED
    BY <2>1, <2>2, <2>3, <2>4, <2>5, <2>6, <2>7, <2>8, ConnectKeepsOwner, TeardownKeepsOwner
       DEF Next, GoroutineStep, Dispatch
<1> QED
  BY <1>1, <1>2, TypeInvariant, PTL DEF SafetySpec

------------------------------------------------------------------------------
(* A session belongs to a client that is up, and a client that was told to   *)
(* quit never has one.                                                       *)
UpIsLive ==
    \A c \in Clients :
        /\ connected[c] => link[c] = "up" /\ ~abandoned[c]
        /\ link[c] = "cut" => abandoned[c]

(* A client that may still register is the one a goroutine waits for.        *)
DialIsAwaited ==
    \A c \in Clients :
        link[c] \in {"dialing", "greeting"} /\ ~abandoned[c] =>
            \E g \in Goroutines : held[g] = c /\ pc[g] = "dial"

(* DisconnectNetwork removes from the map the client that it told to quit.   *)
UnmapsItsOwn ==
    \A g \in Goroutines :
        /\ pc[g] \in {"quit", "unmap"} => registered \in {NoClient, held[g]}
        /\ pc[g] = "unmap" => abandoned[held[g]]

HandsInv == UpIsLive /\ DialIsAwaited /\ UnmapsItsOwn

(* What the steps of one goroutine leave alone. *)
LEMMA OnlyItMoves ==
    ASSUME TypeInv, NEW g \in Goroutines, Begin(g) \/ GoroutineStep(g) \/ HandleSTS(g) \/ StartReconnect(g)
    PROVE  \A h \in Goroutines \ {g} : pc'[h] = pc[h] /\ held'[h] = held[h]
<1> USE DEF TypeInv, ThreadsOK, threads
<1>1. ASSUME NEW ok \in BOOLEAN, Return(g, ok) \/ AfterDisconnect(g)
      PROVE  \A h \in Goroutines \ {g} : pc'[h] = pc[h] /\ held'[h] = held[h]
  BY <1>1 DEF Return, AfterDisconnect, Exit, Goto
<1>2. CASE ConnectStep(g)
  BY <1>1, <1>2 DEF ConnectStep, CheckRow, Build, Claim, QuitStale, Settle, Dial, ConnectReturns,
         ConnectTimesOut, GiveUp, Store, Goto
<1>3. CASE TeardownStep(g)
  BY <1>1, <1>3 DEF TeardownStep, Disconnect, Quit, Unmap, Unregister, DeleteRow, Exit, Goto
<1>4. CASE ~ConnectStep(g) /\ ~TeardownStep(g)
  BY <1>4 DEF GoroutineStep, Begin, Attempt, StartUpgrade, Finish, HandleSTS, StartReconnect, Enter, Exit, Goto
<1> QED
  BY <1>2, <1>3, <1>4

LEMMA QuitKeepsUp ==
    ASSUME UpIsLive, ClientsOK, NEW c, SignalQuit(c)
    PROVE  UpIsLive'
  BY DEF UpIsLive, ClientsOK, SignalQuit

LEMMA GoroutineKeepsUp ==
    ASSUME TypeInv, UpIsLive, NEW g \in Goroutines, GoroutineStep(g)
    PROVE  UpIsLive'
<1>1. CASE \E c \in Clients : Dial(g, c)
  BY <1>1 DEF Dial, Unused, UpIsLive, TypeInv, ClientsOK
<1>2. CASE UNCHANGED clients
  BY <1>2 DEF clients, UpIsLive
<1>3. CASE \E c : SignalQuit(c)
  BY <1>3, QuitKeepsUp DEF TypeInv
<1> QED
  BY <1>1, <1>2, <1>3
     DEF GoroutineStep, ConnectStep, CheckRow, Build, Claim, QuitStale, Settle, ConnectReturns,
         ConnectTimesOut, GiveUp, Store, TeardownStep, Disconnect, Quit, Unmap, Unregister, DeleteRow,
         Attempt, StartUpgrade, Finish, delivery, threads, app

LEMMA ClientKeepsHands ==
    ASSUME TypeInv, HandsInv, NEW c \in Clients, ClientStep(c)
    PROVE  HandsInv'
<1> USE DEF TypeInv, ClientsOK, Links, app, threads, delivery
<1>1. UpIsLive'
  BY DEF HandsInv, UpIsLive, ClientStep, Registers, Refused, RefusedLate, Advertises, OnConnect,
         ServerError, SignalQuit, Drop, FinishDisconnect
<1>2. /\ UNCHANGED <<pc, held, registered>>
      /\ \A d \in Clients : abandoned[d] => abandoned'[d]
      /\ \A d \in Clients : link'[d] \in {"dialing", "greeting"} => link[d] \in {"dialing", "greeting"}
  BY DEF ClientStep, Registers, Refused, RefusedLate, Advertises, OnConnect,
         ServerError, SignalQuit, Drop, FinishDisconnect
<1>3. DialIsAwaited'
  BY <1>2 DEF HandsInv, DialIsAwaited
<1>4. UnmapsItsOwn'
  BY <1>2 DEF HandsInv, UnmapsItsOwn, ThreadsOK
<1> QED
  BY <1>1, <1>3, <1>4 DEF HandsInv

LEMMA GoroutineKeepsDial ==
    ASSUME TypeInv, DialIsAwaited, NEW g \in Goroutines, GoroutineStep(g)
    PROVE  DialIsAwaited'
<1> USE DEF TypeInv, ClientsOK, ThreadsOK
<1>1. ASSUME NEW c \in Clients, Dial(g, c) PROVE DialIsAwaited'
  BY <1>1, OnlyItMoves DEF Dial, Unused, Goto, DialIsAwaited
<1>2. CASE ConnectReturns(g)
  BY <1>2, OnlyItMoves DEF ConnectReturns, Applied, Goto, DialIsAwaited, clients
<1>3. CASE ConnectTimesOut(g)
  BY <1>3, OnlyItMoves DEF ConnectTimesOut, SignalQuit, Goto, DialIsAwaited
<1>4. CASE ~ConnectReturns(g) /\ ~ConnectTimesOut(g) /\ ~(\E c \in Clients : Dial(g, c))
  <2>1. pc[g] # "dial" /\ link' = link
    BY <1>4 DEF GoroutineStep, ConnectStep, CheckRow, Build, Claim, QuitStale, Settle, GiveUp, Store,
         TeardownStep, Disconnect, Quit, Unmap, Unregister, DeleteRow,
         Attempt, StartUpgrade, Finish, clients, SignalQuit
  <2>2. \A d \in Clients : abandoned[d] => abandoned'[d]
    BY <1>4 DEF GoroutineStep, ConnectStep, CheckRow, Build, Claim, QuitStale, Settle, GiveUp, Store,
         TeardownStep, Disconnect, Quit, Unmap, Unregister, DeleteRow,
         Attempt, StartUpgrade, Finish, clients, SignalQuit
  <2> QED
    BY <2>1, <2>2, OnlyItMoves DEF DialIsAwaited
<1> QED
  BY <1>1, <1>2, <1>3, <1>4

LEMMA GoroutineKeepsUnmap ==
    ASSUME TypeInv, UnmapsItsOwn, NEW g \in Goroutines, GoroutineStep(g)
    PROVE  UnmapsItsOwn'
<1> USE DEF TypeInv, ClientsOK, ThreadsOK, UnmapsItsOwn
<1>1. \A d \in Clients : abandoned[d] => abandoned'[d]
  BY DEF GoroutineStep, ConnectStep, CheckRow, Build, Claim, QuitStale, Settle, Dial, ConnectReturns,
         ConnectTimesOut, GiveUp, Store, TeardownStep, Disconnect, Quit, Unmap, Unregister, DeleteRow,
         Attempt, StartUpgrade, Finish, clients, SignalQuit
<1>2. CASE Store(g)
  <2>1. \A h \in Goroutines : pc[h] \notin {"quit", "unmap"}
    BY <1>2 DEF Store, TeardownIsFaster
  <2>2. pc'[g] \notin {"quit", "unmap"}
    BY <1>2 DEF Store, Return, Exit, Goto
  <2> QED
    BY <2>1, <2>2, OnlyItMoves
<1>3. CASE Disconnect(g) /\ registered # NoClient
  BY <1>1, <1>3, OnlyItMoves DEF Disconnect, Goto
<1>4. CASE Quit(g)
  BY <1>1, <1>4, OnlyItMoves DEF Quit, Goto, SignalQuit, app
<1>5. CASE ~Store(g) /\ ~Quit(g) /\ ~(Disconnect(g) /\ registered # NoClient)
  <2>1. registered' \in {NoClient, registered}
    BY <1>5 DEF GoroutineStep, ConnectStep, CheckRow, Build, Claim, QuitStale, Settle, Dial, ConnectReturns,
         ConnectTimesOut, GiveUp, TeardownStep, Disconnect, Unmap, Unregister, DeleteRow,
         Attempt, StartUpgrade, Finish, app
  <2>2. pc'[g] \notin {"quit", "unmap"}
    BY <1>5 DEF GoroutineStep, ConnectStep, CheckRow, Build, Claim, QuitStale, Settle, Dial, ConnectReturns,
         ConnectTimesOut, GiveUp, TeardownStep, Disconnect, Unmap, Unregister, DeleteRow,
         Attempt, StartUpgrade, Finish, Return, AfterDisconnect, Exit, Goto
  <2> QED
    BY <1>1, <2>1, <2>2, OnlyItMoves
<1> QED
  BY <1>2, <1>3, <1>4, <1>5

LEMMA HandsInvariant == SafetySpec => []HandsInv
<1>1. Init => HandsInv
  BY DEF Init, HandsInv, UpIsLive, DialIsAwaited, UnmapsItsOwn
<1>2. TypeInv /\ HandsInv /\ [Next]_vars => HandsInv'
  <2> SUFFICES ASSUME TypeInv, HandsInv, [Next]_vars PROVE HandsInv'
    OBVIOUS
  <2>1. ASSUME NEW g \in Goroutines, GoroutineStep(g) PROVE HandsInv'
    BY <2>1, GoroutineKeepsUp, GoroutineKeepsDial, GoroutineKeepsUnmap DEF HandsInv
  <2>2. ASSUME NEW g \in Goroutines, Begin(g) \/ HandleSTS(g) \/ StartReconnect(g) PROVE HandsInv'
    <3>1. pc[g] = "idle" /\ pc'[g] \notin {"quit", "unmap"} /\ UNCHANGED <<registered, clients>>
      BY <2>2 DEF Begin, HandleSTS, StartReconnect, Enter, Goto, TypeInv, ThreadsOK, OnTrack, app
    <3> QED
      BY <2>2, <3>1, OnlyItMoves DEF HandsInv, UpIsLive, DialIsAwaited, UnmapsItsOwn, clients
  <2>3. CASE HandleLost \/ ClaimReconnect \/ LookupNetwork \/ ToggleAutoConnect
    BY <2>3 DEF HandleLost, ClaimReconnect, LookupNetwork, ToggleAutoConnect, app, threads, clients,
         HandsInv, UpIsLive, DialIsAwaited, UnmapsItsOwn
  <2>4. CASE DeclineReconnect
    <3>1. UNCHANGED <<registered, pc, held, link>> /\ (UNCHANGED clients \/ \E c : SignalQuit(c))
      BY <2>4 DEF DeclineReconnect, threads, clients, SignalQuit
    <3>2. \A d \in Clients : abandoned[d] => abandoned'[d]
      BY <3>1 DEF clients, SignalQuit, TypeInv, ClientsOK
    <3>3. UpIsLive'
      BY <3>1, QuitKeepsUp DEF HandsInv, UpIsLive, clients, TypeInv
    <3> QED
      BY <3>1, <3>2, <3>3 DEF HandsInv, DialIsAwaited, UnmapsItsOwn, TypeInv, ThreadsOK
  <2>5. CASE UNCHANGED vars
    BY <2>5 DEF vars, app, threads, clients, HandsInv, UpIsLive, DialIsAwaited, UnmapsItsOwn
  <2> QED
    BY <2>1, <2>2, <2>3, <2>4, <2>5, ClientKeepsHands DEF Next, Dispatch
<1> QED
  BY <1>1, <1>2, TypeInvariant, PTL DEF SafetySpec

------------------------------------------------------------------------------
(* Sessions *)

Known(c) ==
    \/ registered = c
    \/ \E g \in Goroutines : held[g] = c /\ pc[g] \in {"dial", "store", "stale", "quit", "deleteQuit"}

LEMMA GoroutineKeepsKnown ==
    ASSUME TypeInv, HandsInv, OneAttempt, NEW g \in Goroutines, GoroutineStep(g),
           NEW c \in Clients, connected[c] => Known(c), connected'[c]
    PROVE  Known(c)'
<1> USE DEF TypeInv, ClientsOK, ThreadsOK, Known, Goto
<1>1. connected[c] /\ Known(c)
  BY DEF GoroutineStep, ConnectStep, CheckRow, Build, Claim, QuitStale, Settle, Dial, ConnectReturns,
         ConnectTimesOut, GiveUp, Store, TeardownStep, Disconnect, Quit, Unmap, Unregister, DeleteRow,
         Attempt, StartUpgrade, Finish, clients, SignalQuit
<1>2. CASE Claim(g)
  <2>1. /\ pc[g] = "claim"
        /\ \/ registered' = registered
           \/ pc'[g] = "stale" /\ held'[g] = registered
    BY <1>2 DEF Claim
  <2> QED
    BY <1>1, <2>1, OnlyItMoves
<1>3. CASE QuitStale(g) \/ ConnectTimesOut(g) \/ Quit(g)
  <2>1. registered' = registered /\ held' = held
    BY <1>3 DEF QuitStale, ConnectTimesOut, Quit, app
  <2>2. held[g] # c \/ pc[g] \notin {"dial", "store", "stale", "quit", "deleteQuit"}
    BY <1>1, <1>3, NoClientAssumption DEF QuitStale, ConnectTimesOut, Quit, SignalQuit
  <2> QED
    BY <1>1, <2>1, <2>2, OnlyItMoves
<1>4. CASE ConnectReturns(g)
  BY <1>1, <1>4, OnlyItMoves DEF ConnectReturns, HandsInv, UpIsLive, app
<1>5. CASE Store(g)
  <2>1. registered = NoClient
    BY <1>5 DEF Store, OneAttempt, Attempting
  <2>2. ~Live(registered)
    BY <2>1 DEF Live
  <2>3. pc[g] = "store" /\ registered' = held[g]
    BY <1>5, <2>2 DEF Store
  <2> QED
    BY <1>1, <2>1, <2>3, OnlyItMoves, NoClientAssumption
<1>6. CASE Unmap(g)
  BY <1>1, <1>6, OnlyItMoves DEF Unmap, HandsInv, UpIsLive, UnmapsItsOwn
<1>7. CASE Unregister(g) \/ Disconnect(g)
  BY <1>1, <1>7, OnlyItMoves DEF Unregister, Disconnect
<1>8. CASE CheckRow(g) \/ Build(g) \/ Settle(g) \/ GiveUp(g) \/ (\E d \in Clients : Dial(g, d))
           \/ DeleteRow(g) \/ Attempt(g) \/ StartUpgrade(g) \/ Finish(g)
  <2>1. pc[g] \notin {"dial", "store", "stale", "quit", "deleteQuit"} /\ registered' = registered
    BY <1>8 DEF CheckRow, Build, Settle, GiveUp, Dial, DeleteRow, Attempt, StartUpgrade, Finish, app
  <2> QED
    BY <1>1, <2>1, OnlyItMoves
<1> QED
  BY <1>2, <1>3, <1>4, <1>5, <1>6, <1>7, <1>8 DEF GoroutineStep, ConnectStep, TeardownStep

(* The App never loses sight of a session: no client that timed out, was     *)
(* replaced or came late is connected behind its back.                       *)
THEOREM NoSessionIsLost == SafetySpec => []NoOrphan
<1>1. Init => NoOrphan
  BY DEF Init, NoOrphan
<1>2. TypeInv /\ HandsInv /\ OneAttempt /\ NoOrphan /\ [Next]_vars => NoOrphan'
  <2> SUFFICES ASSUME TypeInv, HandsInv, OneAttempt, NoOrphan, [Next]_vars,
                      NEW c \in Clients, connected'[c]
               PROVE  Known(c)'
    BY DEF NoOrphan, Known, BeingTornDown
  <2>1. connected[c] => Known(c)
    BY DEF NoOrphan, Known, BeingTornDown
  <2>2. ASSUME NEW d \in Clients, ClientStep(d) PROVE Known(c)'
    <3>1. UNCHANGED <<registered, pc, held>>
      BY <2>2 DEF ClientStep, Registers, Refused, RefusedLate, Advertises, OnConnect, ServerError,
           SignalQuit, Drop, FinishDisconnect, app, threads
    <3>2. connected[c] \/ (link[c] \in {"greeting", "cut"} /\ ~abandoned[c])
      BY <2>2 DEF ClientStep, Registers, Refused, RefusedLate, Advertises, OnConnect, ServerError,
           SignalQuit, Drop, FinishDisconnect, TypeInv, ClientsOK
    <3>3. Known(c)
      BY <2>1, <3>2 DEF HandsInv, UpIsLive, DialIsAwaited, Known
    <3> QED
      BY <3>1, <3>3 DEF Known
  <2>3. ASSUME NEW g \in Goroutines, GoroutineStep(g) PROVE Known(c)'
    BY <2>1, <2>3, GoroutineKeepsKnown
  <2>4. ASSUME NEW g \in Goroutines, Begin(g) \/ HandleSTS(g) \/ StartReconnect(g) PROVE Known(c)'
    <3>1. pc[g] = "idle" /\ UNCHANGED <<registered, connected>>
      BY <2>4 DEF Begin, HandleSTS, StartReconnect, Enter, TypeInv, ThreadsOK, OnTrack, app, clients
    <3> QED
      BY <2>1, <2>4, <3>1, OnlyItMoves DEF Known
  <2>5. CASE HandleLost \/ ClaimReconnect \/ LookupNetwork \/ DeclineReconnect \/ ToggleAutoConnect
    <3>1. UNCHANGED <<registered, pc, held>> /\ connected[c]
      BY <2>5 DEF HandleLost, ClaimReconnect, LookupNetwork, DeclineReconnect, ToggleAutoConnect,
           SignalQuit, app, threads, clients, TypeInv, ClientsOK
    <3> QED
      BY <2>1, <3>1 DEF Known
  <2>6. CASE UNCHANGED vars
    BY <2>1, <2>6 DEF vars, app, threads, clients, Known
  <2> QED
    BY <2>2, <2>3, <2>4, <2>5, <2>6 DEF Next, Dispatch
<1> QED
  BY <1>1, <1>2, TypeInvariant, HandsInvariant, AttemptsExclude, PTL DEF SafetySpec

(* No ghost sessions: two clients are connected at the same time only while  *)
(* one of them is being told to quit.                                        *)
THEOREM SessionIsUnique == SafetySpec => []OneSession
<1>1. TypeInv /\ OneAttempt /\ NoOrphan => OneSession
  <2> SUFFICES ASSUME TypeInv, OneAttempt, NoOrphan, NEW c \in Clients, NEW d \in Clients,
                      connected[c], connected[d], ~BeingTornDown(c), ~BeingTornDown(d)
               PROVE  c = d
    BY DEF OneSession
  <2> DEFINE Holds(g, e) == held[g] = e /\ pc[g] \in {"dial", "store"}
  <2>1. \A e \in {c, d} : registered = e \/ \E g \in Goroutines : Holds(g, e)
    BY DEF NoOrphan
  <2>2. \A g, h \in Goroutines : Holds(g, c) /\ Holds(h, d) => g = h
    BY DEF OneAttempt, Attempting
  <2>3. \A g \in Goroutines, e \in {c, d} : Holds(g, e) => registered = NoClient
    BY DEF OneAttempt, Attempting
  <2> QED
    BY <2>1, <2>2, <2>3, NoClientAssumption
<1> QED
  BY <1>1, TypeInvariant, AttemptsExclude, NoSessionIsLost, PTL

------------------------------------------------------------------------------
(* The marker of an intentional disconnect *)

ToCome == \E c \in Clients : LossToCome(c)

(* A queued loss survives what is appended after it, and the handling of     *)
(* another event before it.                                                  *)
LEMMA QueuedLossStays ==
    ASSUME TypeInv, UNCHANGED link,
           \/ UNCHANGED events
           \/ events # <<>> /\ Head(events)[1] = "sts" /\ events' = Tail(events),
           ToCome
    PROVE  ToCome'
<1>1. PICK c \in Clients : LossToCome(c)
  BY DEF ToCome
<1>2. CASE link[c] \in {"greeting", "up", "cut", "draining"} \/ UNCHANGED events
  BY <1>1, <1>2 DEF ToCome, LossToCome
<1>3. CASE link[c] \notin {"greeting", "up", "cut", "draining"} /\ ~UNCHANGED events
  <2>1. PICK i \in DOMAIN events : events[i] = <<"lost", c>>
    BY <1>1, <1>3 DEF LossToCome
  <2>2. events \in Seq({"lost", "sts"} \X Clients) /\ events # <<>> /\ events' = Tail(events)
    BY <1>3 DEF TypeInv
  <2>3. i \in 1 .. Len(events) /\ Len(events) \in Nat /\ Head(events) = events[1]
    BY <2>2, LenProperties
  <2>4. i # 1
    BY <1>3, <2>1, <2>3
  <2>5. i - 1 \in 1 .. Len(events) - 1 /\ (i - 1) + 1 = i
    BY <2>3, <2>4
  <2>6. i - 1 \in DOMAIN Tail(events) /\ Tail(events)[i - 1] = events[i]
    BY <2>2, <2>5, HeadTailProperties, LenProperties
  <2> QED
    BY <2>1, <2>2, <2>6 DEF ToCome, LossToCome
<1> QED
  BY <1>2, <1>3

LEMMA ClientKeepsToCome ==
    ASSUME TypeInv, UpIsLive, NEW d \in Clients, ClientStep(d), ToCome
    PROVE  ToCome'
<1> USE DEF TypeInv, ClientsOK
<1>1. PICK c \in Clients : LossToCome(c)
  BY DEF ToCome
<1>2. \A i \in DOMAIN events : i \in DOMAIN events' /\ events'[i] = events[i]
  <2>1. UNCHANGED events \/ \E kind \in {"lost", "sts"} : events' = Append(events, <<kind, d>>)
    BY DEF ClientStep, Registers, Refused, RefusedLate, Advertises, OnConnect, ServerError, Drop,
           FinishDisconnect, delivery
  <2>2. ASSUME NEW e \in {"lost", "sts"} \X Clients, NEW i \in DOMAIN events
        PROVE  i \in DOMAIN Append(events, e) /\ Append(events, e)[i] = events[i]
    BY AppendProperties, LenProperties
  <2>3. CASE UNCHANGED events
    BY <2>3
  <2>4. ASSUME NEW kind \in {"lost", "sts"}, events' = Append(events, <<kind, d>>)
        PROVE  \A i \in DOMAIN events : i \in DOMAIN events' /\ events'[i] = events[i]
    <3> DEFINE e == <<kind, d>>
    <3>1. e \in {"lost", "sts"} \X Clients
      OBVIOUS
    <3> HIDE DEF e
    <3>2. events' = Append(events, e)
      BY <2>4 DEF e
    <3> QED
      BY <2>2, <3>1, <3>2
  <2> QED
    BY <2>1, <2>3, <2>4
<1>3. CASE \E i \in DOMAIN events : events[i] = <<"lost", c>>
  BY <1>2, <1>3 DEF ToCome, LossToCome
<1>4. CASE link[c] \in {"greeting", "up", "cut", "draining"} /\ FinishDisconnect(d) /\ d = c
  <2>1. events' = Append(events, <<"lost", c>>)
    BY <1>4 DEF FinishDisconnect
  <2>2. Len(events) + 1 \in DOMAIN events' /\ events'[Len(events) + 1] = <<"lost", c>>
    BY <2>1, AppendProperties, LenProperties
  <2> QED
    BY <2>2 DEF ToCome, LossToCome
<1>5. CASE link[c] \in {"greeting", "up", "cut", "draining"} /\ ~(FinishDisconnect(d) /\ d = c)
  <2>1. link'[c] \in {"greeting", "up", "cut", "draining"}
    BY <1>5 DEF ClientStep, Registers, Refused, RefusedLate, Advertises, OnConnect, ServerError,
         SignalQuit, Drop, FinishDisconnect
  <2> QED
    BY <2>1 DEF ToCome, LossToCome
<1> HIDE DEF TypeInv, ClientsOK
<1> QED
  BY <1>1, <1>3, <1>4, <1>5 DEF LossToCome

LEMMA DeletingStays ==
    ASSUME TypeInv, [Next]_vars, Deleting
    PROVE  Deleting'
<1> USE DEF TypeInv, ThreadsOK, Deleting, app, threads, clients, delivery
<1>1. row = "gone" => row' = "gone"
  BY DEF Next, vars, ClientStep, Registers, Refused, RefusedLate, Advertises, OnConnect, ServerError,
         Drop, FinishDisconnect, Begin, GoroutineStep, ConnectStep, CheckRow, Build, Claim,
         QuitStale, Settle, Dial, ConnectReturns, ConnectTimesOut, GiveUp, Store, TeardownStep,
         Disconnect, Quit, Unmap, Unregister, DeleteRow, Attempt, StartUpgrade, Finish,
         ToggleAutoConnect, Dispatch, HandleSTS, HandleLost, ClaimReconnect, LookupNetwork,
         DeclineReconnect, StartReconnect
<1>2. ASSUME NEW h \in Goroutines, task[h] = "delete" PROVE task'[h] = "delete" \/ row' = "gone"
  <2>1. ASSUME NEW g \in Goroutines, NEW ok \in BOOLEAN, Return(g, ok) PROVE task'[h] = "delete"
    BY <1>2, <2>1 DEF Return, Exit
  <2>2. ASSUME NEW g \in Goroutines, pc[g] \in Stopping, AfterDisconnect(g) PROVE task'[h] = "delete"
    BY <1>2, <2>2 DEF AfterDisconnect, Exit, OnTrack, Stopping
  <2>3. ASSUME NEW g \in Goroutines, ConnectStep(g) PROVE task'[h] = "delete"
    BY <1>2, <2>1, <2>3
       DEF ConnectStep, CheckRow, Build, Claim, QuitStale, Settle, Dial, ConnectReturns,
           ConnectTimesOut, GiveUp, Store
  <2>4. ASSUME NEW g \in Goroutines, TeardownStep(g) PROVE task'[h] = "delete" \/ row' = "gone"
    BY <1>2, <2>2, <2>4 DEF TeardownStep, Disconnect, Quit, Unmap, Unregister, DeleteRow, Stopping
  <2>5. ASSUME NEW g \in Goroutines, Finish(g) PROVE task'[h] = "delete"
    BY <1>2, <2>5 DEF Finish, Exit, OnTrack
  <2>6. ASSUME NEW g \in Goroutines,
               Begin(g) \/ Attempt(g) \/ StartUpgrade(g) \/ HandleSTS(g) \/ StartReconnect(g)
        PROVE  task'[h] = "delete"
    BY <1>2, <2>6 DEF Begin, Attempt, StartUpgrade, HandleSTS, StartReconnect, Enter
  <2>7. ASSUME NEW c \in Clients, ClientStep(c) PROVE UNCHANGED task
    BY <2>7 DEF ClientStep, Registers, Refused, RefusedLate, Advertises, OnConnect, ServerError,
         Drop, FinishDisconnect
  <2>8. CASE HandleLost \/ ClaimReconnect \/ LookupNetwork \/ DeclineReconnect \/ ToggleAutoConnect
    BY <1>2, <2>8 DEF HandleLost, ClaimReconnect, LookupNetwork, DeclineReconnect, ToggleAutoConnect
  <2> QED
    BY <1>2, <2>3, <2>4, <2>5, <2>6, <2>7, <2>8 DEF Next, GoroutineStep, Dispatch, vars
<1> QED
  BY <1>1, <1>2

(* A marker without a loss that consumes it would hide the next genuine      *)
(* drop: there never is one, except for a network that is being deleted.     *)
THEOREM MarkerIsConsumed == SafetySpec => []NoLeakedMarker
<1>1. Init => NoLeakedMarker
  BY DEF Init, NoLeakedMarker
<1>2. TypeInv /\ HandsInv /\ NoLeakedMarker /\ [Next]_vars => NoLeakedMarker'
  <2> SUFFICES ASSUME TypeInv, HandsInv, NoLeakedMarker, [Next]_vars, intentional', ~Deleting'
               PROVE  ToCome'
    BY DEF NoLeakedMarker, ToCome
  <2> USE DEF TypeInv, app, threads, clients, delivery
  <2>1. intentional => ToCome
    BY DeletingStays DEF NoLeakedMarker, ToCome
  <2>2. ASSUME NEW c \in Clients, ClientStep(c) PROVE ToCome'
    <3>1. intentional' = intentional
      BY <2>2 DEF ClientStep, Registers, Refused, RefusedLate, Advertises, OnConnect, ServerError,
           Drop, FinishDisconnect
    <3> QED
      BY <2>1, <2>2, <3>1, ClientKeepsToCome DEF HandsInv
  <2>3. ASSUME NEW g \in Goroutines, Disconnect(g) PROVE ToCome'
    <3>1. UNCHANGED <<link, events>>
      BY <2>3 DEF Disconnect
    <3>2. intentional \/ (registered \in Clients /\ connected[registered])
      BY <2>3 DEF Disconnect
    <3>3. ToCome
      BY <2>1, <3>2 DEF HandsInv, UpIsLive, ToCome, LossToCome
    <3> QED
      BY <3>1, <3>3, QueuedLossStays
  <2>4. ASSUME NEW g \in Goroutines, Unregister(g) PROVE FALSE
    BY <2>4 DEF Unregister, Deleting, ThreadsOK, OnTrack, Connecting, Stopping, Attempting, Tasks
  <2>5. ASSUME NEW g \in Goroutines, NEW c \in Clients, Dial(g, c) PROVE ToCome'
    <3>1. intentional /\ events' = events /\ \A d \in Clients : link[d] # "unused" => link'[d] = link[d]
      BY <2>5 DEF Dial, Unused, ClientsOK
    <3> QED
      BY <2>1, <3>1 DEF ToCome, LossToCome
  <2>6. ASSUME NEW g \in Goroutines, GoroutineStep(g) \/ Begin(g) \/ StartReconnect(g),
               ~Disconnect(g), ~Unregister(g), ~(\E c \in Clients : Dial(g, c))
        PROVE  ToCome'
    <3>1. UNCHANGED <<link, events, intentional>>
      BY <2>6 DEF GoroutineStep, Begin, StartReconnect, ConnectStep, CheckRow, Build, Claim,
         QuitStale, Settle, ConnectReturns, ConnectTimesOut, GiveUp, Store, TeardownStep,
         Quit, Unmap, DeleteRow, Attempt, StartUpgrade, Finish, SignalQuit
    <3> QED
      BY <2>1, <3>1, QueuedLossStays
  <2>7. ASSUME NEW g \in Goroutines, HandleSTS(g) PROVE ToCome'
    BY <2>1, <2>7, QueuedLossStays DEF HandleSTS
  <2>8. CASE HandleLost
    BY <2>8 DEF HandleLost
  <2>9. CASE ClaimReconnect \/ LookupNetwork \/ DeclineReconnect \/ ToggleAutoConnect \/ UNCHANGED vars
    <3>1. UNCHANGED <<link, events, intentional>>
      BY <2>9 DEF ClaimReconnect, LookupNetwork, DeclineReconnect, ToggleAutoConnect, SignalQuit, vars
    <3> QED
      BY <2>1, <3>1, QueuedLossStays
  <2> QED
    BY <2>2, <2>3, <2>4, <2>5, <2>6, <2>7, <2>8, <2>9 DEF Next, Dispatch
<1> QED
  BY <1>1, <1>2, TypeInvariant, HandsInvariant, PTL DEF SafetySpec
=============================================================================
