------------------------- MODULE ConnectionLifecycle -------------------------
(***************************************************************************)
(* The life of one saved network (app_connection.go): the goroutines that  *)
(* connect, reconnect, upgrade, disconnect and delete it, the event bus    *)
(* handler that reacts to a lost connection, and the IRC client objects    *)
(* (internal/irc/client.go) they pass to each other.                       *)
(*                                                                         *)
(* A step is a critical section of App.mu, of a client's mutex, one        *)
(* storage call, or a wait that ends.  Waits are not timed: a dial may     *)
(* take any time, and the 30 s limit of connectNetwork may end any dial.   *)
(* The one place where the program relies on time is TeardownIsFaster.     *)
(*                                                                         *)
(* A client object is used for one session only.  That a dropped library   *)
(* connection does not dial again is taken from onDisconnect and           *)
(* signalQuit, which set the library's quit flag before its Loop looks.    *)
(***************************************************************************)
EXTENDS Naturals, Sequences, FiniteSets

CONSTANTS
    Goroutines,        \* goroutines that run App methods on this network
    Clients,           \* IRCClient objects; bound: dials in a behaviour
    NoClient,
    MaxAttempts,       \* maxAttempts of reconnectWithBackoff
    RetryAuthFailures  \* the setting reconnect_on_auth_failure is "true"

ASSUME NoClientAssumption == NoClient \notin Clients
ASSUME MaxAttemptsAssumption == MaxAttempts \in Nat \ {0}
ASSUME RetryAuthFailuresAssumption == RetryAuthFailures \in BOOLEAN

VARIABLES
    \* App, under App.mu
    registered,    \* ircClients: the network's client
    connecting,    \* connectingNetworks: a connect attempt is in flight
    reconnecting,  \* reconnectingNetworks
    intentional,   \* intentionalDisconnect
    upgrading,     \* stsUpgrading
    enforceTLS,    \* stsUpgrades or a stored policy: the next dial uses TLS
    \* storage
    row,           \* the network's row: auto_connect on or off, or no row
    \* goroutines
    task,          \* the App method a goroutine runs
    pc,            \* where it stands
    held,          \* the client it has in hand
    attempts,      \* attempt of reconnectWithBackoff
    \* IRCClient objects
    link,          \* the library connection and its callback queue
    connected, abandoned, authFailed,
    transport,     \* plain, plain with STS advertised, or tls
    \* the dispatcher and what it has to deliver, as far as this network goes
    events,        \* EventConnectionLost and EventSTSPolicy, oldest first
    handler,       \* where handleConnectionLost stands
    wanted,        \* network.AutoConnect as handleConnectionLost read it
    subject        \* the client whose loss is being handled

app      == <<registered, connecting, reconnecting, intentional, upgrading, enforceTLS>>
threads  == <<task, pc, held, attempts>>
clients  == <<link, connected, abandoned, authFailed, transport>>
delivery == <<events, handler, wanted, subject>>
vars     == <<app, row, threads, clients, delivery>>

Tasks == {"none", "connect", "reconnect", "upgrade", "disconnect", "delete"}

(* Places inside connectNetwork where the in-progress entry is held. *)
Attempting == {"stale", "settle", "first", "next", "dial", "store"}

(* The library connection of a client.  greeting: registered with the server, *)
(* the connect callback still queued; cut: dropped before that callback ran;  *)
(* draining: dropped, the disconnect callback still queued; silent: nothing   *)
(* more will come from it.                                                    *)
Links == {"unused", "dialing", "greeting", "up", "cut", "draining", "silent"}

Live(c) == c # NoClient /\ connected[c]
Unused  == {c \in Clients : link[c] = "unused"}

Init ==
    /\ registered = NoClient
    /\ connecting = FALSE /\ reconnecting = FALSE
    /\ intentional = FALSE /\ upgrading = FALSE /\ enforceTLS = FALSE
    /\ row \in {"on", "off"}
    /\ task = [g \in Goroutines |-> "none"]
    /\ pc = [g \in Goroutines |-> "idle"]
    /\ held = [g \in Goroutines |-> NoClient]
    /\ attempts = [g \in Goroutines |-> 0]
    /\ link = [c \in Clients |-> "unused"]
    /\ connected = [c \in Clients |-> FALSE]
    /\ abandoned = [c \in Clients |-> FALSE]
    /\ authFailed = [c \in Clients |-> FALSE]
    /\ transport = [c \in Clients |-> "plain"]
    /\ events = <<>>
    /\ handler = "idle" /\ wanted = FALSE /\ subject = NoClient

------------------------------------------------------------------------------
(* The client: its library connection, and its callbacks on their worker. *)

(* signalQuit: never waits, and the mark it leaves is never taken back. *)
SignalQuit(c) ==
    /\ connected' = [connected EXCEPT ![c] = FALSE]
    /\ abandoned' = [abandoned EXCEPT ![c] = TRUE]
    /\ UNCHANGED <<link, authFailed, transport>>

Registers(c) ==
    /\ link[c] = "dialing"
    /\ link' = [link EXCEPT ![c] = "greeting"]
    /\ UNCHANGED <<app, row, threads, connected, abandoned, authFailed, transport, delivery>>

(* A failed dial or handshake; with SASL it may be a credential failure. *)
Refused(c, credentials) ==
    /\ link[c] = "dialing"
    /\ link' = [link EXCEPT ![c] = "silent"]
    /\ authFailed' = [authFailed EXCEPT ![c] = credentials]
    /\ UNCHANGED <<app, row, threads, connected, abandoned, transport, delivery>>

(* A server without SASL that registers the client all the same: the          *)
(* handshake fails, yet readLoop reports the loss of a registered connection. *)
RefusedLate(c) ==
    /\ link[c] = "greeting"
    /\ link' = [link EXCEPT ![c] = "cut"]
    /\ abandoned' = [abandoned EXCEPT ![c] = TRUE]
    /\ authFailed' = [authFailed EXCEPT ![c] = TRUE]
    /\ UNCHANGED <<app, row, threads, connected, transport, delivery>>

(* An sts capability in CAP LS, over plaintext: it comes before registration. *)
Advertises(c) ==
    /\ link[c] \in {"dialing", "greeting"}
    /\ transport[c] = "plain"
    /\ transport' = [transport EXCEPT ![c] = "advertised"]
    /\ events' = Append(events, <<"sts", c>>)
    /\ UNCHANGED <<app, row, threads, link, connected, abandoned, authFailed,
                   handler, wanted, subject>>

(* mutant: no ghost guard, an abandoned client marks itself connected *)
OnConnectUnguarded(c) ==
    /\ link[c] = "greeting"
    /\ link' = [link EXCEPT ![c] = "up"]
    /\ connected' = [connected EXCEPT ![c] = TRUE]
    /\ UNCHANGED <<app, row, threads, abandoned, authFailed, transport, delivery>>

OnConnect(c) ==
    /\ link[c] \in {"greeting", "cut"}
    /\ link' = [link EXCEPT ![c] = IF link[c] = "greeting" THEN "up" ELSE "draining"]
    /\ connected' = [connected EXCEPT ![c] = ~abandoned[c]]
    /\ UNCHANGED <<app, row, threads, abandoned, authFailed, transport, delivery>>

(* handleServerError: the socket stays open until the server closes it. *)
ServerError(c) ==
    /\ link[c] = "up"
    /\ ~abandoned[c]
    /\ SignalQuit(c)
    /\ UNCHANGED <<app, row, threads, delivery>>

(* onDisconnect: the socket is gone, be it the server, the network, an      *)
(* answered QUIT or ForceReconnect after a wake.                            *)
Drop(c) ==
    /\ link[c] \in {"greeting", "up"}
    /\ link' = [link EXCEPT ![c] = IF link[c] = "up" THEN "draining" ELSE "cut"]
    /\ connected' = [connected EXCEPT ![c] = FALSE]
    /\ abandoned' = [abandoned EXCEPT ![c] = TRUE]
    /\ UNCHANGED <<app, row, threads, authFailed, transport, delivery>>

FinishDisconnect(c) ==
    /\ link[c] = "draining"
    /\ link' = [link EXCEPT ![c] = "silent"]
    /\ events' = Append(events, <<"lost", c>>)
    /\ UNCHANGED <<app, row, threads, connected, abandoned, authFailed, transport,
                   handler, wanted, subject>>

ClientStep(c) ==
    \/ Registers(c)
    \/ \E credentials \in BOOLEAN : Refused(c, credentials)
    \/ RefusedLate(c)
    \/ Advertises(c)
    \/ OnConnect(c)
    \/ ServerError(c)
    \/ Drop(c)
    \/ FinishDisconnect(c)

------------------------------------------------------------------------------
(* Goroutines.  Begin is a call from the frontend, from autoConnect or from   *)
(* a deep link; Spawn is a go statement.                                      *)

Goto(g, place) == pc' = [pc EXCEPT ![g] = place]

Enter(g, name, place) ==
    /\ task[g] = "none"
    /\ task' = [task EXCEPT ![g] = name]
    /\ Goto(g, place)
    /\ held' = [held EXCEPT ![g] = NoClient]
    /\ attempts' = [attempts EXCEPT ![g] = 0]

Exit(g) ==
    /\ task' = [task EXCEPT ![g] = "none"]
    /\ Goto(g, "idle")
    /\ held' = [held EXCEPT ![g] = NoClient]
    /\ attempts' = [attempts EXCEPT ![g] = 0]

Begin(g) ==
    /\ \/ row # "gone" /\ Enter(g, "connect", "build")
       \/ Enter(g, "disconnect", "disconnect")
       \/ row # "gone" /\ Enter(g, "delete", "unregister")
    /\ UNCHANGED <<app, row, clients, delivery>>

(* ToggleNetworkAutoConnect, SaveNetwork *)
ToggleAutoConnect ==
    /\ row # "gone"
    /\ row' = IF row = "on" THEN "off" ELSE "on"
    /\ UNCHANGED <<app, threads, clients, delivery>>

------------------------------------------------------------------------------
(* connectNetwork *)

(* What the caller does when connectNetwork returns. *)
Return(g, ok) ==
    \/ /\ task[g] = "connect"
       /\ Exit(g)
    \/ /\ task[g] = "upgrade"
       /\ Goto(g, "finish")
       /\ UNCHANGED <<task, held, attempts>>
    \/ /\ task[g] = "reconnect"
       /\ Goto(g, IF ok \/ attempts[g] = MaxAttempts THEN "finish" ELSE "attempt")
       /\ UNCHANGED <<task, held, attempts>>

(* A reconnect looks for the row first. *)
CheckRow(g) ==
    /\ pc[g] = "row"
    /\ IF row = "gone"
         THEN Return(g, FALSE)
         ELSE Goto(g, "build") /\ UNCHANGED <<task, held, attempts>>
    /\ UNCHANGED <<app, row, clients, delivery>>

(* buildNetworkFromConfig creates the row when it is gone, under a new id:    *)
(* from there on the call is about a network this module does not follow.     *)
Build(g) ==
    /\ pc[g] = "build"
    /\ IF row = "gone"
         THEN Return(g, FALSE)
         ELSE Goto(g, "claim") /\ UNCHANGED <<task, held, attempts>>
    /\ UNCHANGED <<app, row, clients, delivery>>

(* mutant: no check for an attempt in flight *)
ClaimAnyway(g) ==
    /\ pc[g] = "claim"
    /\ IF Live(registered)
         THEN Return(g, FALSE) /\ UNCHANGED <<registered, connecting>>
         ELSE /\ connecting' = TRUE
              /\ held' = [held EXCEPT ![g] = registered]
              /\ registered' = NoClient
              /\ Goto(g, "stale")
              /\ UNCHANGED <<task, attempts>>
    /\ UNCHANGED <<reconnecting, intentional, upgrading, enforceTLS, row, clients, delivery>>

Claim(g) ==
    /\ pc[g] = "claim"
    /\ IF connecting \/ Live(registered)
         THEN Return(g, FALSE) /\ UNCHANGED <<registered, connecting>>
         ELSE /\ connecting' = TRUE
              /\ held' = [held EXCEPT ![g] = registered]
              /\ registered' = NoClient
              /\ Goto(g, "stale")
              /\ UNCHANGED <<task, attempts>>
    /\ UNCHANGED <<reconnecting, intentional, upgrading, enforceTLS, row, clients, delivery>>

QuitStale(g) ==
    /\ pc[g] = "stale"
    /\ IF held[g] = NoClient THEN UNCHANGED clients ELSE SignalQuit(held[g])
    /\ Goto(g, "settle")
    /\ UNCHANGED <<app, row, task, held, attempts, delivery>>

(* After the bounded wait for the stale Loop and ConnectionCleanupDelay. *)
Settle(g) ==
    /\ pc[g] = "settle"
    /\ IF Live(registered)
         THEN connecting' = FALSE /\ Return(g, FALSE)
         ELSE Goto(g, "first") /\ UNCHANGED <<connecting, task, held, attempts>>
    /\ UNCHANGED <<registered, reconnecting, intentional, upgrading, enforceTLS,
                   row, clients, delivery>>

(* The next server of the list, with a client object of its own. *)
Dial(g, c) ==
    /\ pc[g] \in {"first", "next"}
    /\ c \in Unused
    /\ link' = [link EXCEPT ![c] = "dialing"]
    /\ transport' = [transport EXCEPT ![c] = IF enforceTLS THEN "tls" ELSE "plain"]
    /\ held' = [held EXCEPT ![g] = c]
    /\ Goto(g, "dial")
    /\ UNCHANGED <<app, row, task, attempts, connected, abandoned, authFailed, delivery>>

(* IRCClient.Connect returns once the connect callback has run. *)
Applied(c) == link[c] \in {"up", "draining", "silent"}

ConnectReturns(g) ==
    /\ pc[g] = "dial"
    /\ Applied(held[g])
    /\ Goto(g, IF connected[held[g]] /\ ~abandoned[held[g]] THEN "store" ELSE "next")
    /\ UNCHANGED <<app, row, task, held, attempts, clients, delivery>>

(* mutant: the client whose Connect timed out is dropped without a quit *)
ConnectTimesOutSilently(g) ==
    /\ pc[g] = "dial"
    /\ Goto(g, "next")
    /\ UNCHANGED <<app, row, task, held, attempts, clients, delivery>>

ConnectTimesOut(g) ==
    /\ pc[g] = "dial"
    /\ SignalQuit(held[g])
    /\ Goto(g, "next")
    /\ UNCHANGED <<app, row, task, held, attempts, delivery>>

(* All servers failed.  Without an unused client the bound ends the attempt. *)
GiveUp(g) ==
    /\ \/ pc[g] = "next"
       \/ pc[g] = "first" /\ Unused = {}
    /\ connecting' = FALSE
    /\ Return(g, FALSE)
    /\ UNCHANGED <<registered, reconnecting, intentional, upgrading, enforceTLS,
                   row, clients, delivery>>

(* Timing: DisconnectNetwork signals quit as soon as it has the lock, and     *)
(* removes the map entry at the latest ConnectionTeardownTimeout after that.  *)
(* A connect that finds the client being torn down starts later, waits for    *)
(* the same Loop with the same limit, then sleeps ConnectionCleanupDelay and  *)
(* dials.  So its client is not in the map yet when the entry is removed.     *)
TeardownIsFaster == \A g \in Goroutines : pc[g] \notin {"quit", "unmap"}

(* If another client were in the map, the new one would be disconnected; that *)
(* no run takes this branch is what OneAttempt says.                          *)
Store(g) ==
    /\ pc[g] = "store"
    /\ TeardownIsFaster
    /\ connecting' = FALSE
    /\ IF Live(registered)
         THEN /\ SignalQuit(held[g])
              /\ Return(g, FALSE)
              /\ UNCHANGED <<registered, reconnecting>>
         ELSE /\ registered' = held[g]
              /\ reconnecting' = FALSE
              /\ Return(g, TRUE)
              /\ UNCHANGED clients
    /\ UNCHANGED <<intentional, upgrading, enforceTLS, row, delivery>>

ConnectStep(g) ==
    \/ CheckRow(g) \/ Build(g) \/ Claim(g) \/ QuitStale(g) \/ Settle(g)
    \/ \E c \in Clients : Dial(g, c)
    \/ ConnectReturns(g) \/ ConnectTimesOut(g) \/ GiveUp(g) \/ Store(g)

------------------------------------------------------------------------------
(* DisconnectNetwork, by the user or by upgradeToTLS *)

AfterDisconnect(g) ==
    IF task[g] = "upgrade"
      THEN Goto(g, "row") /\ UNCHANGED <<task, held, attempts>>
      ELSE Exit(g)

(* mutant: the marker is set for a client that is already dead, too *)
DisconnectMarksDead(g) ==
    /\ pc[g] = "disconnect"
    /\ IF registered = NoClient
         THEN AfterDisconnect(g) /\ UNCHANGED intentional
         ELSE /\ intentional' = TRUE
              /\ held' = [held EXCEPT ![g] = registered]
              /\ Goto(g, "quit")
              /\ UNCHANGED <<task, attempts>>
    /\ UNCHANGED <<registered, connecting, reconnecting, upgrading, enforceTLS,
                   row, clients, delivery>>

Disconnect(g) ==
    /\ pc[g] = "disconnect"
    /\ IF registered = NoClient
         THEN AfterDisconnect(g) /\ UNCHANGED intentional
         ELSE /\ intentional' = (intentional \/ connected[registered])
              /\ held' = [held EXCEPT ![g] = registered]
              /\ Goto(g, "quit")
              /\ UNCHANGED <<task, attempts>>
    /\ UNCHANGED <<registered, connecting, reconnecting, upgrading, enforceTLS,
                   row, clients, delivery>>

Quit(g) ==
    /\ pc[g] \in {"quit", "deleteQuit"}
    /\ SignalQuit(held[g])
    /\ Goto(g, IF pc[g] = "quit" THEN "unmap" ELSE "deleteRow")
    /\ UNCHANGED <<app, row, task, held, attempts, delivery>>

(* After the bounded wait: the entry goes, whatever client it holds. *)
Unmap(g) ==
    /\ pc[g] = "unmap"
    /\ registered' = NoClient
    /\ AfterDisconnect(g)
    /\ UNCHANGED <<connecting, reconnecting, intentional, upgrading, enforceTLS,
                   row, clients, delivery>>

(* DeleteNetwork *)
Unregister(g) ==
    /\ pc[g] = "unregister"
    /\ held' = [held EXCEPT ![g] = registered]
    /\ registered' = NoClient
    /\ intentional' = (intentional \/ registered # NoClient)
    /\ Goto(g, IF registered = NoClient THEN "deleteRow" ELSE "deleteQuit")
    /\ UNCHANGED <<connecting, reconnecting, upgrading, enforceTLS, row,
                   task, attempts, clients, delivery>>

DeleteRow(g) ==
    /\ pc[g] = "deleteRow"
    /\ row' = "gone"
    /\ Exit(g)
    /\ UNCHANGED <<app, clients, delivery>>

TeardownStep(g) == Disconnect(g) \/ Quit(g) \/ Unmap(g) \/ Unregister(g) \/ DeleteRow(g)

------------------------------------------------------------------------------
(* reconnectWithBackoff and upgradeToTLS *)

(* The row is read, then the map; nothing between the two depends on either. *)
Attempt(g) ==
    /\ pc[g] = "attempt"
    /\ IF row # "on" \/ Live(registered)
         THEN Goto(g, "finish") /\ UNCHANGED attempts
         ELSE Goto(g, "row") /\ attempts' = [attempts EXCEPT ![g] = @ + 1]
    /\ UNCHANGED <<app, row, task, held, clients, delivery>>

StartUpgrade(g) ==
    /\ task[g] = "upgrade"
    /\ pc[g] = "idle"
    /\ upgrading' = TRUE
    /\ Goto(g, IF row = "gone" THEN "finish" ELSE "disconnect")
    /\ UNCHANGED <<registered, connecting, reconnecting, intentional, enforceTLS,
                   row, task, held, attempts, clients, delivery>>

(* mutant: a reconnect loop that gives up does not clear its flag *)
FinishUpgradeOnly(g) ==
    /\ pc[g] = "finish"
    /\ upgrading' = IF task[g] = "upgrade" THEN FALSE ELSE upgrading
    /\ Exit(g)
    /\ UNCHANGED <<registered, connecting, reconnecting, intentional, enforceTLS,
                   row, clients, delivery>>

(* The deferred functions. *)
Finish(g) ==
    /\ pc[g] = "finish"
    /\ IF task[g] = "upgrade"
         THEN upgrading' = FALSE /\ UNCHANGED reconnecting
         ELSE reconnecting' = FALSE /\ UNCHANGED upgrading
    /\ Exit(g)
    /\ UNCHANGED <<registered, connecting, intentional, enforceTLS,
                   row, clients, delivery>>

GoroutineStep(g) ==
    ConnectStep(g) \/ TeardownStep(g) \/ Attempt(g) \/ StartUpgrade(g) \/ Finish(g)

------------------------------------------------------------------------------
(* The dispatcher: one event at a time. *)

(* handleSTSPolicy, over plaintext *)
HandleSTS(g) ==
    /\ handler = "idle"
    /\ events # <<>>
    /\ Head(events)[1] = "sts"
    /\ events' = Tail(events)
    /\ enforceTLS' = TRUE
    /\ Enter(g, "upgrade", "idle")
    /\ UNCHANGED <<registered, connecting, reconnecting, intentional, upgrading,
                   row, clients, handler, wanted, subject>>

(* handleConnectionLost: both markers are read, and one consumed. *)
HandleLost ==
    /\ handler = "idle"
    /\ events # <<>>
    /\ Head(events)[1] = "lost"
    /\ events' = Tail(events)
    /\ intentional' = FALSE
    /\ IF upgrading \/ intentional
         THEN UNCHANGED <<handler, subject>>
         ELSE handler' = "claim" /\ subject' = Head(events)[2]
    /\ UNCHANGED <<registered, connecting, reconnecting, upgrading, enforceTLS,
                   row, threads, clients, wanted>>

HandlerDone ==
    /\ handler' = "idle"
    /\ wanted' = FALSE
    /\ subject' = NoClient

ClaimReconnect ==
    /\ handler = "claim"
    /\ IF reconnecting \/ Live(registered)
         THEN HandlerDone /\ UNCHANGED reconnecting
         ELSE /\ reconnecting' = TRUE
              /\ handler' = "lookup"
              /\ UNCHANGED <<wanted, subject>>
    /\ UNCHANGED <<registered, connecting, intentional, upgrading, enforceTLS,
                   row, threads, clients, events>>

LookupNetwork ==
    /\ handler = "lookup"
    /\ IF row = "gone"
         THEN reconnecting' = FALSE /\ HandlerDone
         ELSE handler' = "decide" /\ wanted' = (row = "on") /\ UNCHANGED <<reconnecting, subject>>
    /\ UNCHANGED <<registered, connecting, intentional, upgrading, enforceTLS,
                   row, threads, clients, events>>

AuthBlocked == registered # NoClient /\ authFailed[registered] /\ ~RetryAuthFailures

(* Auto-connect is off: the client in the map must not come back by itself.  *)
(* The map is read and that client told to quit in one step; a client that   *)
(* replaces it in between is not touched.                                    *)
DeclineReconnect ==
    /\ handler = "decide"
    /\ AuthBlocked \/ ~wanted
    /\ IF AuthBlocked \/ registered = NoClient THEN UNCHANGED clients ELSE SignalQuit(registered)
    /\ reconnecting' = FALSE
    /\ HandlerDone
    /\ UNCHANGED <<registered, connecting, intentional, upgrading, enforceTLS,
                   row, threads, events>>

StartReconnect(g) ==
    /\ handler = "decide"
    /\ wanted
    /\ ~AuthBlocked
    /\ Enter(g, "reconnect", "attempt")
    /\ HandlerDone
    /\ UNCHANGED <<app, row, clients, events>>

Dispatch ==
    \/ HandleLost \/ ClaimReconnect \/ LookupNetwork \/ DeclineReconnect
    \/ \E g \in Goroutines : HandleSTS(g) \/ StartReconnect(g)

Next ==
    \/ \E c \in Clients : ClientStep(c)
    \/ \E g \in Goroutines : Begin(g) \/ GoroutineStep(g)
    \/ ToggleAutoConnect
    \/ Dispatch

SafetySpec == Init /\ [][Next]_vars

------------------------------------------------------------------------------
(* Properties *)

(* The comments in connectNetwork ask for one attempt in flight, and for an   *)
(* entry that "can never get stuck": the in-progress entry exists exactly     *)
(* while one goroutine is inside an attempt, and while it is, nobody else     *)
(* puts a client into the map.                                                *)
OneAttempt ==
    LET inside == {g \in Goroutines : pc[g] \in Attempting}
    IN  /\ connecting <=> inside # {}
        /\ \A g, h \in inside : g = h
        /\ connecting => registered = NoClient

(* No ghost sessions: of two clients that are both connected, one is being    *)
(* torn down by a goroutine that is about to signal quit.  Timed-out dials    *)
(* that complete late, dropped clients and replaced clients never count.      *)
BeingTornDown(c) ==
    \E g \in Goroutines : held[g] = c /\ pc[g] \in {"stale", "quit", "deleteQuit"}

OneSession ==
    \A c, d \in Clients :
        connected[c] /\ connected[d] => c = d \/ BeingTornDown(c) \/ BeingTornDown(d)

(* A connected client is one the App still knows: it is in the map, in the    *)
(* hands of the goroutine that dialled it, or being torn down.                *)
NoOrphan ==
    \A c \in Clients : connected[c] =>
        \/ registered = c
        \/ \E g \in Goroutines : held[g] = c /\ pc[g] \in {"dial", "store"}
        \/ BeingTornDown(c)

(* The reconnecting flag makes handleConnectionLost ignore every later loss,  *)
(* so a flag nobody will clear leaves the network down for good.  While it is *)
(* set, the handler or a reconnect goroutine is on its way to clear it,       *)
(* although Store and a goroutine that was overtaken clear it too.            *)
ReconnectingIsOwned ==
    reconnecting =>
        \/ handler \in {"lookup", "decide"}
        \/ \E g \in Goroutines : task[g] = "reconnect"

(* A leaked marker would make a later genuine loss look intentional (the      *)
(* comment in DisconnectNetwork).  It is never left behind: a client whose    *)
(* loss has not been handled yet is still there to consume it, unless the     *)
(* network is being deleted.                                                  *)
LossToCome(c) ==
    \/ link[c] \in {"greeting", "up", "cut", "draining"}
    \/ \E i \in DOMAIN events : events[i] = <<"lost", c>>

Deleting == row = "gone" \/ \E g \in Goroutines : task[g] = "delete"

NoLeakedMarker ==
    intentional => Deleting \/ \E c \in Clients : LossToCome(c)
==============================================================================
