------------------------------ MODULE IrcSession ------------------------------
(***************************************************************************)
(* The session of one network: what internal/irc/client.go makes of the    *)
(* server's lines, and the rows of internal/storage it keeps of them.      *)
(*                                                                         *)
(* Every connection has its own IRCClient with its own callback worker,    *)
(* which handles the lines of that connection in order; all of them share  *)
(* the rows.  A step is one callback, one call of the frontend up to the   *)
(* line it sends, or one step of the auto-join and the automatic request   *)
(* workers.  A queue stands for the lines on the wire and in the           *)
(* dispatcher: the read loop only passes them on.                          *)
(*                                                                         *)
(* The server is external.  It answers a request when it is sent, the      *)
(* answer waits in the queue.  Others may hold our nickname: a collision,  *)
(* or a ghost of a connection that dropped.                                *)
(***************************************************************************)
EXTENDS Integers, Sequences, FiniteSets

CONSTANTS
    Channels,
    Me, Alt,         \* the preferred nickname and the library's fallback
    Others,
    Key, Keyed,      \* the channel key, and the channels that ask for it
    None, Nothing,   \* no value; no entry in pendingJoinKeys
    Overlap,         \* a connect by the user does not wait for the old client's worker
    MaxSessions, MaxMoves, MaxQueue \* bounds: connections; moves of the user, the
                                    \* library and the server; lines in a queue

Nicks    == {Me, Alt} \union Others
Keys     == {Key, None}
Statuses == {"out", "plain", "op"}

ASSUME NamesAssumption == Me # Alt /\ {Me, Alt} \intersect Others = {} /\ None \notin Nicks
ASSUME KeysAssumption ==
    /\ Key \notin {None, Nothing} /\ None # Nothing
    /\ Keyed \subseteq Channels
ASSUME BoundsAssumption ==
    /\ Overlap \in BOOLEAN
    /\ MaxSessions \in Nat \ {0} /\ MaxMoves \in Nat /\ MaxQueue \in Nat

VARIABLES
    client,     \* the IRCClient of each connection
    session,    \* the latest of them, 0 before the first
    row,        \* the channels table
    roster,     \* the channel_users table
    request,    \* a call of the frontend between its line and its bookkeeping
    srvNick, srvReady, members, \* the server: our nick, registered, who is where
    noImplicitNames, \* it grants the capability of that name
    inherited,  \* channels whose is_open is still that of an earlier session
    byUser,     \* channels whose is_open the user has set since
    overlapped, \* this session began before the lines of an older one were handled
    moves

storage == <<row, roster>>
server  == <<srvNick, srvReady, members, noImplicitNames>>
ghosts  == <<inherited, byUser, overlapped>>
vars    == <<client, session, storage, request, server, ghosts, moves>>

Sessions == 1..MaxSessions
Calls    == [kind : {"key", "nick", "manual"}, by : Sessions, chan : Channels \union {None},
             arg : Nicks \union Keys]

(* No value is no call: a value of its own, as "None" is for every other type. *)
ASSUME CallsAssumption == None \notin Calls

Nobody   == [n \in Nicks |-> "out"]

(* phase: "quit" is abandoned with the socket still open, "off" is dropped.    *)
(* pass: the one auto-join of a connection.                                    *)
NewClient ==
    [phase |-> "none", queue |-> <<>>, nick |-> None, manual |-> None,
     names |-> {}, keys |-> [c \in Channels |-> Nothing], auto |-> <<>>, rejoin |-> FALSE,
     timer |-> FALSE, pass |-> "armed", todo |-> {}]

NoRow == [exists |-> FALSE, open |-> FALSE, autoJoin |-> FALSE, key |-> None]

(* A first start finds a channel to join, or none: the other combinations are *)
(* one call of the user away.                                                 *)
RowToJoin == [exists |-> TRUE, open |-> FALSE, autoJoin |-> TRUE, key |-> None]

Init ==
    /\ client = [g \in Sessions |-> NewClient]
    /\ session = 0
    /\ row \in [Channels -> {NoRow, RowToJoin}]
    /\ roster = [c \in Channels |-> Nobody]
    /\ request = None
    /\ srvNick = None /\ srvReady = FALSE
    /\ members = [c \in Channels |-> Nobody]
    /\ noImplicitNames \in BOOLEAN
    /\ inherited = {} /\ byUser = {} /\ overlapped = FALSE
    /\ moves = 0

------------------------------------------------------------------------------
(* The server and its answers *)

Line(kind, c, n, arg) == [kind |-> kind, chan |-> c, nick |-> n, arg |-> arg]

Move     == moves < MaxMoves /\ moves' = moves + 1
Abandoned(g) == client[g].phase \in {"quit", "off"}
Linked   == srvNick # None /\ client[session].phase # "off"
In(c)    == srvNick # None /\ members[c][srvNick] # "out"
Room(q)  == Len(client[session].queue) + Len(q) <= MaxQueue

(* The answer to NAMES: our own entry in one line, the others in the next. *)
Only(mem, ns) == [n \in Nicks |-> IF n \in ns THEN mem[n] ELSE "out"]
NamesReply(c, mem) ==
    LET others == Only(mem, Nicks \ {srvNick})
        lines == <<Line("353", c, None, Only(mem, {srvNick}))>> \o
                 (IF others = Nobody THEN <<>> ELSE <<Line("353", c, None, others)>>)
    IN  (IF mem[srvNick] = "out" THEN <<>> ELSE lines) \o <<Line("366", c, None, None)>>

(* The first one in a channel becomes its operator. *)
MembersWithUs(c) ==
    [members EXCEPT ![c][srvNick] = IF members[c] = Nobody THEN "op" ELSE "plain"]
JoinReply(c) ==
    <<Line("join", c, srvNick, None)>> \o
    (IF noImplicitNames THEN <<>> ELSE NamesReply(c, MembersWithUs(c)[c]))

(* external: JOIN of client g, which goes on as r; a refusal may be followed by *)
(* a ForceJoin of another channel (a forward, 470)                             *)
AnswerJoin(g, r, c, key) ==
    LET Send(q) == Room(q) /\ client' = [client EXCEPT ![g] = [r EXCEPT !.queue = @ \o q]]
    IN  IF In(c) THEN Send(<<>>) /\ UNCHANGED members
        ELSE \/ /\ (c \in Keyed => key = Key)
                /\ Send(JoinReply(c)) /\ members' = MembersWithUs(c)
             \/ Send(<<Line("refused", c, None, None)>>) /\ UNCHANGED members

Tell(q) == Room(q) /\ client' = [client EXCEPT ![session].queue = @ \o q]

Free(n) == n # srvNick /\ \A c \in Channels : members[c][n] = "out"
RenamedIn(mem, old, new) == [mem EXCEPT ![new] = mem[old], ![old] = "out"]

(* external: NICK of ours; the nick may be taken by somebody we do not see *)
AnswerNick(new) ==
    \/ /\ Free(new)
       /\ srvNick' = new
       /\ members' = [c \in Channels |-> RenamedIn(members[c], srvNick, new)]
       /\ Tell(<<Line("nick", None, srvNick, new)>>)
    \/ new # srvNick /\ Tell(<<Line("433", None, new, None)>>) /\ UNCHANGED <<srvNick, members>>
    \/ new = srvNick /\ UNCHANGED <<client, srvNick, members>>

(* external: registration, with the fallback where the preferred nick is taken *)
Register ==
    /\ session # 0 /\ client[session].phase = "registering" /\ srvNick = None
    /\ \/ Free(Me) /\ srvNick' = Me /\ Tell(<<Line("001", None, Me, None)>>)
       \/ Free(Alt) /\ srvNick' = Alt
          /\ Tell(<<Line("433", None, Me, None), Line("001", None, Alt, None)>>)
    /\ UNCHANGED <<session, storage, request, srvReady, members, noImplicitNames, ghosts, moves>>

(* external: the end of the greeting; the library adds its connect callback *)
EndGreeting ==
    /\ srvNick # None /\ ~srvReady
    /\ srvReady' = TRUE
    /\ Tell(<<Line("376", None, None, None), Line("connected", None, None, None)>>)
    /\ UNCHANGED <<session, storage, request, srvNick, members, noImplicitNames, ghosts, moves>>

(* external: the library asks for the preferred nick again *)
AskPreferred ==
    /\ srvReady /\ srvNick # Me /\ Move
    /\ AnswerNick(Me)
    /\ UNCHANGED <<session, storage, request, srvReady, noImplicitNames, ghosts>>

(* external: others come, go, are renamed and change modes; a ghost of ours quits *)
Seen(c, q) == IF In(c) THEN Tell(q) ELSE UNCHANGED client
Shared(n)  == \E c \in Channels : In(c) /\ members[c][n] # "out"

Arrive(c, n) ==
    /\ Move /\ n # srvNick /\ n \in Others /\ members[c][n] = "out"
    /\ members' = [members EXCEPT ![c][n] = "plain"]
    /\ Seen(c, <<Line("join", c, n, None)>>)
    /\ UNCHANGED <<session, storage, request, srvNick, srvReady, noImplicitNames, ghosts>>

Remove(c, n) ==
    /\ Move /\ members[c][n] # "out" /\ (n = srvNick \/ n \in Others)
    /\ members' = [members EXCEPT ![c][n] = "out"]
    /\ \E kind \in {"part", "kick"} : Seen(c, <<Line(kind, c, n, None)>>)
    /\ UNCHANGED <<session, storage, request, srvNick, srvReady, noImplicitNames, ghosts>>

QuitUser(n) ==
    /\ Move /\ n # srvNick /\ ~Free(n)
    /\ members' = [c \in Channels |-> [members[c] EXCEPT ![n] = "out"]]
    /\ IF Shared(n) THEN Tell(<<Line("quit", None, n, None)>>) ELSE UNCHANGED client
    /\ UNCHANGED <<session, storage, request, srvNick, srvReady, noImplicitNames, ghosts>>

RenameUser(n, new) ==
    /\ Move /\ n # srvNick /\ ~Free(n) /\ Free(new)
    /\ members' = [c \in Channels |-> RenamedIn(members[c], n, new)]
    /\ IF Shared(n) THEN Tell(<<Line("nick", None, n, new)>>) ELSE UNCHANGED client
    /\ UNCHANGED <<session, storage, request, srvNick, srvReady, noImplicitNames, ghosts>>

SetMode(c, n) ==
    /\ Move /\ members[c][n] # "out"
    /\ LET mode == IF members[c][n] = "op" THEN "plain" ELSE "op"
       IN  members' = [members EXCEPT ![c][n] = mode] /\ Seen(c, <<Line("mode", c, n, mode)>>)
    /\ UNCHANGED <<session, storage, request, srvNick, srvReady, noImplicitNames, ghosts>>

(* external: an operator or a bouncer puts us into a channel *)
ForceJoin(c) ==
    /\ Move /\ Linked /\ srvReady /\ ~In(c)
    /\ members' = MembersWithUs(c)
    /\ Tell(JoinReply(c))
    /\ UNCHANGED <<session, storage, request, srvNick, srvReady, noImplicitNames, ghosts>>

ServerStep ==
    \/ Register \/ EndGreeting \/ AskPreferred
    \/ \E c \in Channels : ForceJoin(c) \/ \E n \in Nicks : Arrive(c, n) \/ Remove(c, n) \/ SetMode(c, n)
    \/ \E n \in Nicks : QuitUser(n) \/ \E new \in Nicks : RenameUser(n, new)

------------------------------------------------------------------------------
(* Storage: the columns and rows the handlers write *)

Drained(g) == client[g].queue = <<>>
Rows == {c \in Channels : row[c].exists}

UpdateChannelIsOpen(c, open) == row' = [row EXCEPT ![c].open = open /\ row[c].exists]
RemoveChannelUser(c, n) ==
    roster' = IF c \in Rows THEN [roster EXCEPT ![c][n] = "out"] ELSE roster
ClearNetworkChannelUsers == roster' = [c \in Channels |-> Nobody]

(* UPDATE OR REPLACE: the row of the new name, if there is one, goes. *)
UpdateChannelUserNickname(old, new) ==
    roster' = [c \in Channels |->
        IF roster[c][old] = "out" THEN roster[c] ELSE RenamedIn(roster[c], old, new)]

------------------------------------------------------------------------------
(* Connecting and dropping *)

(* A reconnect follows the announcement of the loss, which the old client's *)
(* worker makes last; a connect by the user need not wait for that worker.  *)
Connect(rejoin) ==
    /\ session < MaxSessions
    /\ session # 0 => client[session].phase = "off"
    /\ session # 0 /\ ~(Overlap /\ ~rejoin) => Drained(session)
    /\ rejoin => session # 0
    /\ session' = session + 1
    /\ client' = [client EXCEPT ![session + 1] = [NewClient EXCEPT !.phase = "registering", !.rejoin = rejoin]]
    /\ inherited' = {c \in Channels : row[c].open}
    /\ byUser' = {}
    /\ overlapped' = \E g \in Sessions : ~Drained(g)
    /\ UNCHANGED <<storage, request, server, moves>>

(* signalQuit: by Disconnect, StopReconnect or the server's ERROR *)
SignalQuit ==
    /\ session # 0 /\ client[session].phase \in {"registering", "on"}
    /\ client' = [client EXCEPT ![session].phase = "quit", ![session].auto = <<>>]
    /\ UNCHANGED <<session, storage, request, server, ghosts, moves>>

(* onDisconnect runs when the socket is gone; the server may not notice at once. *)
Drop ==
    /\ session # 0 /\ client[session].phase \in {"registering", "on", "quit"}
    /\ client' = [client EXCEPT ![session] =
          [client[session] EXCEPT !.phase = "off", !.nick = None, !.manual = None, !.auto = <<>>,
               !.queue = Append(@, Line("disconnected", None, None, None))]]
    /\ srvNick' = None /\ srvReady' = FALSE
    /\ \/ UNCHANGED members
       \/ /\ srvNick # None
          /\ members' = [c \in Channels |-> [members[c] EXCEPT ![srvNick] = "out"]]
    /\ UNCHANGED <<session, storage, request, noImplicitNames, ghosts, moves>>

------------------------------------------------------------------------------
(* The callbacks *)

Message(g)       == Head(client[g].queue)
Handles(g, kind) == client[g].queue # <<>> /\ Message(g).kind = kind
Handled(g)       == [client[g] EXCEPT !.queue = Tail(@)]
CurrentNick(g)   == IF client[g].nick = None THEN Me ELSE client[g].nick
IsMe(g, n)       == n = CurrentNick(g)

Settle(c) == inherited' = inherited \ {c} /\ byUser' = byUser \ {c} /\ UNCHANGED overlapped
Quiet == UNCHANGED <<session, request, server, moves>>

HandleWelcome(g) ==
    /\ Handles(g, "001")
    /\ client' = [client EXCEPT ![g] = [Handled(g) EXCEPT !.nick = Message(g).nick, !.timer = TRUE]]
    /\ UNCHANGED <<storage, ghosts>> /\ Quiet

(* triggerAutoJoin: once for a connection.  A timer that is still running finds *)
(* it done and does nothing.                                                    *)
Triggered(r) ==
    IF r.pass = "armed" THEN [r EXCEPT !.pass = "go", !.timer = FALSE] ELSE r

HandleEndOfMotd(g) ==
    /\ Handles(g, "376")
    /\ client' = [client EXCEPT ![g] = Triggered(Handled(g))]
    /\ UNCHANGED <<storage, ghosts>> /\ Quiet

AutoJoinTimer(g) ==
    /\ client[g].timer /\ ~Abandoned(g)
    /\ client' = [client EXCEPT ![g] = Triggered([@ EXCEPT !.timer = FALSE])]
    /\ UNCHANGED <<storage, ghosts>> /\ Quiet

(* onConnect; an abandoned client quits again. *)
OnConnect(g) ==
    /\ Handles(g, "connected")
    /\ IF Abandoned(g)
         THEN client' = [client EXCEPT ![g] = Handled(g)] /\ UNCHANGED roster
         ELSE /\ client' = [client EXCEPT ![g] = [Handled(g) EXCEPT !.phase = "on"]]
              /\ ClearNetworkChannelUsers
    /\ UNCHANGED <<row, ghosts>> /\ Quiet

(* The last callback of a client, which is not used again. *)
FinishDisconnect(g) ==
    /\ Handles(g, "disconnected")
    /\ client' = [client EXCEPT ![g] = [NewClient EXCEPT !.phase = "off"]]
    /\ ClearNetworkChannelUsers
    /\ UNCHANGED <<row, ghosts>> /\ Quiet

(* Our own JOIN opens the channel, stores the pending key and asks for the   *)
(* roster where the server does not send it unasked.                         *)
HandleJoin(g) ==
    LET m == Message(g)
        c == m.chan
        me == IsMe(g, m.nick)
        pending == client[g].keys[c]
    IN  /\ Handles(g, "join")
        /\ row' = [row EXCEPT ![c].exists = TRUE, ![c].open = @ \/ me,
                              ![c].key = IF me /\ pending # Nothing THEN pending ELSE @]
        /\ roster' = [roster EXCEPT ![c][m.nick] = "plain"]
        /\ client' = [client EXCEPT ![g] = [Handled(g) EXCEPT
                          !.keys[c] = IF me THEN Nothing ELSE @,
                          !.auto = IF me /\ noImplicitNames /\ ~Abandoned(g) THEN Append(@, c) ELSE @]]
        /\ IF me THEN Settle(c) ELSE UNCHANGED ghosts
        /\ Quiet

HandlePart(g) ==
    LET m == Message(g) IN
    /\ Handles(g, "part")
    /\ RemoveChannelUser(m.chan, m.nick)
    /\ IF IsMe(g, m.nick) THEN UpdateChannelIsOpen(m.chan, FALSE) /\ Settle(m.chan)
       ELSE UNCHANGED <<row, ghosts>>
    /\ client' = [client EXCEPT ![g] = Handled(g)]
    /\ Quiet

(* mutant: a kick is somebody else's *)
HandleKickOfOthers(g) ==
    LET m == Message(g) IN
    /\ Handles(g, "kick")
    /\ RemoveChannelUser(m.chan, m.nick)
    /\ IF IsMe(g, m.nick) THEN Settle(m.chan) /\ UNCHANGED row ELSE UNCHANGED <<row, ghosts>>
    /\ client' = [client EXCEPT ![g] = Handled(g)]
    /\ Quiet

HandleKick(g) ==
    LET m == Message(g) IN
    /\ Handles(g, "kick")
    /\ RemoveChannelUser(m.chan, m.nick)
    /\ IF IsMe(g, m.nick) THEN UpdateChannelIsOpen(m.chan, FALSE) /\ Settle(m.chan)
       ELSE UNCHANGED <<row, ghosts>>
    /\ client' = [client EXCEPT ![g] = Handled(g)]
    /\ Quiet

HandleQuit(g) ==
    /\ Handles(g, "quit")
    /\ roster' = [c \in Channels |-> [roster[c] EXCEPT ![Message(g).nick] = "out"]]
    /\ client' = [client EXCEPT ![g] = Handled(g)]
    /\ UNCHANGED <<row, ghosts>> /\ Quiet

(* Only somebody the roster knows has modes. *)
HandleMode(g) ==
    LET m == Message(g) IN
    /\ Handles(g, "mode")
    /\ roster' = IF roster[m.chan][m.nick] = "out" THEN roster
                 ELSE [roster EXCEPT ![m.chan][m.nick] = m.arg]
    /\ client' = [client EXCEPT ![g] = Handled(g)]
    /\ UNCHANGED <<row, ghosts>> /\ Quiet

(* mutant: our own change is told from others' by the preferred nick *)
HandleNickByPreferred(g) ==
    LET m == Message(g)
        r == Handled(g)
    IN  /\ Handles(g, "nick")
        /\ UpdateChannelUserNickname(m.nick, m.arg)
        /\ client' = [client EXCEPT ![g] =
              IF m.nick # Me THEN r
              ELSE [r EXCEPT !.nick = m.arg, !.manual = None]]
        /\ UNCHANGED <<row, ghosts>> /\ Quiet

(* A change of ours ends a pending manual change, whichever it was. *)
HandleNick(g) ==
    LET m == Message(g)
        r == Handled(g)
    IN  /\ Handles(g, "nick")
        /\ UpdateChannelUserNickname(m.nick, m.arg)
        /\ client' = [client EXCEPT ![g] =
              IF m.nick # r.nick THEN r
              ELSE [r EXCEPT !.nick = m.arg, !.manual = None]]
        /\ UNCHANGED <<row, ghosts>> /\ Quiet

(* 433: the answer to a manual change, or to the library's own request *)
HandleNickInUse(g) ==
    LET r == Handled(g) IN
    /\ Handles(g, "433")
    /\ client' = [client EXCEPT ![g] =
          IF r.manual = Message(g).nick THEN [r EXCEPT !.manual = None] ELSE r]
    /\ UNCHANGED <<storage, ghosts>> /\ Quiet

(* mutant: every line of a NAMES answer replaces the roster *)
HandleNamesEach(g) ==
    LET m == Message(g) IN
    /\ Handles(g, "353")
    /\ roster' = IF m.chan \in Rows THEN [roster EXCEPT ![m.chan] = m.arg] ELSE roster
    /\ client' = [client EXCEPT ![g] = Handled(g)]
    /\ UNCHANGED <<row, ghosts>> /\ Quiet

(* 353: the first line of an answer clears the roster *)
HandleNames(g) ==
    LET m == Message(g)
        before == IF m.chan \in client[g].names THEN roster[m.chan] ELSE Nobody
    IN  /\ Handles(g, "353")
        /\ roster' = IF m.chan \notin Rows THEN roster
                     ELSE [roster EXCEPT ![m.chan] =
                              [n \in Nicks |-> IF m.arg[n] = "out" THEN before[n] ELSE m.arg[n]]]
        /\ client' = [client EXCEPT ![g] =
              IF m.chan \in Rows THEN [Handled(g) EXCEPT !.names = @ \union {m.chan}] ELSE Handled(g)]
        /\ UNCHANGED <<row, ghosts>> /\ Quiet

HandleEndOfNames(g) ==
    /\ Handles(g, "366")
    /\ client' = [client EXCEPT ![g] = [Handled(g) EXCEPT !.names = @ \ {Message(g).chan}]]
    /\ UNCHANGED <<storage, ghosts>> /\ Quiet

(* handleJoinError (471 to 477), handleForwardedJoin (470): the pending key stays. *)
HandleJoinError(g) ==
    LET c == Message(g).chan IN
    /\ Handles(g, "refused")
    /\ UpdateChannelIsOpen(c, FALSE)
    /\ Settle(c)
    /\ client' = [client EXCEPT ![g] = Handled(g)]
    /\ UNCHANGED roster /\ Quiet

Handle(g) ==
    \/ HandleWelcome(g) \/ HandleEndOfMotd(g) \/ OnConnect(g) \/ FinishDisconnect(g)
    \/ HandleJoin(g) \/ HandlePart(g) \/ HandleKick(g) \/ HandleQuit(g) \/ HandleMode(g)
    \/ HandleNick(g) \/ HandleNickInUse(g) \/ HandleNames(g) \/ HandleEndOfNames(g)
    \/ HandleJoinError(g)

------------------------------------------------------------------------------
(* The workers of a client *)

(* mutant: a reconnect joins what a first connect joins *)
ChannelsToJoinAlways(rejoin) ==
    {[chan |-> c, key |-> row[c].key] : c \in {d \in Rows : row[d].autoJoin}}

(* GetOpenChannels: open, or the roster still has our preferred nick *)
ChannelsToJoin(rejoin) ==
    {[chan |-> c, key |-> row[c].key] : c \in {d \in Rows :
        IF rejoin THEN row[d].open \/ roster[d][Me] # "out" ELSE row[d].autoJoin}}

DoAutoJoin(g) ==
    /\ client[g].pass = "go" /\ ~Abandoned(g)
    /\ client' = [client EXCEPT ![g].pass = "send", ![g].todo = ChannelsToJoin(client[g].rejoin)]
    /\ UNCHANGED <<storage, ghosts>> /\ Quiet

(* Each JOIN takes its turn at the rate limiter; the server reads it once its *)
(* greeting is out.  On an abandoned connection the lines go nowhere.         *)
AutoJoinNext(g) ==
    /\ client[g].pass = "send" /\ ~Abandoned(g)
    /\ \/ /\ client[g].todo = {}
          /\ client' = [client EXCEPT ![g].pass = "done"]
          /\ UNCHANGED members
       \/ \E j \in client[g].todo :
             /\ srvReady
             /\ AnswerJoin(g, [client[g] EXCEPT !.todo = @ \ {j}], j.chan, j.key)
    /\ UNCHANGED <<session, storage, request, srvNick, srvReady, noImplicitNames, ghosts, moves>>

(* The paced worker sends an explicit NAMES. *)
AutomaticRequest(g) ==
    /\ client[g].auto # <<>> /\ srvReady
    /\ LET c == Head(client[g].auto)
           q == NamesReply(c, members[c])
       IN  /\ Room(q)
           /\ client' = [client EXCEPT ![g].auto = Tail(@), ![g].queue = @ \o q]
    /\ UNCHANGED <<storage, ghosts>> /\ Quiet

------------------------------------------------------------------------------
(* Calls of the frontend *)

IsOn == session # 0 /\ client[session].phase = "on"

(* The line goes out first, the key is remembered after. *)
JoinChannelWithKey(c, key) ==
    /\ IsOn /\ request = None /\ Move
    /\ AnswerJoin(session, client[session], c, key)
    /\ request' = [kind |-> "key", by |-> session, chan |-> c, arg |-> key]
    /\ UNCHANGED <<session, storage, srvNick, srvReady, noImplicitNames, ghosts>>

RecordPendingJoinKey ==
    /\ request # None /\ request.kind = "key"
    /\ client' = [client EXCEPT ![request.by].keys[request.chan] = request.arg]
    /\ request' = None
    /\ UNCHANGED <<session, storage, server, ghosts, moves>>

(* mutant: the change is remembered after its line *)
ChangeNickLate(new) ==
    /\ IsOn /\ request = None /\ Move
    /\ AnswerNick(new)
    /\ request' = [kind |-> "manual", by |-> session, chan |-> None, arg |-> new]
    /\ UNCHANGED <<session, storage, srvReady, noImplicitNames, ghosts>>

(* ChangeNick: remembered first *)
ChangeNick(new) ==
    /\ IsOn /\ request = None /\ Move
    /\ client' = [client EXCEPT ![session].manual = new]
    /\ request' = [kind |-> "nick", by |-> session, chan |-> None, arg |-> new]
    /\ UNCHANGED <<session, storage, server, ghosts>>

(* Its line, or back to nothing where the connection is gone by then. *)
SendNick ==
    /\ request # None /\ request.kind \in {"nick", "manual"}
    /\ request' = None
    /\ IF request.kind = "nick" /\ request.by = session /\ IsOn
         THEN AnswerNick(request.arg)
         ELSE /\ client' = [client EXCEPT ![request.by].manual =
                     IF request.kind = "manual" THEN request.arg
                     ELSE IF @ = request.arg THEN None ELSE @]
              /\ UNCHANGED <<srvNick, members>>
    /\ UNCHANGED <<session, storage, srvReady, noImplicitNames, ghosts, moves>>

(* SetChannelOpen, CloseChannel: the pane, not the membership *)
SetChannelOpen(c, open) ==
    /\ c \in Rows /\ Move
    /\ UpdateChannelIsOpen(c, open)
    /\ byUser' = byUser \union {c} /\ inherited' = inherited \ {c}
    /\ UNCHANGED <<client, session, roster, request, server, overlapped>>

(* LeaveChannel looks for the preferred nick in the roster, and only hides the *)
(* pane where it finds none.                                                  *)
LeaveChannel(c) ==
    IF c \in Rows /\ roster[c][Me] # "out"
      THEN /\ IsOn /\ In(c) /\ Move
           /\ members' = [members EXCEPT ![c][srvNick] = "out"]
           /\ Tell(<<Line("part", c, srvNick, None)>>)
           /\ UNCHANGED <<session, storage, request, srvNick, srvReady, noImplicitNames, ghosts>>
      ELSE SetChannelOpen(c, FALSE)

ToggleChannelAutoJoin(c) ==
    /\ c \in Rows /\ Move
    /\ row' = [row EXCEPT ![c].autoJoin = ~@]
    /\ UNCHANGED <<client, session, roster, request, server, ghosts>>

UserStep ==
    \/ SignalQuit \/ RecordPendingJoinKey \/ SendNick
    \/ \E new \in {Me, Alt} : ChangeNick(new)
    \/ \E c \in Channels :
          \/ LeaveChannel(c) \/ ToggleChannelAutoJoin(c)
          \/ \E open \in BOOLEAN : SetChannelOpen(c, open)
          \/ \E key \in Keys : JoinChannelWithKey(c, key)

Next ==
    \/ \E rejoin \in BOOLEAN : Connect(rejoin)
    \/ Drop \/ ServerStep \/ UserStep
    \/ \E g \in Sessions :
          Handle(g) \/ AutoJoinTimer(g) \/ DoAutoJoin(g) \/ AutoJoinNext(g) \/ AutomaticRequest(g)

Spec == Init /\ [][Next]_vars

------------------------------------------------------------------------------
(* The live client has handled every line and no call or request is half done, *)
(* and its lines were never mixed with those of an older client.               *)
Settled ==
    /\ IsOn /\ srvNick # None /\ request = None /\ ~overlapped
    /\ Drained(session) /\ client[session].auto = <<>>

(* With every line handled, the roster of each channel we are in is the server's: *)
(* NAMES answers, joins, parts, kicks, quits, renames and modes add up.           *)
RosterAgrees == Settled => \A c \in Channels : In(c) => roster[c] = members[c]

(* With every line handled the client knows its nick, collisions, regains and     *)
(* renames by others of a ghost included.                                         *)
NickAgrees == Settled => client[session].nick = srvNick

(* A manual nick change is remembered until its answer and no longer, so a failure *)
(* of the library's own retries is never shown as the user's (one that asks for the *)
(* nick already held gets no answer).                                              *)
ManualAnswered == Settled => client[session].manual \in {None, srvNick}

(* With every line handled, a channel is open exactly where we are in it, unless   *)
(* the user has set the pane or the flag is an earlier session's.                  *)
OpenAgrees == Settled => \A c \in Channels \ (inherited \union byUser) : row[c].open = In(c)

(* After the auto-join of a reconnect, every channel that was open has been joined *)
(* again or closed by the server's refusal.                                        *)
RejoinsOpen ==
    Settled /\ client[session].rejoin /\ client[session].pass = "done" => inherited = {}

================================================================================
