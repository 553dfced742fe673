-------------------------------- MODULE ChatLog --------------------------------
(***************************************************************************)
(* How lines of chat get into the message table (internal/irc/client.go):   *)
(* live PRIVMSG, NOTICE, CTCP and QUIT lines, the local copy of what the     *)
(* user sends or its echo, replies to CTCP requests and replayed CHATHISTORY *)
(* batches; with our nick and the echo-message capability changing           *)
(* meanwhile.                                                                *)
(*                                                                          *)
(* The connection is registered, and we share every channel with the peer.  *)
(* The library calls one handler after another; the user's goroutine is in   *)
(* sendMessage at the same time.  Buffering is MessageStore's subject: here  *)
(* a row is stored at once.                                                  *)
(***************************************************************************)
EXTENDS Integers, Sequences, FiniteSets, SequencesExt, BagsExt

CONSTANTS
    Nicks,        \* the nicks we may have
    Preferred,    \* network.Nickname
    Peer,         \* another user
    Server,       \* the server's name as a prefix
    Channels,
    Limit,        \* lines a CHATHISTORY batch has at most
    MaxLines, MaxRequests, MaxChanges  \* bounds: lines, history requests, changes of nick or capability

ASSUME NamesAssumption ==
    /\ Preferred \in Nicks
    /\ Nicks \intersect Channels = {} /\ {Peer, Server, "status"} \intersect (Nicks \union Channels) = {}
ASSUME BoundsAssumption == Limit \in Nat \ {0} /\ MaxLines \in Nat /\ MaxRequests \in Nat /\ MaxChanges \in Nat

Chat  == {"privmsg", "action", "notice"}
Kinds == Chat \union {"ctcp", "ctcpReply", "dcc", "quit"}
Panes == Channels \union Nicks \union {Peer, "status"}

VARIABLES
    line,        \* every line there was: its kind, whether it is ours, its target
    \* the server
    log,         \* the lines it has passed on, with the prefix they had
    nick, echo,  \* what it knows of us: our nick, whether echo-message is on
    tagged,      \* it has message-tags and chathistory
    wire, out,   \* to the client, from the client
    \* the client
    currentNick, echoCap,
    sender,      \* the goroutine of a call that sends
    rows,        \* the messages table
    conv,        \* private_message_conversations: the peers there are rows for
    control,     \* lines handed to the DCC manager
    \* bounds and history
    requests, changes,
    unsteady,    \* lines of ours sent while echo-message changed
    due          \* what must get into the table, in which pane

server  == <<log, nick, echo, tagged>>
client  == <<currentNick, echoCap>>
tables  == <<rows, conv, control>>
bounds  == <<requests, changes>>
vars    == <<line, server, wire, out, client, sender, tables, bounds, unsteady, due>>

Resting == [at |-> "idle", n |-> 0]

(* The panes a line belongs in. *)
PanesOf(l) ==
    CASE l.kind = "quit" -> Channels
      [] l.kind = "ctcpReply" \/ l.from = Server -> {"status"}
      [] l.kind \in {"ctcp", "dcc"} -> {}
      [] l.kind \in Chat /\ l.to \in Channels -> {l.to}
      [] l.kind \in Chat /\ l.to \notin Channels /\ l.from # Server -> {IF l.mine THEN l.to ELSE l.from}

Belongs(n) == PanesOf(line[n])

NewLine(kind, mine, from, to) == [kind |-> kind, mine |-> mine, from |-> from, to |-> to]
Passed(n, from) == [n |-> n, from |-> from]
Says(cmd, entry) == [cmd |-> cmd, entry |-> entry, batch |-> <<>>]
Tells(cmd)       == Says(cmd, Passed(0, nick))

(* The lines of before this session: a channel's, and what we said to the peer. *)
Init ==
    /\ tagged \in BOOLEAN
    /\ \E old \in {<<>>, <<NewLine("privmsg", TRUE, Preferred, Peer)>>} \union
                   {<<NewLine("privmsg", FALSE, Peer, c)>> : c \in Channels} :
          /\ line = old /\ (old # <<>> => tagged)
          /\ log = [n \in DOMAIN old |-> Passed(n, old[n].from)]
    /\ nick \in Nicks /\ currentNick = nick
    /\ echo \in BOOLEAN /\ echoCap = echo
    /\ wire = <<>> /\ out = <<>>
    /\ sender = Resting
    /\ rows = EmptyBag /\ conv = {} /\ control = {}
    /\ requests = 0 /\ changes = 0
    /\ unsteady = {} /\ due = {}

------------------------------------------------------------------------------
(* The server *)

CanSpeak == Len(line) < MaxLines

PeerSpeaks(kind, from, to) ==
    /\ CanSpeak /\ (from = Server => kind = "notice" /\ to = nick)
    /\ (kind = "quit" => to \in Channels) /\ (kind \in {"ctcp", "ctcpReply", "dcc"} => to = nick)
    /\ LET n == Len(line) + 1
           l == NewLine(kind, FALSE, from, to)
       IN  /\ line' = Append(line, l)
           /\ log' = Append(log, Passed(n, from))
           /\ wire' = Append(wire, Says("line", Passed(n, from)))
           /\ due' = due \union {<<n, pane>> : pane \in PanesOf(l)}
    /\ UNCHANGED <<nick, echo, tagged, out, client, sender, tables, bounds, unsteady>>

(* What is for a nick that is ours no more is refused. *)
Reaches(n) == line[n].to \notin Nicks \ {nick}

(* A line to ourselves comes as the echo and once more, if both have one msgid. *)
Copies(n) ==
    LET toUs == line[n].to = nick IN
    IF echo THEN IF toUs /\ tagged THEN 2 ELSE 1 ELSE IF toUs THEN 1 ELSE 0

PassOn ==
    /\ out # <<>> /\ Head(out).cmd = "line" /\ out' = Tail(out)
    /\ LET n == Head(out).entry.n IN
       IF Reaches(n)
         THEN /\ log' = Append(log, Passed(n, nick))
              /\ wire' = wire \o [i \in 1..Copies(n) |-> Says("line", Passed(n, nick))]
              /\ due' = IF Copies(n) > 0 THEN due \union {<<n, pane>> : pane \in Belongs(n)} ELSE due
         ELSE UNCHANGED <<log, wire, due>>
    /\ UNCHANGED <<line, nick, echo, tagged, client, sender, tables, bounds, unsteady>>

(* The history of a channel, or of our conversation with the peer; replies to *)
(* CTCP requests are not kept.                                                 *)
History(target) ==
    SelectSeq(log, LAMBDA e :
        LET l == line[e.n] IN
        /\ l.kind # "ctcpReply" /\ l.from # Server
        /\ IF target \in Channels THEN l.to = target \/ l.kind = "quit"
           ELSE l.to = target \/ (l.from = target /\ l.to \in Nicks))

Latest(seq) == SubSeq(seq, IF Len(seq) > Limit THEN Len(seq) - Limit + 1 ELSE 1, Len(seq))

Replay ==
    /\ out # <<>> /\ Head(out).cmd = "history" /\ out' = Tail(out)
    /\ LET target == Head(out).entry.from
           batch  == Latest(History(target))
       IN  /\ wire' = Append(wire, [cmd |-> "batch", entry |-> Head(out).entry, batch |-> batch])
           /\ due' = due \union {<<e.n, target>> : e \in {e \in Range(batch) : target \in Belongs(e.n)}}
    /\ UNCHANGED <<line, server, client, sender, tables, bounds, unsteady>>

Rename ==
    /\ changes < MaxChanges /\ changes' = changes + 1
    /\ nick' \in Nicks \ {nick}
    /\ wire' = Append(wire, Says("nick", Passed(0, nick')))
    /\ UNCHANGED <<line, log, echo, tagged, out, client, sender, tables, requests, unsteady, due>>

Sending == {out[i].entry.n : i \in {i \in DOMAIN out : out[i].cmd = "line"}} \union
           (IF sender.at = "store" THEN {sender.n} ELSE {})

(* echo-message is withdrawn, or offered again and requested by the client. *)
ChangeEcho ==
    /\ changes < MaxChanges /\ changes' = changes + 1
    /\ IF echo THEN echo' = FALSE /\ wire' = Append(wire, Tells("capDel"))
       ELSE wire' = Append(wire, Tells("capNew")) /\ UNCHANGED echo
    /\ unsteady' = unsteady \union Sending
    /\ UNCHANGED <<line, log, nick, tagged, out, client, sender, tables, requests, due>>

Acknowledge ==
    /\ out # <<>> /\ Head(out).cmd = "capReq" /\ out' = Tail(out)
    /\ echo' = TRUE /\ wire' = Append(wire, Tells("capAck"))
    /\ unsteady' = unsteady \union Sending
    /\ UNCHANGED <<line, log, nick, tagged, client, sender, tables, bounds, due>>

ServerStep ==
    \/ \E kind \in Kinds, from \in {Peer, Server}, to \in Channels \union {nick} : PeerSpeaks(kind, from, to)
    \/ PassOn \/ Replay \/ Rename \/ ChangeEcho \/ Acknowledge

------------------------------------------------------------------------------
(* The table *)

Row(n, pane, id, how) == [n |-> n, pane |-> pane, id |-> id, how |-> how]
MsgId(n) == IF tagged THEN n ELSE 0

Same(a, b) == a.id # 0 /\ a.id = b.id /\ a.pane = b.pane

(* mutant: a msgid is unique in the network *)
InsertOncePerNetwork(table, row) ==
    IF \E r \in BagToSet(table) : r.id # 0 /\ r.id = row.id THEN table ELSE table (+) SetToBag({row})

(* ON CONFLICT DO NOTHING on the pane and the msgid *)
Insert(table, row) ==
    IF \E r \in BagToSet(table) : Same(r, row) THEN table ELSE table (+) SetToBag({row})

GetOrCreatePMConversation(table, pane) ==
    IF pane \in Nicks \union {Peer} THEN table \union {pane} ELSE table

(* A row in the pane of a channel, of the status or of a conversation *)
Store(row) ==
    /\ rows' = Insert(rows, row)
    /\ conv' = GetOrCreatePMConversation(conv, row.pane)

------------------------------------------------------------------------------
(* The user's calls: SendMessage, SendAction, SendNotice, SendCTCPRequest *)

(* A long message is sent chunk by chunk, each like a message of its own.  Only a  *)
(* message is stored by the call that sent it, and a CTCP request in the status.     *)
SendChunk(kind, to) ==
    /\ sender.at = "idle" /\ CanSpeak
    /\ LET n == Len(line) + 1 IN
          /\ line' = Append(line, NewLine(kind, TRUE, currentNick, to))
          /\ out' = Append(out, Says("line", Passed(n, currentNick)))
          /\ unsteady' = IF echo # echoCap \/ (\E i \in DOMAIN wire : wire[i].cmd \in {"capDel", "capAck"})
                         THEN unsteady \union {n} ELSE unsteady
          /\ sender' = IF kind \in {"action", "notice"} THEN Resting ELSE [at |-> "store", n |-> n]
    /\ UNCHANGED <<server, wire, client, tables, bounds, due>>

(* The capability is looked up when the line is on its way. *)
StoreChunk ==
    /\ sender.at = "store" /\ sender' = Resting
    /\ LET l == line[sender.n] IN
       IF l.kind = "ctcp" THEN Store(Row(sender.n, "status", 0, "local")) /\ UNCHANGED due
       ELSE IF echoCap THEN conv' = GetOrCreatePMConversation(conv, l.to) /\ UNCHANGED <<rows, due>>
       ELSE Store(Row(sender.n, l.to, 0, "local")) /\ due' = due \union {<<sender.n, l.to>>}
    /\ UNCHANGED <<line, server, wire, out, client, control, bounds, unsteady>>

(* RequestChatHistoryLatest, for a channel that was joined or a pane that is opened *)
RequestChatHistoryLatest(target) ==
    /\ tagged /\ requests < MaxRequests /\ requests' = requests + 1
    /\ out' = Append(out, Says("history", Passed(0, target)))
    /\ UNCHANGED <<line, server, wire, client, sender, tables, changes, unsteady, due>>

------------------------------------------------------------------------------
(* The handlers *)

Received == Head(wire)
Entry    == Received.entry
Takes(cmd) == wire # <<>> /\ Received.cmd = cmd /\ wire' = Tail(wire)
TakesLine(kinds) == Takes("line") /\ line[Entry.n].kind \in kinds
NoReply   == UNCHANGED <<line, out>>
Unchanged == UNCHANGED <<server, sender, bounds, unsteady, due>>

(* mutant: we are who we would like to be *)
IsMeByPreferred(name) == name = Preferred

IsMe(name) == name = currentNick

PMPeer(from, to) == IF IsMe(from) THEN to ELSE from

Target == line[Entry.n].to
Pane(from, to) == IF to \in Channels THEN to ELSE PMPeer(from, to)

(* What comes back of a message to ourselves without echo-message is dropped. *)
LegacyEcho(n, from, to) == line[n].kind = "privmsg" /\ IsMe(from) /\ ~echoCap /\ IsMe(to)

HandlePrivmsg ==
    /\ TakesLine({"privmsg", "action"})
    /\ IF LegacyEcho(Entry.n, Entry.from, Target) THEN UNCHANGED <<rows, conv>>
       ELSE Store(Row(Entry.n, Pane(Entry.from, Target), MsgId(Entry.n), "live"))
    /\ UNCHANGED <<client, control>> /\ NoReply /\ Unchanged

(* A DCC payload goes to the DCC manager, whoever sent it. *)
HandleDCC ==
    /\ TakesLine({"dcc"})
    /\ control' = control \union {Entry.n}
    /\ UNCHANGED <<client, rows, conv>> /\ NoReply /\ Unchanged

(* A request is answered, our own that comes back as an echo too. *)
HandleCTCPRequest ==
    /\ TakesLine({"ctcp"})
    /\ IF CanSpeak
         THEN /\ line' = Append(line, NewLine("ctcpReply", TRUE, currentNick, Entry.from))
              /\ out' = Append(out, Says("line", Passed(Len(line) + 1, currentNick)))
         ELSE NoReply
    /\ UNCHANGED <<client, tables>> /\ Unchanged

NoticePane(from, to) ==
    IF to \in Channels THEN to ELSE IF from = Server THEN "status" ELSE PMPeer(from, to)

HandleNotice ==
    /\ TakesLine({"notice", "ctcpReply"})
    /\ IF line[Entry.n].kind = "ctcpReply"
         THEN Store(Row(Entry.n, "status", 0, "live"))
         ELSE Store(Row(Entry.n, NoticePane(Entry.from, Target), MsgId(Entry.n), "live"))
    /\ UNCHANGED <<client, control>> /\ NoReply /\ Unchanged

(* A line in each channel we share *)
HandleQuit ==
    /\ TakesLine({"quit"})
    /\ rows' = FoldLeft(LAMBDA t, c : Insert(t, Row(Entry.n, c, MsgId(Entry.n), "live")),
                        rows, SetToSeq(Channels))
    /\ UNCHANGED <<client, conv, control>> /\ NoReply /\ Unchanged

HandleNick ==
    /\ Takes("nick")
    /\ currentNick' = Entry.from
    /\ UNCHANGED <<echoCap, tables>> /\ NoReply /\ Unchanged

(* CAP ACK and DEL; an offer is requested unless we have it. *)
HandleCap ==
    /\ \/ Takes("capAck") /\ echoCap' = TRUE /\ UNCHANGED out
       \/ Takes("capDel") /\ echoCap' = FALSE /\ UNCHANGED out
       \/ Takes("capNew") /\ UNCHANGED echoCap
          /\ out' = IF echoCap THEN out ELSE Append(out, Tells("capReq"))
    /\ UNCHANGED <<line, currentNick, tables>> /\ Unchanged

(* buildHistoryMessage: CTCP other than ACTION is skipped; a quit goes to the target. *)
Replayed(e, target) == Row(e.n, IF line[e.n].kind = "quit" THEN target
                                ELSE Pane(e.from, line[e.n].to), MsgId(e.n), "replay")

HandleChatHistoryBatch ==
    /\ Takes("batch")
    /\ LET items == SelectSeq(Received.batch, LAMBDA e : line[e.n].kind \in Chat \union {"quit"})
           built == [i \in DOMAIN items |-> Replayed(items[i], Entry.from)]
       IN  /\ rows' = FoldLeft(LAMBDA t, row : Insert(t, row), rows, built)
           /\ conv' = FoldLeft(LAMBDA t, row : GetOrCreatePMConversation(t, row.pane), conv, built)
    /\ UNCHANGED <<client, control>> /\ NoReply /\ Unchanged

Handle ==
    \/ HandlePrivmsg \/ HandleDCC \/ HandleCTCPRequest \/ HandleNotice \/ HandleQuit
    \/ HandleNick \/ HandleCap \/ HandleChatHistoryBatch

UserStep ==
    \/ \E kind \in Chat \union {"ctcp"}, to \in Channels \union {Peer, currentNick} :
          (kind = "ctcp" => to = Peer) /\ SendChunk(kind, to)
    \/ StoreChunk
    \/ \E target \in Channels \union {Peer} : RequestChatHistoryLatest(target)

Next == ServerStep \/ UserStep \/ Handle

Spec == Init /\ [][Next]_vars

------------------------------------------------------------------------------
RowsOf(n, pane) == {r \in BagToSet(rows) : r.n = n /\ r.pane = pane}
Count(set)      == FoldSet(LAMBDA r, k : k + CopiesIn(r, rows), 0, set)

(* What we said before we changed our nick may be replayed as a stranger's. *)
UnderOldNick(r) == r.how = "replay" /\ line[r.n].mine /\ r.pane \in Nicks

(* Every line is in the pane it belongs in, and once: under the nick of the other     *)
(* one, whoever spoke and whatever our nick was, as an echo, a local copy or a replay; *)
(* unless echo-message changed while it was sent.  A pane of private lines is one the  *)
(* sidebar knows.  The local copy of a line has no msgid, so a replay may repeat it.   *)
FiledOnce ==
    \A r \in BagToSet(rows) :
        LET all == RowsOf(r.n, r.pane) IN
        /\ r.pane \in Belongs(r.n) \/ UnderOldNick(r) \/ (line[r.n].kind = "ctcp" /\ r.pane = "status")
        /\ r.pane \in Channels \union {"status"} \union conv
        /\ line[r.n].kind \in Chat \union {"quit"} /\ r.n \notin unsteady =>
              /\ Count({x \in all : x.how # "replay"}) <= 1
              /\ Count({x \in all : x.id # 0 \/ x.how = "replay"}) <= 1

(* Nothing is lost: once everything on the way has been handled, all that was sent to *)
(* us, said by us or replayed is in each pane it belongs in.                           *)
NothingMissing ==
    wire = <<>> /\ out = <<>> /\ sender.at = "idle" =>
        \A d \in due : d[1] \notin unsteady =>
            \E r \in BagToSet(rows) : r.n = d[1] /\ (r.pane = d[2] \/ UnderOldNick(r))
==============================================================================
