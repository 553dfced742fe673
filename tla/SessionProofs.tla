------------------------------ MODULE SessionProofs ------------------------------
(***************************************************************************)
(* What the proof system shows of the session, for every set of channels   *)
(* and users, every number of connections and lines: what the server said  *)
(* adds up to what the server holds.                                       *)
(***************************************************************************)
EXTENDS IrcSession, SequenceTheorems, TLAPS

Kinds == {"001", "433", "376", "connected", "disconnected", "join", "part", "kick", "quit", "nick",
          "mode", "353", "366", "refused"}

Rosters == [Nicks -> Statuses]
Args    == Nicks \union Statuses \union Rosters \union {None}

LineType ==
    {m \in [kind : Kinds, chan : Channels \union {None}, nick : Nicks \union {None}, arg : Args] :
        /\ m.kind \in {"join", "part", "kick", "mode", "353", "366", "refused"} => m.chan \in Channels
        /\ m.kind \in {"001", "433", "join", "part", "kick", "quit", "nick", "mode"} => m.nick \in Nicks
        /\ m.kind = "nick" => m.arg \in Nicks
        /\ m.kind = "mode" => m.arg \in {"plain", "op"}
        /\ m.kind = "353" => m.arg \in Rosters}

Phases == {"none", "registering", "on", "quit", "off"}

ClientType ==
    [phase : Phases, queue : Seq(LineType), nick : Nicks \union {None}, manual : Nicks \union {None},
     names : SUBSET Channels, keys : [Channels -> Keys \union {Nothing}], auto : Seq(Channels),
     rejoin : BOOLEAN, timer : BOOLEAN, pass : {"armed", "go", "send", "done"},
     todo : SUBSET [chan : Channels, key : Keys]]

RowType == [exists : BOOLEAN, open : BOOLEAN, autoJoin : BOOLEAN, key : Keys]

RequestType ==
    [kind : {"key"}, by : Sessions, chan : Channels, arg : Keys]
    \union [kind : {"nick"}, by : Sessions, chan : {None}, arg : {Me, Alt}]

TypeInv ==
    /\ client \in [Sessions -> ClientType]
    /\ session \in 0..MaxSessions
    /\ row \in [Channels -> RowType]
    /\ roster \in [Channels -> Rosters]
    /\ request \in RequestType \union {None}
    /\ srvNick \in Nicks \union {None} /\ srvReady \in BOOLEAN
    /\ members \in [Channels -> Rosters]
    /\ noImplicitNames \in BOOLEAN
    /\ inherited \subseteq Channels /\ byUser \subseteq Channels /\ overlapped \in BOOLEAN

------------------------------------------------------------------------------
(* What the lines in a queue will make of the nick, the rows and the rosters *)

View == [nick : Nicks \union {None}, names : SUBSET Channels, rows : SUBSET Channels,
         roster : [Channels -> Rosters]]

ViewOf(k) == [nick |-> k.nick, names |-> k.names, rows |-> Rows, roster |-> roster]

Ours(v, n) == n = IF v.nick = None THEN Me ELSE v.nick

RosterAfter(v, m) ==
    CASE m.kind = "connected" -> [c \in Channels |-> Nobody]
      [] m.kind = "join" -> [v.roster EXCEPT ![m.chan][m.nick] = "plain"]
      [] m.kind \in {"part", "kick"} ->
            IF m.chan \in v.rows THEN [v.roster EXCEPT ![m.chan][m.nick] = "out"] ELSE v.roster
      [] m.kind = "quit" -> [c \in Channels |-> [v.roster[c] EXCEPT ![m.nick] = "out"]]
      [] m.kind = "mode" ->
            IF v.roster[m.chan][m.nick] = "out" THEN v.roster
            ELSE [v.roster EXCEPT ![m.chan][m.nick] = m.arg]
      [] m.kind = "nick" ->
            [c \in Channels |-> IF v.roster[c][m.nick] = "out" THEN v.roster[c]
                                ELSE RenamedIn(v.roster[c], m.nick, m.arg)]
      [] m.kind = "353" ->
            IF m.chan \notin v.rows THEN v.roster
            ELSE [v.roster EXCEPT ![m.chan] =
                    [n \in Nicks |-> IF m.arg[n] # "out" THEN m.arg[n]
                                     ELSE IF m.chan \in v.names THEN v.roster[m.chan][n] ELSE "out"]]
      [] OTHER -> v.roster

NickAfter(v, m) ==
    IF m.kind = "001" THEN m.nick
    ELSE IF m.kind = "nick" /\ m.nick = v.nick THEN m.arg ELSE v.nick

NamesAfter(v, m) ==
    IF m.kind = "353" /\ m.chan \in v.rows THEN v.names \union {m.chan}
    ELSE IF m.kind = "366" THEN v.names \ {m.chan} ELSE v.names

RowsAfter(v, m) == IF m.kind = "join" THEN v.rows \union {m.chan} ELSE v.rows

After(v, m) ==
    [nick |-> NickAfter(v, m), names |-> NamesAfter(v, m), rows |-> RowsAfter(v, m),
     roster |-> RosterAfter(v, m)]

(* Whether a line says that we are in channel c, or that we are not; and whether it *)
(* answers a request for nick n.                                                   *)
SaidBy(v, m, c) ==
    IF m.kind = "join" /\ m.chan = c /\ Ours(v, m.nick) THEN "in"
    ELSE IF m.chan = c /\ (m.kind = "refused" \/ (m.kind \in {"part", "kick"} /\ Ours(v, m.nick)))
      THEN "out"
    ELSE "nothing"

AnsweredBy(v, m, n) == (m.kind = "433" /\ m.nick = n) \/ (m.kind = "nick" /\ m.nick = v.nick)

Said == {"nothing", "in", "out"}
Told == {m \in LineType : m.kind # "disconnected"}

(* The last line that says anything of channel c says x. *)
LastSaid(p, q, c, x) ==
    \/ x = "nothing" /\ \A i \in 1..Len(q) : SaidBy(p[i - 1], q[i], c) = "nothing"
    \/ \E i \in 1..Len(q) :
          /\ x = SaidBy(p[i - 1], q[i], c) /\ x # "nothing"
          /\ \A j \in (i + 1)..Len(q) : SaidBy(p[j - 1], q[j], c) = "nothing"

(* p[i] is the view when i lines have been handled. *)
Path(p, q, v, e, said, ans) ==
    /\ p[0] = v /\ p[Len(q)] = e
    /\ \A i \in 1..Len(q) : p[i] = After(p[i - 1], q[i])
    /\ \A c \in Channels : LastSaid(p, q, c, said[c])
    /\ \A n \in ans : \E i \in 1..Len(q) : AnsweredBy(p[i - 1], q[i], n)

(* The lines of q lead from view v to view e, say at last "said" of each channel and *)
(* answer the requests for the nicks of ans.                                        *)
Leads(q, v, e, said, ans) ==
    /\ q \in Seq(Told) /\ said \in [Channels -> Said] /\ ans \subseteq Nicks
    /\ \E p \in [0..Len(q) -> View] : Path(p, q, v, e, said, ans)

(* A line leads from one view to another. *)
LEMMA AfterType ==
    ASSUME NEW v \in View, NEW m \in LineType
    PROVE  After(v, m) \in View
  <1>1. /\ v.nick \in Nicks \union {None} /\ v.names \subseteq Channels /\ v.rows \subseteq Channels
        /\ v.roster \in [Channels -> Rosters]
    BY DEF View
  <1>2. NickAfter(v, m) \in Nicks \union {None}
    BY <1>1 DEF NickAfter, LineType
  <1>3. NamesAfter(v, m) \subseteq Channels /\ RowsAfter(v, m) \subseteq Channels
    BY <1>1 DEF NamesAfter, RowsAfter, LineType
  <1>4. RosterAfter(v, m) \in [Channels -> Rosters]
    <2>1. CASE m.kind = "connected"
      BY <2>1 DEF RosterAfter, Nobody, Rosters, Statuses
    <2>2. CASE m.kind \in {"join", "part", "kick"}
      BY <1>1, <2>2 DEF RosterAfter, LineType, Rosters, Statuses
    <2>3. CASE m.kind = "quit"
      BY <1>1, <2>3 DEF RosterAfter, LineType, Rosters, Statuses
    <2>4. CASE m.kind = "mode"
      BY <1>1, <2>4 DEF RosterAfter, LineType, Rosters, Statuses
    <2>5. CASE m.kind = "nick"
      BY <1>1, <2>5 DEF RosterAfter, LineType, Rosters, Statuses, RenamedIn
    <2>6. CASE m.kind = "353"
      BY <1>1, <2>6 DEF RosterAfter, LineType, Rosters, Statuses
    <2>7. CASE m.kind \notin {"connected", "join", "part", "kick", "quit", "mode", "nick", "353"}
      BY <1>1, <2>7 DEF RosterAfter
    <2> QED
      BY <2>1, <2>2, <2>3, <2>4, <2>5, <2>6, <2>7
  <1> QED
    BY <1>2, <1>3, <1>4 DEF After, View

(* No line leads anywhere else, says anything or answers anything. *)
LEMMA NothingLeads ==
    ASSUME NEW v \in View
    PROVE  Leads(<<>>, v, v, [c \in Channels |-> "nothing"], {})
  <1> DEFINE said == [c \in Channels |-> "nothing"]
             p == [i \in 0..0 |-> v]
  <1>1. <<>> \in Seq(Told) /\ Len(<<>>) = 0 /\ said \in [Channels -> Said] /\ {} \subseteq Nicks
    BY DEF Said
  <1>2. p \in [0..0 -> View] /\ p[0] = v
    OBVIOUS
  <1>3. \A c \in Channels : LastSaid(p, <<>>, c, said[c])
    BY DEF LastSaid
  <1>4. Path(p, <<>>, v, v, said, {})
    BY <1>1, <1>2, <1>3 DEF Path
  <1> HIDE DEF said, p
  <1> QED
    BY <1>1, <1>2, <1>4 DEF Leads, said

(* One line more *)
SaidAfter(said, v, m) ==
    [c \in Channels |-> IF SaidBy(v, m, c) = "nothing" THEN said[c] ELSE SaidBy(v, m, c)]
AnswersAfter(ans, v, m) == ans \union {n \in Nicks : AnsweredBy(v, m, n)}

(* What a line at the end of the queue adds to where the lines lead. *)
LEMMA OneMore ==
    ASSUME NEW q, NEW v, NEW e, NEW said, NEW ans, Leads(q, v, e, said, ans), NEW m \in Told
    PROVE  /\ e \in View
           /\ Leads(Append(q, m), v, After(e, m), SaidAfter(said, e, m), AnswersAfter(ans, e, m))
  <1>0. q \in Seq(Told) /\ said \in [Channels -> Said] /\ ans \subseteq Nicks
    BY DEF Leads
  <1>1. PICK p \in [0..Len(q) -> View] : Path(p, q, v, e, said, ans)
    BY DEF Leads
  <1>2. Len(q) \in Nat /\ m \in LineType
    BY <1>0, LenProperties DEF Told
  <1>3. e \in View
    BY <1>1, <1>2 DEF Path
  <1>4. After(e, m) \in View
    BY <1>2, <1>3, AfterType
  <1> DEFINE q2 == Append(q, m)
             p2 == [i \in 0..(Len(q) + 1) |-> IF i = Len(q) + 1 THEN After(e, m) ELSE p[i]]
             said2 == SaidAfter(said, e, m)
             ans2 == AnswersAfter(ans, e, m)
  <1>5. /\ q2 \in Seq(Told) /\ Len(q2) = Len(q) + 1 /\ q2[Len(q) + 1] = m
        /\ \A i \in 1..Len(q) : q2[i] = q[i]
    BY <1>0, AppendProperties
  <1>6. /\ p2 \in [0..Len(q2) -> View]
        /\ \A i \in 0..Len(q) : p2[i] = p[i]
        /\ p2[Len(q) + 1] = After(e, m)
    BY <1>1, <1>2, <1>4, <1>5
  <1>7. \A i \in 1..Len(q) : p2[i - 1] = p[i - 1] /\ p2[i] = p[i] /\ q2[i] = q[i]
    BY <1>2, <1>5, <1>6
  <1>8. p2[(Len(q) + 1) - 1] = e /\ q2[Len(q) + 1] = m
    BY <1>1, <1>2, <1>5, <1>6 DEF Path
  <1>9. said2 \in [Channels -> Said]
    BY <1>0 DEF SaidAfter, SaidBy, Said
  <1>10. ans2 \subseteq Nicks
    BY <1>0 DEF AnswersAfter
  <1> HIDE DEF p2, q2, said2, ans2
  <1>11. p2[0] = v /\ p2[Len(q2)] = After(e, m)
    BY <1>1, <1>2, <1>5, <1>6 DEF Path
  <1>12. ASSUME NEW i \in 1..Len(q2) PROVE p2[i] = After(p2[i - 1], q2[i])
    <2>1. CASE i = Len(q) + 1
      BY <2>1, <1>8, <1>6
    <2>2. CASE i # Len(q) + 1
      <3>1. i \in 1..Len(q)
        BY <2>2, <1>2, <1>5
      <3> QED
        BY <3>1, <1>7, <1>1 DEF Path
    <2> QED
      BY <2>1, <2>2
  <1>13. ASSUME NEW c \in Channels PROVE LastSaid(p2, q2, c, said2[c])
    <2>1. said2[c] = IF SaidBy(e, m, c) = "nothing" THEN said[c] ELSE SaidBy(e, m, c)
      BY DEF said2, SaidAfter
    <2>2. SaidBy(p2[(Len(q) + 1) - 1], q2[Len(q) + 1], c) = SaidBy(e, m, c)
      BY <1>8
    <2>3. \A i \in 1..Len(q) : SaidBy(p2[i - 1], q2[i], c) = SaidBy(p[i - 1], q[i], c)
      BY <1>7
    <2>4. LastSaid(p, q, c, said[c])
      BY <1>1 DEF Path
    <2>5. CASE SaidBy(e, m, c) # "nothing"
      BY <2>1, <2>2, <2>5, <1>2, <1>5 DEF LastSaid
    <2>6. CASE SaidBy(e, m, c) = "nothing"
      <3>1. \A j \in 1..Len(q2) : j = Len(q) + 1 \/ j \in 1..Len(q)
        BY <1>2, <1>5
      <3>2. CASE said[c] = "nothing" /\ \A i \in 1..Len(q) : SaidBy(p[i - 1], q[i], c) = "nothing"
        BY <3>1, <3>2, <2>1, <2>2, <2>3, <2>6 DEF LastSaid
      <3>3. CASE \E i \in 1..Len(q) :
                  /\ said[c] = SaidBy(p[i - 1], q[i], c) /\ said[c] # "nothing"
                  /\ \A j \in (i + 1)..Len(q) : SaidBy(p[j - 1], q[j], c) = "nothing"
        <4>1. PICK i \in 1..Len(q) :
                  /\ said[c] = SaidBy(p[i - 1], q[i], c) /\ said[c] # "nothing"
                  /\ \A j \in (i + 1)..Len(q) : SaidBy(p[j - 1], q[j], c) = "nothing"
          BY <3>3
        <4>2. i \in 1..Len(q2)
          BY <1>2, <1>5
        <4>3. ASSUME NEW j \in (i + 1)..Len(q2) PROVE SaidBy(p2[j - 1], q2[j], c) = "nothing"
          <5>1. j = Len(q) + 1 \/ (j \in 1..Len(q) /\ j \in (i + 1)..Len(q))
            BY <1>2, <1>5
          <5> QED
            BY <5>1, <4>1, <2>2, <2>3, <2>6
        <4> QED
          BY <4>1, <4>2, <4>3, <2>1, <2>3, <2>6 DEF LastSaid
      <3> QED
        BY <3>2, <3>3, <2>4 DEF LastSaid
    <2> QED
      BY <2>5, <2>6
  <1>14. ASSUME NEW n \in ans2 PROVE \E i \in 1..Len(q2) : AnsweredBy(p2[i - 1], q2[i], n)
    <2>1. n \in ans \/ AnsweredBy(e, m, n)
      BY DEF ans2, AnswersAfter
    <2>2. CASE n \in ans
      <3>1. PICK i \in 1..Len(q) : AnsweredBy(p[i - 1], q[i], n)
        BY <2>2, <1>1 DEF Path
      <3>2. i \in 1..Len(q2)
        BY <1>2, <1>5
      <3> QED
        BY <3>1, <3>2, <1>7
    <2>3. CASE AnsweredBy(e, m, n)
      <3>1. Len(q) + 1 \in 1..Len(q2)
        BY <1>2, <1>5
      <3> QED
        BY <3>1, <2>3, <1>8
    <2> QED
      BY <2>1, <2>2, <2>3
  <1>15. Path(p2, q2, v, After(e, m), said2, ans2)
    BY <1>11, <1>12, <1>13, <1>14 DEF Path
  <1> QED
    BY <1>3, <1>5, <1>6, <1>9, <1>10, <1>15 DEF Leads, q2, said2, ans2

(* When the first line is handled, the rest leads to the same end. *)
LEMMA OneLess ==
    ASSUME NEW q, NEW v \in View, NEW e, NEW said, NEW ans, Leads(q, v, e, said, ans), q # <<>>
    PROVE  /\ Head(q) \in Told
           /\ After(v, Head(q)) \in View
           /\ \E said2, ans2 :
                 /\ Leads(Tail(q), After(v, Head(q)), e, said2, ans2)
                 /\ \A c \in Channels :
                       \/ said2[c] = said[c] /\ said[c] # "nothing"
                       \/ said2[c] = "nothing" /\ said[c] = SaidBy(v, Head(q), c)
                 /\ \A n \in ans : n \in ans2 \/ AnsweredBy(v, Head(q), n)
  <1>0. q \in Seq(Told) /\ said \in [Channels -> Said] /\ ans \subseteq Nicks
    BY DEF Leads
  <1>1. PICK p \in [0..Len(q) -> View] : Path(p, q, v, e, said, ans)
    BY DEF Leads
  <1>2. /\ Len(q) \in Nat /\ Len(q) > 0
        /\ Head(q) \in Told /\ Head(q) = q[1]
        /\ Tail(q) \in Seq(Told) /\ Len(Tail(q)) = Len(q) - 1
        /\ \A i \in 1..(Len(q) - 1) : Tail(q)[i] = q[i + 1]
    BY <1>0, HeadTailProperties, EmptySeq, LenProperties
  <1>3. After(v, Head(q)) \in View
    BY <1>2, AfterType DEF Told
  <1> DEFINE t == Tail(q)
             w == After(v, Head(q))
             p2 == [i \in 0..(Len(q) - 1) |-> p[i + 1]]
             said2 == [c \in Channels |->
                          IF \E i \in 1..Len(t) : SaidBy(p2[i - 1], t[i], c) # "nothing"
                            THEN said[c] ELSE "nothing"]
             ans2 == {n \in ans : \E i \in 1..Len(t) : AnsweredBy(p2[i - 1], t[i], n)}
  <1>4. /\ p2 \in [0..Len(t) -> View]
        /\ \A i \in 0..Len(t) : p2[i] = p[i + 1]
    BY <1>1, <1>2
  <1>5. p[0] = v /\ p[1] = w
    BY <1>1, <1>2 DEF Path
  <1>6. \A i \in 1..Len(t) : p2[i - 1] = p[(i + 1) - 1] /\ p2[i] = p[i + 1] /\ t[i] = q[i + 1] /\ i + 1 \in 1..Len(q)
    BY <1>2, <1>4
  <1>7. said2 \in [Channels -> Said] /\ ans2 \subseteq Nicks
    BY <1>0 DEF Said
  <1>8. \A c \in Channels : said2[c] = IF \E i \in 1..Len(t) : SaidBy(p2[i - 1], t[i], c) # "nothing"
                                          THEN said[c] ELSE "nothing"
    OBVIOUS
  <1>9. \A n \in ans2 : \E i \in 1..Len(t) : AnsweredBy(p2[i - 1], t[i], n)
    OBVIOUS
  <1>10. \A n \in ans : (\E i \in 1..Len(t) : AnsweredBy(p2[i - 1], t[i], n)) => n \in ans2
    OBVIOUS
  <1> HIDE DEF p2, said2, ans2
  <1>11. ASSUME NEW i \in 1..Len(q) PROVE i = 1 \/ \E k \in 1..Len(t) : i = k + 1
    <2>1. CASE i = 1
      BY <2>1
    <2>2. CASE i # 1
      <3>1. i - 1 \in 1..Len(t) /\ i = (i - 1) + 1
        BY <2>2, <1>2
      <3> QED
        BY <3>1
    <2> QED
      BY <2>1, <2>2
  <1>12. p2[0] = w /\ p2[Len(t)] = e
    BY <1>1, <1>2, <1>4, <1>5 DEF Path
  <1>13. \A i \in 1..Len(t) : p2[i] = After(p2[i - 1], t[i])
    BY <1>1, <1>6 DEF Path
  <1>14. ASSUME NEW c \in Channels
         PROVE  /\ LastSaid(p2, t, c, said2[c])
                /\ \/ said2[c] = said[c] /\ said[c] # "nothing"
                   \/ said2[c] = "nothing" /\ said[c] = SaidBy(v, Head(q), c)
    <2>1. \A i \in 1..Len(t) : SaidBy(p2[i - 1], t[i], c) = SaidBy(p[(i + 1) - 1], q[i + 1], c)
      BY <1>6
    <2>2. SaidBy(p[1 - 1], q[1], c) = SaidBy(v, Head(q), c)
      BY <1>2, <1>5
    <2>3. LastSaid(p, q, c, said[c])
      BY <1>1 DEF Path
    <2>4. CASE \E i \in 1..Len(t) : SaidBy(p2[i - 1], t[i], c) # "nothing"
      <3>1. said2[c] = said[c]
        BY <2>4, <1>8
      <3>2. PICK k \in 1..Len(t) : SaidBy(p2[k - 1], t[k], c) # "nothing"
        BY <2>4
      <3>3. k + 1 \in 1..Len(q) /\ SaidBy(p[(k + 1) - 1], q[k + 1], c) # "nothing"
        BY <3>2, <2>1, <1>6
      <3>4. PICK i \in 1..Len(q) :
                /\ said[c] = SaidBy(p[i - 1], q[i], c) /\ said[c] # "nothing"
                /\ \A j \in (i + 1)..Len(q) : SaidBy(p[j - 1], q[j], c) = "nothing"
        BY <3>3, <2>3 DEF LastSaid
      <3>5. i # 1
        BY <3>3, <3>4, <1>2
      <3>6. PICK l \in 1..Len(t) : i = l + 1
        BY <3>5, <1>11
      <3>7. ASSUME NEW j \in (l + 1)..Len(t) PROVE SaidBy(p2[j - 1], t[j], c) = "nothing"
        <4>1. j \in 1..Len(t) /\ j + 1 \in (i + 1)..Len(q)
          BY <3>6, <1>2
        <4> QED
          BY <4>1, <3>4, <2>1
      <3>8. SaidBy(p2[l - 1], t[l], c) = said[c]
        BY <3>4, <3>6, <2>1
      <3> QED
        BY <3>1, <3>4, <3>7, <3>8 DEF LastSaid
    <2>5. CASE ~\E i \in 1..Len(t) : SaidBy(p2[i - 1], t[i], c) # "nothing"
      <3>1. said2[c] = "nothing"
        BY <2>5, <1>8
      <3>2. \A i \in 1..Len(q) : i = 1 \/ SaidBy(p[i - 1], q[i], c) = "nothing"
        BY <2>1, <2>5, <1>11
      <3>3. said[c] = SaidBy(v, Head(q), c)
        BY <3>2, <2>2, <2>3, <1>2 DEF LastSaid
      <3> QED
        BY <3>1, <3>3, <2>5 DEF LastSaid
    <2> QED
      BY <2>4, <2>5
  <1>15. Path(p2, t, w, e, said2, ans2)
    BY <1>9, <1>12, <1>13, <1>14 DEF Path
  <1>16. Leads(t, w, e, said2, ans2)
    BY <1>2, <1>4, <1>7, <1>15 DEF Leads
  <1>17. ASSUME NEW n \in ans PROVE n \in ans2 \/ AnsweredBy(v, Head(q), n)
    <2>1. PICK i \in 1..Len(q) : AnsweredBy(p[i - 1], q[i], n)
      BY <1>1 DEF Path
    <2>2. CASE i = 1
      BY <2>1, <2>2, <1>2, <1>5
    <2>3. CASE i # 1
      <3>1. PICK k \in 1..Len(t) : i = k + 1
        BY <2>3, <1>11
      <3> QED
        BY <3>1, <2>1, <1>6, <1>10
    <2> QED
      BY <2>2, <2>3
  <1> QED
    BY <1>2, <1>3, <1>14, <1>16, <1>17

------------------------------------------------------------------------------
(* The types, and how the clients, the server and a pending call hang together *)

(* What the server can say before its greeting is out *)
Early == {m \in Told : m.kind # "connected"}

ClientsInv ==
    /\ \A g \in Sessions : g > session => client[g] = NewClient
    /\ \A g \in Sessions : g < session =>
          /\ client[g].phase = "off" /\ client[g].auto = <<>>
          /\ ~overlapped => client[g].queue = <<>>
    /\ session # 0 => client[session].phase # "none"
    /\ session # 0 /\ Abandoned(session) => client[session].auto = <<>>
    /\ session # 0 /\ client[session].phase # "off" =>
          /\ client[session].queue \in Seq(Told)
          /\ ~srvReady => client[session].queue \in Seq(Early)
    /\ session # 0 /\ client[session].phase = "on" => srvReady

ServerInv ==
    /\ srvNick # None => session # 0 /\ client[session].phase # "off"
    /\ srvReady => srvNick # None
    /\ ~srvReady => \A c \in Channels : ~In(c)

RequestInv == request # None => request.by <= session

LinkInv == TypeInv /\ ClientsInv /\ ServerInv /\ RequestInv

(* The lines of a greeting are lines that are told, and these are lines. *)
LEMMA SubsetLines ==
    /\ Seq(Early) \subseteq Seq(Told) /\ Seq(Told) \subseteq Seq(LineType)
    /\ Early \subseteq Told /\ Told \subseteq LineType
  <1>1. Early \subseteq Told /\ Told \subseteq LineType
    BY DEF Early, Told
  <1> QED
    BY <1>1, SeqMonotonic

(* A new client is a client. *)
(* A client after its own JOIN, and after it asked for the names of a channel. *)
JoinedFields(k, r, auto) ==
    /\ r.queue = k.queue /\ r.nick = k.nick /\ r.names = k.names /\ r.auto = auto
    /\ r.rejoin = k.rejoin /\ r.todo = k.todo /\ r.pass = k.pass /\ r.manual = k.manual

LEMMA JoinedClient ==
    ASSUME NEW k \in ClientType, NEW keys, NEW auto
    PROVE  JoinedFields(k, [k EXCEPT !.keys = keys, !.auto = auto], auto)
  BY DEF JoinedFields, ClientType

PhaseAs(k, r) == r.phase = k.phase

LEMMA AskedClient ==
    ASSUME NEW k \in ClientType, NEW auto, NEW queue
    PROVE  PhaseAs(k, [k EXCEPT !.auto = auto, !.queue = queue])
  BY DEF PhaseAs, ClientType

(* A row after a JOIN, and after the channel was left. *)
LEMMA JoinedRow ==
    ASSUME NEW k \in RowType, NEW open \in BOOLEAN, NEW key \in Keys
    PROVE  [k EXCEPT !.exists = TRUE, !.open = open, !.key = key] \in RowType
  BY DEF RowType

LEMMA LeftRow ==
    ASSUME NEW k \in RowType, NEW open \in BOOLEAN
    PROVE  [k EXCEPT !.open = open] \in RowType
  BY DEF RowType

LEMMA NewClientType == NewClient \in ClientType
  BY DEF NewClient, ClientType, Phases

(* What is in a line *)
LEMMA OneLine ==
    ASSUME NEW kind, NEW c, NEW n, NEW arg
    PROVE  LET m == Line(kind, c, n, arg) IN
           m.kind = kind /\ m.chan = c /\ m.nick = n /\ m.arg = arg
  BY DEF Line

(* Every line the server tells is one of the lines a client expects. *)
LEMMA LinesType ==
    /\ \A n \in Nicks :
          /\ Line("001", None, n, None) \in Early /\ Line("433", None, n, None) \in Early
          /\ Line("quit", None, n, None) \in Early
    /\ Line("376", None, None, None) \in Early /\ Line("connected", None, None, None) \in Told
    /\ Line("disconnected", None, None, None) \in LineType
    /\ \A n, new \in Nicks : Line("nick", None, n, new) \in Early
    /\ \A c \in Channels :
          /\ Line("366", c, None, None) \in Early /\ Line("refused", c, None, None) \in Early
          /\ \A n \in Nicks, kind \in {"join", "part", "kick"} : Line(kind, c, n, None) \in Early
          /\ \A n \in Nicks, mode \in {"plain", "op"} : Line("mode", c, n, mode) \in Early
          /\ \A mem \in Rosters : Line("353", c, None, mem) \in Early
  <1> DEFINE Any == [kind : Kinds, chan : Channels \union {None}, nick : Nicks \union {None}, arg : Args]
  <1>1. /\ None \in Args /\ \A n \in Nicks : n \in Args
        /\ \A mode \in {"plain", "op"} : mode \in Args
        /\ \A mem \in Rosters : mem \in Args
    BY DEF Args, Statuses
  <1>2. /\ \A n \in Nicks : Line("001", None, n, None) \in Any /\ Line("433", None, n, None) \in Any /\ Line("quit", None, n, None) \in Any
        /\ Line("376", None, None, None) \in Any /\ Line("connected", None, None, None) \in Any
        /\ Line("disconnected", None, None, None) \in Any
    BY <1>1 DEF Line, Kinds
  <1>3. \A n, new \in Nicks : Line("nick", None, n, new) \in Any
    BY <1>1 DEF Line, Kinds
  <1>4. \A c \in Channels :
          /\ Line("366", c, None, None) \in Any /\ Line("refused", c, None, None) \in Any
          /\ \A n \in Nicks, kind \in {"join", "part", "kick"} : Line(kind, c, n, None) \in Any
          /\ \A n \in Nicks, mode \in {"plain", "op"} : Line("mode", c, n, mode) \in Any
          /\ \A mem \in Rosters : Line("353", c, None, mem) \in Any
    BY <1>1 DEF Line, Kinds
  <1> HIDE DEF Any
  <1>5. \A m \in Any :
          (/\ m.kind \in {"join", "part", "kick", "mode", "353", "366", "refused"} => m.chan \in Channels
           /\ m.kind \in {"001", "433", "join", "part", "kick", "quit", "nick", "mode"} => m.nick \in Nicks
           /\ m.kind = "nick" => m.arg \in Nicks
           /\ m.kind = "mode" => m.arg \in {"plain", "op"}
           /\ m.kind = "353" => m.arg \in Rosters)
          => m \in LineType
    BY DEF LineType, Any
  <1>6. /\ \A n \in Nicks : Line("001", None, n, None) \in Early /\ Line("433", None, n, None) \in Early /\ Line("quit", None, n, None) \in Early
        /\ Line("376", None, None, None) \in Early /\ Line("connected", None, None, None) \in Told
        /\ Line("disconnected", None, None, None) \in LineType
    BY <1>2, <1>5, OneLine DEF Early, Told
  <1>7. \A n, new \in Nicks : Line("nick", None, n, new) \in Early
    BY <1>3, <1>5, OneLine DEF Early, Told
  <1>8. ASSUME NEW c \in Channels
        PROVE  /\ Line("366", c, None, None) \in Early /\ Line("refused", c, None, None) \in Early
               /\ \A n \in Nicks, kind \in {"join", "part", "kick"} : Line(kind, c, n, None) \in Early
               /\ \A n \in Nicks, mode \in {"plain", "op"} : Line("mode", c, n, mode) \in Early
               /\ \A mem \in Rosters : Line("353", c, None, mem) \in Early
    BY <1>4, <1>5, OneLine DEF Early, Told
  <1> QED
    BY <1>6, <1>7, <1>8

(* A line alone is a sequence, and appending is concatenating it. *)
LEMMA OneLineSeq ==
    ASSUME NEW S, NEW m \in S
    PROVE  <<m>> \in Seq(S) /\ \A q \in Seq(S) : q \o <<m>> = Append(q, m)
  OBVIOUS

(* What the server makes of its members are rosters again. *)
LEMMA RostersType ==
    ASSUME NEW mem \in Rosters
    PROVE  /\ \A ns : Only(mem, ns) \in Rosters
           /\ \A old, new \in Nicks : RenamedIn(mem, old, new) \in Rosters
           /\ \A n \in Nicks, x \in Statuses : [mem EXCEPT ![n] = x] \in Rosters
           /\ Nobody \in Rosters
  <1>1. Nobody \in Rosters
    BY DEF Rosters, Nobody, Statuses
  <1>2. \A ns : Only(mem, ns) \in Rosters
    BY DEF Rosters, Only, Statuses
  <1>3. \A old, new \in Nicks : RenamedIn(mem, old, new) \in Rosters
    BY DEF Rosters, RenamedIn, Statuses
  <1>4. \A n \in Nicks, x \in Statuses : [mem EXCEPT ![n] = x] \in Rosters
    BY DEF Rosters
  <1> QED
    BY <1>1, <1>2, <1>3, <1>4

(* The answer to NAMES is made of lines, all of them fit for a greeting. *)
LEMMA NamesReplyType ==
    ASSUME NEW c \in Channels, NEW mem \in Rosters
    PROVE  NamesReply(c, mem) \in Seq(Early)
  <1> DEFINE others == Only(mem, Nicks \ {srvNick})
             own == Line("353", c, None, Only(mem, {srvNick}))
             rest == Line("353", c, None, others)
             end == Line("366", c, None, None)
             lines == <<own>> \o (IF others = Nobody THEN <<>> ELSE <<rest>>)
  <1>1. own \in Early /\ rest \in Early /\ end \in Early
    BY RostersType, LinesType
  <1> HIDE DEF own, rest, end, others
  <1>2. <<own>> \in Seq(Early) /\ <<rest>> \in Seq(Early) /\ <<end>> \in Seq(Early) /\ <<>> \in Seq(Early)
    BY <1>1
  <1>3. lines \in Seq(Early)
    BY <1>2, ConcatProperties
  <1>4. (IF mem[srvNick] = "out" THEN <<>> ELSE lines) \in Seq(Early)
    BY <1>2, <1>3
  <1> HIDE DEF lines
  <1>5. (IF mem[srvNick] = "out" THEN <<>> ELSE lines) \o <<end>> \in Seq(Early)
    BY <1>2, <1>4, ConcatProperties
  <1>6. NamesReply(c, mem) = (IF mem[srvNick] = "out" THEN <<>> ELSE lines) \o <<end>>
    BY DEF NamesReply, lines, own, rest, end, others
  <1> QED
    BY <1>5, <1>6

(* So is the answer to JOIN. *)
LEMMA JoinReplyType ==
    ASSUME members \in [Channels -> Rosters], srvNick \in Nicks, NEW c \in Channels
    PROVE  /\ MembersWithUs(c) \in [Channels -> Rosters]
           /\ JoinReply(c) \in Seq(Early)
  <1>1. MembersWithUs(c) \in [Channels -> Rosters]
    BY DEF MembersWithUs, Rosters, Statuses
  <1>2. NamesReply(c, MembersWithUs(c)[c]) \in Seq(Early)
    BY <1>1, NamesReplyType
  <1>3. <<Line("join", c, srvNick, None)>> \in Seq(Early)
    BY LinesType, OneLineSeq
  <1> QED
    BY <1>1, <1>2, <1>3, ConcatProperties, EmptySeq DEF JoinReply

(* What a client may become when it neither begins nor drops *)
Fits(g, r) ==
    /\ g \in 1..session
    /\ r \in ClientType /\ r.phase # "none"
    /\ g < session => /\ r.phase = "off" /\ r.auto = <<>>
                      /\ client[g].queue = <<>> => r.queue = <<>>
    /\ g = session => /\ r.phase \in {"quit", "off"} => r.auto = <<>>
                      /\ r.phase # "off" => r.queue \in Seq(Told)
                      /\ r.phase # "off" /\ ~srvReady => r.queue \in Seq(Early)
                      /\ r.phase = "on" => srvReady
                      /\ r.phase = "off" => client[g].phase = "off"

(* A change that fits keeps what is known of the clients. *)
LEMMA ClientChanges ==
    ASSUME LinkInv, NEW g, NEW r, Fits(g, r), client' = [client EXCEPT ![g] = r],
           session' = session, overlapped' = overlapped, srvReady' = srvReady
    PROVE  /\ client' \in [Sessions -> ClientType] /\ session' \in 0..MaxSessions
           /\ ClientsInv'
           /\ session # 0 /\ client[session].phase # "off" => client'[session].phase # "off"
           /\ client'[g] = r /\ \A h \in Sessions \ {g} : client'[h] = client[h]
  <1>1. session \in 0..MaxSessions /\ client \in [Sessions -> ClientType] /\ MaxSessions \in Nat
    BY BoundsAssumption DEF LinkInv, TypeInv
  <1>2. g \in Sessions
    BY <1>1 DEF Fits, Sessions
  <1>3. client' \in [Sessions -> ClientType] /\ client'[g] = r /\ \A h \in Sessions \ {g} : client'[h] = client[h]
    BY <1>1, <1>2 DEF Fits
  <1>4. session' # 0 /\ session' = session
    BY <1>1 DEF Fits
  <1>5. session \in Sessions
    BY <1>1, <1>4 DEF Sessions
  <1>6. \A h \in Sessions : h > session => client'[h] = NewClient
    BY <1>1, <1>3 DEF LinkInv, ClientsInv, Fits
  <1>7. \A h \in Sessions : h < session =>
          /\ client'[h].phase = "off" /\ client'[h].auto = <<>>
          /\ ~overlapped => client'[h].queue = <<>>
    BY <1>1, <1>3 DEF LinkInv, ClientsInv, Fits
  <1>8. CASE g = session
    <2>1. client'[session] = r
      BY <1>3, <1>8
    <2>2. /\ r.phase # "none"
          /\ r.phase \in {"quit", "off"} => r.auto = <<>>
          /\ r.phase # "off" => r.queue \in Seq(Told)
          /\ r.phase # "off" /\ ~srvReady => r.queue \in Seq(Early)
          /\ r.phase = "on" => srvReady
          /\ r.phase = "off" => client[session].phase = "off"
      BY <1>8 DEF Fits
    <2> QED
      BY <1>1, <1>3, <1>4, <1>6, <1>7, <2>1, <2>2 DEF ClientsInv, Abandoned
  <1>9. CASE g # session
    <2>1. client'[session] = client[session]
      BY <1>3, <1>5, <1>9
    <2> QED
      BY <1>1, <1>3, <1>4, <1>6, <1>7, <2>1 DEF ClientsInv, Abandoned, LinkInv
  <1> QED
    BY <1>8, <1>9

(* The clients that exist, and the one whose lines the server writes *)
LEMMA ClientFacts ==
    ASSUME LinkInv
    PROVE  /\ client \in [Sessions -> ClientType] /\ session \in Nat
           /\ \A g \in Sessions : client[g] \in ClientType
           /\ \A g \in Sessions : g \in Nat /\ (g <= session => g \in 1..session)
           /\ \A g \in 1..session : g \in Sessions
           /\ \A g \in Sessions : client[g] # NewClient => g \in 1..session
           /\ \A g \in 1..session : client[g].phase # "none"
           /\ \A g \in 1..session : ~Abandoned(g) => g = session
           /\ session # 0 => session \in 1..session
  <1>1. session \in 0..MaxSessions /\ client \in [Sessions -> ClientType] /\ MaxSessions \in Nat
    BY BoundsAssumption DEF LinkInv, TypeInv
  <1>2. \A g \in Sessions : client[g] # NewClient => g <= session
    BY <1>1 DEF Sessions, LinkInv, ClientsInv
  <1>3. \A g \in 1..session : g \in Sessions
    BY <1>1 DEF Sessions
  <1>4. \A g \in 1..session : g < session \/ g = session
    BY <1>1
  <1>5. \A g \in 1..session : client[g].phase # "none" /\ (~Abandoned(g) => g = session)
    BY <1>1, <1>3, <1>4 DEF LinkInv, ClientsInv, Abandoned
  <1> QED
    BY <1>1, <1>2, <1>3, <1>5 DEF Sessions

(* A client with its first line taken fits, and so does one that differs from it in other fields. *)
LEMMA HandledFits ==
    ASSUME LinkInv, NEW g \in Sessions, client[g].queue # <<>>
    PROVE  /\ g \in 1..session
           /\ Message(g) \in LineType
           /\ Handled(g) \in ClientType
           /\ Handled(g).queue = Tail(client[g].queue)
           /\ \A f \in {"phase", "nick", "manual", "names", "keys", "auto", "rejoin", "timer", "pass", "todo"} :
                 Handled(g)[f] = client[g][f]
           /\ \A r \in ClientType :
                 r.queue = Tail(client[g].queue) /\ r.phase = client[g].phase
                 /\ (Abandoned(g) => r.auto = client[g].auto)
                 => Fits(g, r)
  <1>1. client[g] \in ClientType /\ g \in Nat /\ session \in Nat
    BY ClientFacts
  <1>2. g \in 1..session
    BY <1>1, ClientFacts DEF NewClient
  <1>3. \A S : client[g].queue \in Seq(S) => Head(client[g].queue) \in S /\ Tail(client[g].queue) \in Seq(S)
    BY HeadTailProperties
  <1>4. client[g].queue \in Seq(LineType)
    BY <1>1 DEF ClientType
  <1>5. Message(g) \in LineType /\ Tail(client[g].queue) \in Seq(LineType)
    BY <1>3, <1>4 DEF Message
  <1>6. Handled(g) = [client[g] EXCEPT !.queue = Tail(client[g].queue)]
    BY DEF Handled
  <1>7. /\ Handled(g) \in ClientType /\ Handled(g).queue = Tail(client[g].queue)
        /\ \A f \in {"phase", "nick", "manual", "names", "keys", "auto", "rejoin", "timer", "pass", "todo"} :
                 Handled(g)[f] = client[g][f]
    BY <1>1, <1>5, <1>6 DEF ClientType
  <1>8. ASSUME NEW r \in ClientType, r.queue = Tail(client[g].queue), r.phase = client[g].phase,
               Abandoned(g) => r.auto = client[g].auto
        PROVE  Fits(g, r)
    <2>1. client[g].phase # "none"
      BY <1>2, ClientFacts
    <2>2. CASE g < session
      <3>1. client[g].phase = "off" /\ client[g].auto = <<>>
        BY <2>2 DEF LinkInv, ClientsInv
      <3> QED
        BY <1>1, <1>2, <1>8, <2>1, <2>2, <3>1 DEF Fits, Abandoned
    <2>3. CASE g = session
      <3>1. /\ session # 0
            /\ Abandoned(session) => client[session].auto = <<>>
            /\ client[session].phase # "off" =>
                  client[session].queue \in Seq(Told) /\ (~srvReady => client[session].queue \in Seq(Early))
            /\ client[session].phase = "on" => srvReady
        BY <1>1, <1>2, <2>3 DEF LinkInv, ClientsInv
      <3>2. client[g].phase # "off" =>
                  r.queue \in Seq(Told) /\ (~srvReady => r.queue \in Seq(Early))
        BY <1>3, <1>8, <2>3, <3>1
      <3>3. r.phase \in {"quit", "off"} => r.auto = <<>>
        BY <1>8, <2>3, <3>1 DEF Abandoned
      <3> QED
        BY <1>2, <1>8, <2>1, <2>3, <3>1, <3>2, <3>3 DEF Fits
    <2> QED
      BY <1>1, <1>2, <2>2, <2>3
  <1> QED
    BY <1>2, <1>5, <1>7, <1>8

(* So does the live client with more lines told. *)
LEMMA TellingFits ==
    ASSUME LinkInv, session # 0, client[session].phase # "off", NEW ls \in Seq(Told),
           ~srvReady => ls \in Seq(Early),
           NEW r \in ClientType, r.queue = client[session].queue \o ls, r.phase = client[session].phase,
           Abandoned(session) => r.auto = client[session].auto
    PROVE  Fits(session, r)
  <1>1. session \in 1..session /\ client[session].phase # "none"
    BY ClientFacts
  <1>2. /\ Abandoned(session) => client[session].auto = <<>>
        /\ client[session].queue \in Seq(Told)
        /\ ~srvReady => client[session].queue \in Seq(Early)
        /\ client[session].phase = "on" => srvReady
    BY DEF LinkInv, ClientsInv
  <1>3. r.queue \in Seq(Told) /\ (~srvReady => r.queue \in Seq(Early))
    BY <1>2, ConcatProperties
  <1>4. ~(session < session)
    BY <1>1
  <1> QED
    BY <1>1, <1>2, <1>3, <1>4 DEF Fits, Abandoned

(* Telling lines changes nothing but the queue. *)
LEMMA TelledType ==
    ASSUME NEW k \in ClientType, NEW ls \in Seq(Told)
    PROVE  LET r == [k EXCEPT !.queue = @ \o ls] IN
           /\ r \in ClientType /\ r.queue = k.queue \o ls
           /\ \A f \in {"phase", "nick", "manual", "names", "keys", "auto", "rejoin", "timer", "pass", "todo"} :
                 r[f] = k[f]
  <1>1. ls \in Seq(LineType) /\ k.queue \in Seq(LineType)
    BY SubsetLines DEF ClientType
  <1>2. k.queue \o ls \in Seq(LineType)
    BY <1>1, ConcatProperties
  <1> QED
    BY <1>2 DEF ClientType

(* A step of one client that fits keeps the link between client and server. *)
LEMMA LinkKept ==
    ASSUME LinkInv, NEW g, NEW r, Fits(g, r), client' = [client EXCEPT ![g] = r],
           UNCHANGED <<session, overlapped, srvReady, noImplicitNames>>,
           row' \in [Channels -> RowType], roster' \in [Channels -> Rosters],
           members' \in [Channels -> Rosters],
           inherited' \subseteq Channels, byUser' \subseteq Channels,
           request' \in RequestType \union {None}, request' # None => request'.by <= session,
           srvNick' \in Nicks \union {None},
           srvNick' # None => session # 0 /\ client[session].phase # "off",
           srvReady => srvNick' # None,
           ~srvReady => \A c \in Channels : ~(srvNick' # None /\ members'[c][srvNick'] # "out")
    PROVE  LinkInv'
  <1>1. /\ client' \in [Sessions -> ClientType] /\ session' \in 0..MaxSessions
        /\ ClientsInv'
        /\ session # 0 /\ client[session].phase # "off" => client'[session].phase # "off"
    BY ClientChanges
  <1>2. TypeInv'
    BY <1>1 DEF LinkInv, TypeInv
  <1>3. ServerInv'
    BY <1>1 DEF ServerInv, In
  <1>4. RequestInv'
    BY DEF RequestInv
  <1> QED
    BY <1>1, <1>2, <1>3, <1>4 DEF LinkInv

(* A callback writes its client and the rows. *)
LEMMA QuietKeepsLink ==
    ASSUME LinkInv, NEW g, NEW r, Fits(g, r), client' = [client EXCEPT ![g] = r], Quiet,
           row' \in [Channels -> RowType], roster' \in [Channels -> Rosters],
           inherited' \subseteq Channels, byUser' \subseteq Channels, overlapped' = overlapped
    PROVE  LinkInv'
  <1>1. UNCHANGED <<session, request, srvNick, srvReady, members, noImplicitNames>>
    BY DEF Quiet, server
  <1>2. /\ request \in RequestType \union {None} /\ srvNick \in Nicks \union {None}
        /\ members \in [Channels -> Rosters]
    BY DEF LinkInv, TypeInv
  <1>3. /\ request # None => request.by <= session
        /\ srvNick # None => session # 0 /\ client[session].phase # "off"
        /\ srvReady => srvNick # None
        /\ ~srvReady => \A c \in Channels : ~(srvNick # None /\ members[c][srvNick] # "out")
    BY DEF LinkInv, ServerInv, RequestInv, In
  <1> QED
    BY <1>1, <1>2, <1>3, LinkKept

(* Every callback keeps it. *)
LEMMA HandleKeepsLink ==
    ASSUME LinkInv, NEW g \in Sessions, Handle(g)
    PROVE  LinkInv'
  <1>1. client[g].queue # <<>>
    BY DEF Handle, Handles, HandleWelcome, HandleEndOfMotd, OnConnect, FinishDisconnect, HandleJoin,
           HandlePart, HandleKick, HandleQuit, HandleMode, HandleNick, HandleNickInUse, HandleNames,
           HandleEndOfNames, HandleJoinError
  <1>2. PICK m \in LineType : m = Message(g)
    BY <1>1, HandledFits
  <1>3. PICK h \in ClientType : h = Handled(g)
    BY <1>1, HandledFits
  <1>4. /\ h.queue = Tail(client[g].queue) /\ h.phase = client[g].phase /\ h.auto = client[g].auto
        /\ \A r \in ClientType :
              r.queue = h.queue /\ r.phase = h.phase /\ (Abandoned(g) => r.auto = h.auto) => Fits(g, r)
    BY <1>1, <1>3, HandledFits
  <1>5. /\ row \in [Channels -> RowType] /\ roster \in [Channels -> Rosters]
        /\ inherited \subseteq Channels /\ byUser \subseteq Channels
    BY DEF LinkInv, TypeInv
  <1>6. Fits(g, h)
    BY <1>4
  <1>7. /\ m.kind \in {"join", "part", "kick", "mode", "353", "366", "refused"} => m.chan \in Channels
        /\ m.kind \in {"001", "433", "join", "part", "kick", "quit", "nick", "mode"} => m.nick \in Nicks
        /\ m.kind = "nick" => m.arg \in Nicks
        /\ m.kind = "mode" => m.arg \in {"plain", "op"}
        /\ m.kind = "353" => m.arg \in Rosters
    BY DEF LineType
  <1>8. Handles(g, m.kind)
    BY <1>1, <1>2 DEF Handles
  <1>11. CASE HandleWelcome(g)
    <2>1. PICK r : r = [h EXCEPT !.nick = m.nick, !.timer = TRUE]
      OBVIOUS
    <2>2. m.kind = "001"
      BY <1>2, <1>11 DEF HandleWelcome, Handles
    <2>3. r \in ClientType /\ r.queue = h.queue /\ r.phase = h.phase /\ r.auto = h.auto
      BY <2>1, <2>2, <1>7 DEF ClientType
    <2>4. client' = [client EXCEPT ![g] = r] /\ UNCHANGED <<row, roster, inherited, byUser, overlapped>> /\ Quiet
      BY <2>1, <1>2, <1>3, <1>11 DEF HandleWelcome, storage, ghosts
    <2> QED
      BY <2>3, <2>4, <1>4, <1>5, QuietKeepsLink
  <1>12. CASE HandleEndOfMotd(g)
    <2>1. PICK r : r = Triggered(h)
      OBVIOUS
    <2>3. r \in ClientType /\ r.queue = h.queue /\ r.phase = h.phase /\ r.auto = h.auto
      BY <2>1 DEF ClientType, Triggered
    <2>4. client' = [client EXCEPT ![g] = r] /\ UNCHANGED <<row, roster, inherited, byUser, overlapped>> /\ Quiet
      BY <2>1, <1>2, <1>3, <1>12 DEF HandleEndOfMotd, storage, ghosts
    <2> QED
      BY <2>3, <2>4, <1>4, <1>5, QuietKeepsLink
  <1>13. CASE OnConnect(g)
    <2>0. roster' \in [Channels -> Rosters] /\ UNCHANGED <<row, inherited, byUser, overlapped>> /\ Quiet
      BY <1>13, <1>5, RostersType DEF OnConnect, ghosts, ClearNetworkChannelUsers, Rosters, Nobody, Statuses
    <2>1. CASE Abandoned(g)
      <3>1. client' = [client EXCEPT ![g] = h]
        BY <2>1, <1>3, <1>13 DEF OnConnect
      <3> QED
        BY <3>1, <2>0, <1>5, <1>6, QuietKeepsLink
    <2>2. CASE ~Abandoned(g)
      <3>1. PICK r : r = [h EXCEPT !.phase = "on"]
        OBVIOUS
      <3>2. client' = [client EXCEPT ![g] = r]
        BY <2>2, <3>1, <1>3, <1>13 DEF OnConnect
      <3>3. r \in ClientType /\ r.queue = h.queue /\ r.phase = "on"
        BY <3>1 DEF ClientType, Phases
      <3>4. g \in 1..session /\ g = session /\ session \in Nat
        BY <2>2, <1>1, HandledFits, ClientFacts
      <3>5. client[session].phase # "off" /\ session # 0
        BY <2>2, <3>4 DEF Abandoned
      <3>6. m.kind = "connected" /\ m = Head(client[session].queue)
        BY <1>2, <1>13, <3>4 DEF OnConnect, Handles, Message
      <3>7. srvReady
        <4>1. SUFFICES ASSUME ~srvReady PROVE FALSE
          OBVIOUS
        <4>2. client[session].queue \in Seq(Early)
          BY <4>1, <3>5 DEF LinkInv, ClientsInv
        <4>3. m \in Early
          BY <4>2, <3>4, <3>6, <1>1, HeadTailProperties
        <4> QED
          BY <4>3, <3>6 DEF Early
      <3>8. Fits(g, h) /\ h.phase # "off"
        BY <1>4, <1>6, <3>4, <3>5
      <3>9. Fits(g, r)
        BY <3>3, <3>4, <3>7, <3>8 DEF Fits
      <3> QED
        BY <2>0, <3>2, <3>9, <1>5, QuietKeepsLink
    <2> QED
      BY <2>1, <2>2
  <1>14. CASE FinishDisconnect(g)
    <2>1. PICK r : r = [NewClient EXCEPT !.phase = "off"]
      OBVIOUS
    <2>2. client' = [client EXCEPT ![g] = r] /\ Quiet /\ UNCHANGED <<row, inherited, byUser, overlapped>>
      BY <2>1, <1>14 DEF FinishDisconnect, ghosts
    <2>3. roster' \in [Channels -> Rosters]
      BY <1>14 DEF FinishDisconnect, ClearNetworkChannelUsers, Rosters, Nobody, Statuses
    <2>4. r \in ClientType /\ r.phase = "off" /\ r.auto = <<>> /\ r.queue = <<>>
      <3>1. NewClient.auto = <<>> /\ NewClient.queue = <<>>
        BY DEF NewClient
      <3> QED
        BY <2>1, <3>1, NewClientType DEF ClientType, Phases
    <2>5. g \in 1..session
      BY <1>1, HandledFits
    <2>6. m.kind = "disconnected" /\ m = Head(client[g].queue)
      BY <1>2, <1>14 DEF FinishDisconnect, Handles, Message
    <2>7. g = session => client[g].phase = "off"
      <3>1. SUFFICES ASSUME g = session, client[session].phase # "off" PROVE FALSE
        OBVIOUS
      <3>2. client[session].queue \in Seq(Told)
        BY <3>1, <2>5 DEF LinkInv, ClientsInv
      <3>3. m \in Told
        BY <3>1, <3>2, <2>6, <1>1, HeadTailProperties
      <3> QED
        BY <3>3, <2>6 DEF Told
    <2>8. Fits(g, r)
      BY <2>4, <2>5, <2>7 DEF Fits
    <2> QED
      BY <2>2, <2>3, <2>8, <1>5, QuietKeepsLink
  <1>15. CASE HandleJoin(g)
    <2>1. PICK me : me = IsMe(g, m.nick)
      OBVIOUS
    <2>2. PICK r : r = [h EXCEPT
                          !.keys[m.chan] = IF me THEN Nothing ELSE @,
                          !.auto = IF me /\ noImplicitNames /\ ~Abandoned(g) THEN Append(@, m.chan) ELSE @]
      OBVIOUS
    <2>3. m.kind = "join" /\ Quiet /\ client' = [client EXCEPT ![g] = r]
      BY <2>1, <2>2, <1>2, <1>3, <1>15 DEF HandleJoin, Handles
    <2>4. m.chan \in Channels /\ m.nick \in Nicks
      BY <2>3, <1>7
    <2>5. r.queue = h.queue /\ r.phase = h.phase /\ (Abandoned(g) => r.auto = h.auto)
      BY <2>2 DEF ClientType
    <2>6. /\ [h.keys EXCEPT ![m.chan] = IF me THEN Nothing ELSE @] \in [Channels -> Keys \union {Nothing}]
          /\ (IF me /\ noImplicitNames /\ ~Abandoned(g) THEN Append(h.auto, m.chan) ELSE h.auto) \in Seq(Channels)
      BY <2>4 DEF ClientType
    <2>7. r \in ClientType
      BY <2>2, <2>6 DEF ClientType
    <2>8. client[g].keys \in [Channels -> Keys \union {Nothing}]
      BY ClientFacts DEF ClientType
    <2>9. row' \in [Channels -> RowType]
      <3>1. PICK c \in Channels : c = m.chan
        BY <2>4
      <3>2. PICK pending \in Keys \union {Nothing} : pending = client[g].keys[c]
        BY <2>8
      <3>3. PICK me2 \in BOOLEAN : me2 = IsMe(g, m.nick)
        BY DEF IsMe
      <3>4. row' = [row EXCEPT ![c].exists = TRUE, ![c].open = @ \/ me2,
                       ![c].key = IF me2 /\ pending # Nothing THEN pending ELSE @]
        BY <3>1, <3>2, <3>3, <1>2, <1>15 DEF HandleJoin
      <3>5. row \in [Channels -> RowType] /\ row[c] \in RowType
        BY <1>5
      <3>6. PICK open \in BOOLEAN, key \in Keys :
                open = (row[c].open \/ me2) /\ key = IF me2 /\ pending # Nothing THEN pending ELSE row[c].key
        BY <3>5 DEF RowType
      <3>7. PICK now \in RowType : now = [row[c] EXCEPT !.exists = TRUE, !.open = open, !.key = key]
        BY <3>5, JoinedRow
      <3>8. row' = [row EXCEPT ![c] = now]
        BY <3>4, <3>6, <3>7
      <3> QED
        BY <3>5, <3>8
    <2>10. roster' \in [Channels -> Rosters]
      <3>1. roster' = [roster EXCEPT ![m.chan][m.nick] = "plain"]
        BY <1>2, <1>15 DEF HandleJoin
      <3> QED
        BY <3>1, <2>4, <1>5 DEF Rosters, Statuses
    <2>11. inherited' \subseteq Channels /\ byUser' \subseteq Channels /\ overlapped' = overlapped
      BY <1>15, <1>5 DEF HandleJoin, Settle, ghosts
    <2> QED
      BY <2>3, <2>5, <2>7, <2>9, <2>10, <2>11, <1>4, QuietKeepsLink
  <1>16. CASE HandlePart(g) \/ HandleKick(g)
    <2>1. m.kind \in {"part", "kick"} /\ Quiet /\ client' = [client EXCEPT ![g] = h]
      BY <1>2, <1>3, <1>16 DEF HandlePart, HandleKick, Handles
    <2>2. m.chan \in Channels /\ m.nick \in Nicks
      BY <2>1, <1>7
    <2>3. roster' \in [Channels -> Rosters]
      <3>1. roster' = IF m.chan \in Rows THEN [roster EXCEPT ![m.chan][m.nick] = "out"] ELSE roster
        BY <1>2, <1>16 DEF HandlePart, HandleKick, RemoveChannelUser
      <3> QED
        BY <3>1, <2>2, <1>5 DEF Rosters, Statuses
    <2>4. row' \in [Channels -> RowType]
      <3>1. row' = row \/ row' = [row EXCEPT ![m.chan].open = FALSE /\ row[m.chan].exists]
        BY <1>2, <1>16 DEF HandlePart, HandleKick, UpdateChannelIsOpen
      <3>2. row[m.chan] \in RowType
        BY <2>2, <1>5
      <3>3. PICK now \in RowType : now = [row[m.chan] EXCEPT !.open = FALSE /\ row[m.chan].exists]
        <4>1. (FALSE /\ row[m.chan].exists) \in BOOLEAN
          OBVIOUS
        <4> QED
          BY <3>2, <4>1, LeftRow
      <3>4. row' = row \/ row' = [row EXCEPT ![m.chan] = now]
        BY <3>1, <3>3
      <3> QED
        BY <3>4, <2>2, <1>5
    <2>5. inherited' \subseteq Channels /\ byUser' \subseteq Channels /\ overlapped' = overlapped
      BY <1>16, <1>5 DEF HandlePart, HandleKick, Settle, ghosts
    <2> QED
      BY <2>1, <2>3, <2>4, <2>5, <1>6, QuietKeepsLink
  <1>17. CASE HandleQuit(g)
    <2>1. m.kind = "quit" /\ Quiet /\ client' = [client EXCEPT ![g] = h] /\ UNCHANGED <<row, inherited, byUser, overlapped>>
      BY <1>2, <1>3, <1>17 DEF HandleQuit, Handles, ghosts
    <2>2. roster' \in [Channels -> Rosters]
      <3>1. roster' = [c \in Channels |-> [roster[c] EXCEPT ![m.nick] = "out"]]
        BY <1>2, <1>17 DEF HandleQuit
      <3> QED
        BY <3>1, <2>1, <1>5, <1>7 DEF Rosters, Statuses
    <2> QED
      BY <2>1, <2>2, <1>5, <1>6, QuietKeepsLink
  <1>18. CASE HandleMode(g)
    <2>1. m.kind = "mode" /\ Quiet /\ client' = [client EXCEPT ![g] = h] /\ UNCHANGED <<row, inherited, byUser, overlapped>>
      BY <1>2, <1>3, <1>18 DEF HandleMode, Handles, ghosts
    <2>2. roster' \in [Channels -> Rosters]
      <3>1. roster' = IF roster[m.chan][m.nick] = "out" THEN roster ELSE [roster EXCEPT ![m.chan][m.nick] = m.arg]
        BY <1>2, <1>18 DEF HandleMode
      <3> QED
        BY <3>1, <2>1, <1>5, <1>7 DEF Rosters, Statuses
    <2> QED
      BY <2>1, <2>2, <1>5, <1>6, QuietKeepsLink
  <1>19. CASE HandleNick(g)
    <2>1. m.kind = "nick" /\ Quiet /\ UNCHANGED <<row, inherited, byUser, overlapped>>
      BY <1>2, <1>3, <1>19 DEF HandleNick, Handles, ghosts
    <2>2. roster' \in [Channels -> Rosters]
      <3>1. roster' = [c \in Channels |-> IF roster[c][m.nick] = "out" THEN roster[c]
                                          ELSE RenamedIn(roster[c], m.nick, m.arg)]
        BY <1>2, <1>19 DEF HandleNick, UpdateChannelUserNickname
      <3>2. \A c \in Channels : RenamedIn(roster[c], m.nick, m.arg) \in Rosters
        BY <2>1, <1>5, <1>7, RostersType
      <3> QED
        BY <3>1, <3>2, <1>5
    <2>3. PICK r : r = IF m.nick # h.nick THEN h ELSE [h EXCEPT !.nick = m.arg, !.manual = None]
      OBVIOUS
    <2>4. client' = [client EXCEPT ![g] = r]
      BY <2>3, <1>2, <1>3, <1>19 DEF HandleNick
    <2>5. r \in ClientType /\ r.queue = h.queue /\ r.phase = h.phase /\ r.auto = h.auto
      BY <2>1, <2>3, <1>7 DEF ClientType
    <2> QED
      BY <2>1, <2>2, <2>4, <2>5, <1>4, <1>5, QuietKeepsLink
  <1>20. CASE HandleNickInUse(g)
    <2>1. PICK r : r = IF h.manual = m.nick THEN [h EXCEPT !.manual = None] ELSE h
      OBVIOUS
    <2>2. client' = [client EXCEPT ![g] = r] /\ Quiet /\ UNCHANGED <<row, roster, inherited, byUser, overlapped>>
      BY <2>1, <1>2, <1>3, <1>20 DEF HandleNickInUse, storage, ghosts
    <2>3. r \in ClientType /\ r.queue = h.queue /\ r.phase = h.phase /\ r.auto = h.auto
      BY <2>1 DEF ClientType
    <2> QED
      BY <2>2, <2>3, <1>4, <1>5, QuietKeepsLink
  <1>21. CASE HandleNames(g)
    <2>1. m.kind = "353" /\ Quiet /\ UNCHANGED <<row, inherited, byUser, overlapped>>
      BY <1>2, <1>3, <1>21 DEF HandleNames, Handles, ghosts
    <2>2. PICK before : before = IF m.chan \in client[g].names THEN roster[m.chan] ELSE Nobody
      OBVIOUS
    <2>3. roster' \in [Channels -> Rosters]
      <3>1. roster' = IF m.chan \notin Rows THEN roster
                     ELSE [roster EXCEPT ![m.chan] =
                              [n \in Nicks |-> IF m.arg[n] = "out" THEN before[n] ELSE m.arg[n]]]
        BY <2>2, <1>2, <1>21 DEF HandleNames
      <3>2. m.chan \in Channels /\ m.arg \in Rosters
        BY <2>1, <1>7
      <3>3. before \in Rosters
        BY <2>2, <3>2, <1>5 DEF Nobody, Rosters, Statuses
      <3> QED
        BY <3>1, <3>2, <3>3, <1>5 DEF Rosters
    <2>4. PICK r : r = IF m.chan \in Rows THEN [h EXCEPT !.names = @ \union {m.chan}] ELSE h
      OBVIOUS
    <2>5. client' = [client EXCEPT ![g] = r]
      BY <2>4, <1>2, <1>3, <1>21 DEF HandleNames
    <2>6. r \in ClientType /\ r.queue = h.queue /\ r.phase = h.phase /\ r.auto = h.auto
      BY <2>1, <2>4, <1>7 DEF ClientType
    <2> QED
      BY <2>1, <2>3, <2>5, <2>6, <1>4, <1>5, QuietKeepsLink
  <1>22. CASE HandleEndOfNames(g)
    <2>1. PICK r : r = [h EXCEPT !.names = @ \ {m.chan}]
      OBVIOUS
    <2>2. client' = [client EXCEPT ![g] = r] /\ Quiet /\ UNCHANGED <<row, roster, inherited, byUser, overlapped>>
      BY <2>1, <1>2, <1>3, <1>22 DEF HandleEndOfNames, storage, ghosts
    <2>3. r \in ClientType /\ r.queue = h.queue /\ r.phase = h.phase /\ r.auto = h.auto
      BY <2>1 DEF ClientType
    <2> QED
      BY <2>2, <2>3, <1>4, <1>5, QuietKeepsLink
  <1>23. CASE HandleJoinError(g)
    <2>1. m.kind = "refused" /\ Quiet /\ client' = [client EXCEPT ![g] = h] /\ UNCHANGED <<roster, overlapped>>
      BY <1>2, <1>3, <1>23 DEF HandleJoinError, Handles, Settle
    <2>2. row' \in [Channels -> RowType]
      <3>1. row' = [row EXCEPT ![m.chan].open = FALSE /\ row[m.chan].exists]
        BY <1>2, <1>23 DEF HandleJoinError, UpdateChannelIsOpen
      <3> QED
        BY <3>1, <1>5 DEF RowType
    <2>3. inherited' \subseteq Channels /\ byUser' \subseteq Channels
      BY <1>23, <1>5 DEF HandleJoinError, Settle
    <2> QED
      BY <2>1, <2>2, <2>3, <1>5, <1>6, QuietKeepsLink
  <1> QED
    BY <1>11, <1>12, <1>13, <1>14, <1>15, <1>16, <1>17, <1>18, <1>19, <1>20, <1>21, <1>22, <1>23 DEF Handle

(* So does a step that leaves the clients alone. *)
LEMMA LinkKeptAlone ==
    ASSUME LinkInv,
           UNCHANGED <<client, session, overlapped, srvReady, noImplicitNames>>,
           row' \in [Channels -> RowType], roster' \in [Channels -> Rosters],
           members' \in [Channels -> Rosters],
           inherited' \subseteq Channels, byUser' \subseteq Channels,
           request' \in RequestType \union {None}, request' # None => request'.by <= session,
           srvNick' = srvNick,
           ~srvReady => \A c \in Channels : ~(srvNick # None /\ members'[c][srvNick] # "out")
    PROVE  LinkInv'
  <1>1. TypeInv'
    BY DEF LinkInv, TypeInv
  <1>2. ClientsInv'
    BY DEF LinkInv, ClientsInv, Abandoned
  <1>3. ServerInv'
    BY DEF LinkInv, ServerInv, In
  <1>4. RequestInv'
    BY DEF RequestInv
  <1> QED
    BY <1>1, <1>2, <1>3, <1>4 DEF LinkInv

(* The server tells the live client something: r is that client but for its queue. *)
LEMMA TellKeepsLink ==
    ASSUME LinkInv, session # 0, client[session].phase # "off", NEW ls \in Seq(Told),
           ~srvReady => ls \in Seq(Early),
           NEW k \in ClientType, k.queue = client[session].queue, k.phase = client[session].phase,
           Abandoned(session) => k.auto = client[session].auto,
           client' = [client EXCEPT ![session] = [k EXCEPT !.queue = @ \o ls]],
           UNCHANGED <<session, row, roster, srvReady, noImplicitNames, inherited, byUser, overlapped>>,
           members' \in [Channels -> Rosters],
           request' \in RequestType \union {None}, request' # None => request'.by <= session,
           srvNick' \in Nicks \union {None}, srvReady => srvNick' # None,
           ~srvReady => \A c \in Channels : ~(srvNick' # None /\ members'[c][srvNick'] # "out")
    PROVE  LinkInv'
  <1>1. PICK r : r = [k EXCEPT !.queue = @ \o ls]
    OBVIOUS
  <1>2. r \in ClientType /\ r.queue = k.queue \o ls /\ r.phase = k.phase /\ r.auto = k.auto
    BY <1>1, TelledType
  <1>3. Fits(session, r)
    BY <1>2, TellingFits
  <1>4. /\ row' \in [Channels -> RowType] /\ roster' \in [Channels -> Rosters]
        /\ inherited' \subseteq Channels /\ byUser' \subseteq Channels
    BY DEF LinkInv, TypeInv
  <1>5. client' = [client EXCEPT ![session] = r] /\ UNCHANGED <<session, overlapped, srvReady, noImplicitNames>>
    BY <1>1
  <1> QED
    BY <1>3, <1>4, <1>5, LinkKept

(* What the link says of the server *)
LEMMA LiveServer ==
    ASSUME LinkInv
    PROVE  /\ srvNick # None => session # 0 /\ client[session].phase # "off"
           /\ srvReady => srvNick # None
           /\ srvNick # None => srvNick \in Nicks
           /\ \A c \in Channels : In(c) => srvReady
           /\ IsOn => srvReady
           /\ session # 0 => client[session] \in ClientType
           /\ members \in [Channels -> Rosters] /\ srvNick \in Nicks \union {None}
           /\ request \in RequestType \union {None} /\ (request # None => request.by <= session)
  BY ClientFacts DEF LinkInv, ServerInv, TypeInv, ClientsInv, IsOn, RequestInv

(* The answer to a JOIN keeps the link. *)
LEMMA AnswerJoinKeepsLink ==
    ASSUME LinkInv, srvReady, NEW c \in Channels, NEW key, NEW k \in ClientType,
           k.queue = client[session].queue, k.phase = client[session].phase,
           Abandoned(session) => k.auto = client[session].auto,
           AnswerJoin(session, k, c, key),
           UNCHANGED <<session, row, roster, srvNick, srvReady, noImplicitNames, inherited, byUser, overlapped>>,
           request' \in RequestType \union {None}, request' # None => request'.by <= session
    PROVE  LinkInv'
  <1>1. /\ session # 0 /\ client[session].phase # "off" /\ srvNick \in Nicks /\ srvNick # None
        /\ members \in [Channels -> Rosters]
    BY LiveServer
  <1>2. PICK ls : /\ client' = [client EXCEPT ![session] = [k EXCEPT !.queue = @ \o ls]]
                  /\ \/ ls = <<>> /\ members' = members
                     \/ ls = JoinReply(c) /\ members' = MembersWithUs(c)
                     \/ ls = <<Line("refused", c, None, None)>> /\ members' = members
    BY DEF AnswerJoin
  <1>3. ls \in Seq(Early)
    <2>1. <<>> \in Seq(Early) /\ JoinReply(c) \in Seq(Early) /\ <<Line("refused", c, None, None)>> \in Seq(Early)
      BY <1>1, JoinReplyType, LinesType, OneLineSeq
    <2> QED
      BY <1>2, <2>1
  <1>4. members' \in [Channels -> Rosters]
    BY <1>1, <1>2, JoinReplyType
  <1>5. ls \in Seq(Told) /\ srvNick' \in Nicks \union {None} /\ srvNick' # None
    BY <1>1, <1>3, SubsetLines
  <1>6. UNCHANGED <<session, row, roster, srvReady, noImplicitNames, inherited, byUser, overlapped>>
    OBVIOUS
  <1>7. client' = [client EXCEPT ![session] = [k EXCEPT !.queue = @ \o ls]]
    BY <1>2
  <1> QED
    BY <1>1, <1>4, <1>5, <1>6, <1>7, TellKeepsLink

(* The answer to a NICK keeps the link. *)
LEMMA AnswerNickKeepsLink ==
    ASSUME LinkInv, srvReady, NEW new \in Nicks, AnswerNick(new),
           UNCHANGED <<session, row, roster, srvReady, noImplicitNames, inherited, byUser, overlapped>>,
           request' \in RequestType \union {None}, request' # None => request'.by <= session
    PROVE  LinkInv'
  <1>1. /\ session # 0 /\ client[session].phase # "off" /\ srvNick \in Nicks /\ srvNick # None
        /\ members \in [Channels -> Rosters] /\ client[session] \in ClientType
    BY LiveServer
  <1>2. CASE /\ srvNick' = new
             /\ members' = [c \in Channels |-> RenamedIn(members[c], srvNick, new)]
             /\ Tell(<<Line("nick", None, srvNick, new)>>)
    <2>1. PICK ls : ls = <<Line("nick", None, srvNick, new)>>
      OBVIOUS
    <2>2. ls \in Seq(Told)
      BY <2>1, <1>1, LinesType, OneLineSeq, SubsetLines
    <2>3. \A c \in Channels : RenamedIn(members[c], srvNick, new) \in Rosters
      BY <1>1, RostersType
    <2>4. members' \in [Channels -> Rosters]
      BY <1>2, <2>3
    <2>5. client' = [client EXCEPT ![session] = [client[session] EXCEPT !.queue = @ \o ls]]
      BY <1>2, <2>1 DEF Tell
    <2>6. srvNick' \in Nicks \union {None} /\ srvNick' # None
      BY <1>2, NamesAssumption
    <2>7. UNCHANGED <<session, row, roster, srvReady, noImplicitNames, inherited, byUser, overlapped>>
      OBVIOUS
    <2> QED
      BY <1>1, <2>2, <2>4, <2>5, <2>6, <2>7, TellKeepsLink
  <1>3. CASE Tell(<<Line("433", None, new, None)>>) /\ UNCHANGED <<srvNick, members>>
    <2>1. PICK ls : ls = <<Line("433", None, new, None)>>
      OBVIOUS
    <2>2. ls \in Seq(Told)
      BY <2>1, <1>1, LinesType, OneLineSeq, SubsetLines
    <2>4. members' \in [Channels -> Rosters]
      BY <1>1, <1>3
    <2>5. client' = [client EXCEPT ![session] = [client[session] EXCEPT !.queue = @ \o ls]]
      BY <1>3, <2>1 DEF Tell
    <2>6. srvNick' \in Nicks \union {None} /\ srvNick' # None
      BY <1>1, <1>3
    <2>7. UNCHANGED <<session, row, roster, srvReady, noImplicitNames, inherited, byUser, overlapped>>
      OBVIOUS
    <2> QED
      BY <1>1, <2>2, <2>4, <2>5, <2>6, <2>7, TellKeepsLink
  <1>4. CASE UNCHANGED <<client, srvNick, members>>
    <2>1. /\ row' \in [Channels -> RowType] /\ roster' \in [Channels -> Rosters]
          /\ inherited' \subseteq Channels /\ byUser' \subseteq Channels
          /\ UNCHANGED <<client, session, overlapped, srvReady, noImplicitNames>>
      BY <1>4 DEF LinkInv, TypeInv
    <2> QED
      BY <1>1, <1>4, <2>1, LinkKeptAlone
  <1> QED
    BY <1>2, <1>3, <1>4 DEF AnswerNick

(* Others move; the live client is told where it shares a channel with them. *)
LEMMA SeenKeepsLink ==
    ASSUME LinkInv, NEW ls \in Seq(Told),
           (Tell(ls) /\ srvReady) \/ UNCHANGED client,
           UNCHANGED <<session, storage, request, srvNick, srvReady, noImplicitNames, ghosts>>,
           members' \in [Channels -> Rosters],
           srvNick # None => \A c \in Channels : members'[c][srvNick] # "out" => members[c][srvNick] # "out"
    PROVE  LinkInv'
  <1>1. UNCHANGED <<session, row, roster, srvReady, noImplicitNames, inherited, byUser, overlapped>>
    BY DEF storage, ghosts
  <1>2. /\ row' \in [Channels -> RowType] /\ roster' \in [Channels -> Rosters]
        /\ inherited' \subseteq Channels /\ byUser' \subseteq Channels
        /\ request' \in RequestType \union {None} /\ (request' # None => request'.by <= session)
        /\ srvNick' \in Nicks \union {None}
    BY <1>1, LiveServer DEF LinkInv, TypeInv
  <1>3. ~srvReady => \A c \in Channels : ~(srvNick # None /\ members'[c][srvNick] # "out")
    BY LiveServer DEF In
  <1>4. CASE Tell(ls) /\ srvReady
    <2>1. /\ session # 0 /\ client[session].phase # "off" /\ srvNick # None
          /\ client[session] \in ClientType
      BY <1>4, LiveServer
    <2>2. client' = [client EXCEPT ![session] = [client[session] EXCEPT !.queue = @ \o ls]]
      BY <1>4 DEF Tell
    <2> QED
      BY <1>1, <1>2, <1>3, <1>4, <2>1, <2>2, TellKeepsLink
  <1>5. CASE UNCHANGED client
    BY <1>1, <1>2, <1>3, <1>5, LinkKeptAlone
  <1> QED
    BY <1>4, <1>5

(* Registration begins the link. *)
LEMMA RegisterKeepsLink ==
    ASSUME LinkInv, Register
    PROVE  LinkInv'
  <1>1. /\ session # 0 /\ client[session].phase = "registering" /\ srvNick = None
        /\ UNCHANGED <<session, row, roster, srvReady, noImplicitNames, inherited, byUser, overlapped>>
        /\ UNCHANGED <<request, members>>
    BY DEF Register, storage, ghosts
  <1>2. PICK n \in Nicks, ls \in Seq(Early) : srvNick' = n /\ Free(n) /\ Tell(ls)
    <2>1. Me \in Nicks /\ Alt \in Nicks
      BY DEF Nicks
    <2>2. /\ <<Line("001", None, Me, None)>> \in Seq(Early)
          /\ <<Line("433", None, Me, None), Line("001", None, Alt, None)>> \in Seq(Early)
      BY <2>1, LinesType
    <2>3. CASE Free(Me) /\ srvNick' = Me /\ Tell(<<Line("001", None, Me, None)>>)
      BY <2>1, <2>2, <2>3
    <2>4. CASE Free(Alt) /\ srvNick' = Alt /\ Tell(<<Line("433", None, Me, None), Line("001", None, Alt, None)>>)
      BY <2>1, <2>2, <2>4
    <2> QED
      BY <2>3, <2>4 DEF Register
  <1>3. ls \in Seq(Told) /\ client[session] \in ClientType /\ members' \in [Channels -> Rosters]
    BY <1>1, <1>2, SubsetLines, LiveServer
  <1>4. client' = [client EXCEPT ![session] = [client[session] EXCEPT !.queue = @ \o ls]]
    BY <1>2 DEF Tell
  <1>5. /\ request' \in RequestType \union {None} /\ (request' # None => request'.by <= session)
        /\ srvNick' \in Nicks \union {None} /\ srvNick' # None
    BY <1>1, <1>2, LiveServer, NamesAssumption
  <1>6. \A c \in Channels : ~(srvNick' # None /\ members'[c][srvNick'] # "out")
    BY <1>1, <1>2 DEF Free
  <1> QED
    BY <1>1, <1>2, <1>3, <1>4, <1>5, <1>6, TellKeepsLink

(* The end of the greeting is the last of the early lines. *)
LEMMA EndGreetingKeepsLink ==
    ASSUME LinkInv, EndGreeting
    PROVE  LinkInv'
  <1> DEFINE ls == <<Line("376", None, None, None), Line("connected", None, None, None)>>
             r == [client[session] EXCEPT !.queue = @ \o ls]
  <1>1. /\ srvNick # None /\ ~srvReady /\ srvReady' = TRUE
        /\ client' = [client EXCEPT ![session] = r]
        /\ UNCHANGED <<session, row, roster, request, srvNick, members, noImplicitNames, inherited, byUser, overlapped>>
    BY DEF EndGreeting, Tell, storage, ghosts
  <1>2. session # 0 /\ client[session].phase # "off" /\ client[session] \in ClientType
    BY <1>1, LiveServer
  <1>3. ls \in Seq(Told)
    BY LinesType, SubsetLines
  <1> HIDE DEF ls
  <1>4. r \in ClientType /\ r.queue = client[session].queue \o ls /\ r.phase = client[session].phase
        /\ r.auto = client[session].auto
    BY <1>2, <1>3, TelledType
  <1> HIDE DEF r
  <1>5. session \in Sessions /\ session \in 1..session /\ client \in [Sessions -> ClientType]
    BY <1>2, ClientFacts
  <1>6. client'[session] = r /\ \A h \in Sessions : h # session => client'[h] = client[h]
    BY <1>1, <1>5
  <1>7. client' \in [Sessions -> ClientType]
    BY <1>1, <1>4, <1>5
  <1>8. TypeInv'
    BY <1>1, <1>7 DEF LinkInv, TypeInv
  <1>9. r.queue \in Seq(Told)
    <2>1. client[session].queue \in Seq(Told)
      BY <1>2 DEF LinkInv, ClientsInv
    <2> QED
      BY <2>1, <1>3, <1>4, ConcatProperties
  <1>10. ClientsInv'
    <2>1. \A g \in Sessions : g > session => client'[g] = NewClient
      BY <1>5, <1>6 DEF LinkInv, ClientsInv
    <2>2. \A g \in Sessions : g < session =>
            /\ client'[g].phase = "off" /\ client'[g].auto = <<>>
            /\ ~overlapped => client'[g].queue = <<>>
      BY <1>5, <1>6 DEF LinkInv, ClientsInv
    <2>3. client[session].phase # "none" /\ (Abandoned(session) => client[session].auto = <<>>)
      BY <1>2 DEF LinkInv, ClientsInv
    <2> QED
      BY <2>1, <2>2, <2>3, <1>1, <1>4, <1>6, <1>9 DEF ClientsInv, Abandoned
  <1>11. ServerInv' /\ RequestInv'
    BY <1>1, <1>2, <1>4, <1>6 DEF LinkInv, ServerInv, RequestInv
  <1> QED
    BY <1>8, <1>10, <1>11 DEF LinkInv

(* Every step of the server keeps the link. *)
LEMMA ServerKeepsLink ==
    ASSUME LinkInv, ServerStep
    PROVE  LinkInv'
  <1>0. /\ srvNick # None => srvNick \in Nicks
        /\ members \in [Channels -> Rosters]
        /\ \A c \in Channels : In(c) => srvReady
    BY LiveServer
  <1>1. CASE Register
    BY <1>1, RegisterKeepsLink
  <1>2. CASE EndGreeting
    BY <1>2, EndGreetingKeepsLink
  <1>3. CASE AskPreferred
    <2>1. /\ srvReady /\ Me \in Nicks /\ AnswerNick(Me) /\ request' = request
          /\ UNCHANGED <<session, row, roster, srvReady, noImplicitNames, inherited, byUser, overlapped>>
      BY <1>3 DEF AskPreferred, storage, ghosts, Nicks
    <2>2. request' \in RequestType \union {None} /\ (request' # None => request'.by <= session)
      BY <2>1, LiveServer
    <2> QED
      BY <2>1, <2>2, AnswerNickKeepsLink
  <1>4. ASSUME NEW c \in Channels, ForceJoin(c) PROVE LinkInv'
    <2>1. /\ srvReady /\ members' = MembersWithUs(c) /\ Tell(JoinReply(c)) /\ srvNick' = srvNick /\ request' = request
          /\ UNCHANGED <<session, row, roster, srvReady, noImplicitNames, inherited, byUser, overlapped>>
      BY <1>4 DEF ForceJoin, storage, ghosts
    <2>2. /\ session # 0 /\ client[session].phase # "off" /\ srvNick \in Nicks /\ srvNick # None
          /\ client[session] \in ClientType
          /\ request' \in RequestType \union {None} /\ (request' # None => request'.by <= session)
      BY <2>1, LiveServer
    <2>3. PICK ls : ls = JoinReply(c)
      OBVIOUS
    <2>4. ls \in Seq(Told) /\ members' \in [Channels -> Rosters]
      BY <2>1, <2>2, <2>3, <1>0, JoinReplyType, SubsetLines
    <2>5. client' = [client EXCEPT ![session] = [client[session] EXCEPT !.queue = @ \o ls]]
      BY <2>1, <2>3 DEF Tell
    <2>6. srvNick' \in Nicks \union {None} /\ srvNick' # None
      BY <2>1, <2>2
    <2> QED
      BY <2>1, <2>2, <2>4, <2>5, <2>6, TellKeepsLink
  <1>5. ASSUME NEW c \in Channels, NEW n \in Nicks, Arrive(c, n) PROVE LinkInv'
    <2>1. /\ n # srvNick /\ members' = [members EXCEPT ![c][n] = "plain"]
          /\ Seen(c, <<Line("join", c, n, None)>>)
          /\ UNCHANGED <<session, storage, request, srvNick, srvReady, noImplicitNames, ghosts>>
      BY <1>5 DEF Arrive
    <2>2. PICK ls \in Seq(Told) : Seen(c, ls)
      BY <2>1, LinesType, SubsetLines, OneLineSeq
    <2>3. (Tell(ls) /\ srvReady) \/ UNCHANGED client
      BY <2>2, <1>0 DEF Seen
    <2>4. members' \in [Channels -> Rosters]
      BY <2>1, <1>0 DEF Rosters, Statuses
    <2>5. srvNick # None => \A d \in Channels : members'[d][srvNick] # "out" => members[d][srvNick] # "out"
      BY <2>1, <1>0 DEF Rosters
    <2> QED
      BY <2>1, <2>3, <2>4, <2>5, SeenKeepsLink
  <1>6. ASSUME NEW c \in Channels, NEW n \in Nicks, Remove(c, n) PROVE LinkInv'
    <2>1. /\ members' = [members EXCEPT ![c][n] = "out"]
          /\ \E kind \in {"part", "kick"} : Seen(c, <<Line(kind, c, n, None)>>)
          /\ UNCHANGED <<session, storage, request, srvNick, srvReady, noImplicitNames, ghosts>>
      BY <1>6 DEF Remove
    <2>2. PICK ls \in Seq(Told) : Seen(c, ls)
      BY <2>1, LinesType, SubsetLines, OneLineSeq
    <2>3. (Tell(ls) /\ srvReady) \/ UNCHANGED client
      BY <2>2, <1>0 DEF Seen
    <2>4. members' \in [Channels -> Rosters]
      BY <2>1, <1>0 DEF Rosters, Statuses
    <2>5. srvNick # None => \A d \in Channels : members'[d][srvNick] # "out" => members[d][srvNick] # "out"
      BY <2>1, <1>0 DEF Rosters
    <2> QED
      BY <2>1, <2>3, <2>4, <2>5, SeenKeepsLink
  <1>7. ASSUME NEW c \in Channels, NEW n \in Nicks, SetMode(c, n) PROVE LinkInv'
    <2>1. PICK mode \in {"plain", "op"} :
             /\ members' = [members EXCEPT ![c][n] = mode] /\ Seen(c, <<Line("mode", c, n, mode)>>)
             /\ members[c][n] # "out"
             /\ UNCHANGED <<session, storage, request, srvNick, srvReady, noImplicitNames, ghosts>>
      BY <1>7 DEF SetMode
    <2>2. PICK ls \in Seq(Told) : Seen(c, ls)
      BY <2>1, LinesType, SubsetLines, OneLineSeq
    <2>3. (Tell(ls) /\ srvReady) \/ UNCHANGED client
      BY <2>2, <1>0 DEF Seen
    <2>4. members' \in [Channels -> Rosters]
      BY <2>1, <1>0 DEF Rosters, Statuses
    <2>5. srvNick # None => \A d \in Channels : members'[d][srvNick] # "out" => members[d][srvNick] # "out"
      BY <2>1, <1>0 DEF Rosters
    <2> QED
      BY <2>1, <2>3, <2>4, <2>5, SeenKeepsLink
  <1>8. ASSUME NEW n \in Nicks, QuitUser(n) PROVE LinkInv'
    <2>1. /\ n # srvNick
          /\ members' = [c \in Channels |-> [members[c] EXCEPT ![n] = "out"]]
          /\ IF Shared(n) THEN Tell(<<Line("quit", None, n, None)>>) ELSE UNCHANGED client
          /\ UNCHANGED <<session, storage, request, srvNick, srvReady, noImplicitNames, ghosts>>
      BY <1>8 DEF QuitUser
    <2>2. PICK ls \in Seq(Told) : ls = <<Line("quit", None, n, None)>>
      BY LinesType, SubsetLines, OneLineSeq
    <2>3. (Tell(ls) /\ srvReady) \/ UNCHANGED client
      BY <2>1, <2>2, <1>0 DEF Shared
    <2>4. members' \in [Channels -> Rosters]
      BY <2>1, <1>0 DEF Rosters, Statuses
    <2>5. srvNick # None => \A d \in Channels : members'[d][srvNick] # "out" => members[d][srvNick] # "out"
      BY <2>1, <1>0 DEF Rosters
    <2> QED
      BY <2>1, <2>3, <2>4, <2>5, SeenKeepsLink
  <1>9. ASSUME NEW n \in Nicks, NEW new \in Nicks, RenameUser(n, new) PROVE LinkInv'
    <2>1. /\ n # srvNick /\ Free(new)
          /\ members' = [c \in Channels |-> RenamedIn(members[c], n, new)]
          /\ IF Shared(n) THEN Tell(<<Line("nick", None, n, new)>>) ELSE UNCHANGED client
          /\ UNCHANGED <<session, storage, request, srvNick, srvReady, noImplicitNames, ghosts>>
      BY <1>9 DEF RenameUser
    <2>2. PICK ls \in Seq(Told) : ls = <<Line("nick", None, n, new)>>
      BY LinesType, SubsetLines, OneLineSeq
    <2>3. (Tell(ls) /\ srvReady) \/ UNCHANGED client
      BY <2>1, <2>2, <1>0 DEF Shared
    <2>4. members' \in [Channels -> Rosters]
      BY <2>1, <1>0, RostersType
    <2>5. new # srvNick
      BY <2>1 DEF Free
    <2>6. srvNick # None => \A d \in Channels : members'[d][srvNick] # "out" => members[d][srvNick] # "out"
      BY <2>1, <2>5, <1>0 DEF Rosters, RenamedIn
    <2> QED
      BY <2>1, <2>3, <2>4, <2>6, SeenKeepsLink
  <1> QED
    BY <1>1, <1>2, <1>3, <1>4, <1>5, <1>6, <1>7, <1>8, <1>9 DEF ServerStep

(* A new session starts with nothing said and no nick. *)
LEMMA ConnectKeepsLink ==
    ASSUME LinkInv, NEW rejoin \in BOOLEAN, Connect(rejoin)
    PROVE  LinkInv'
  <1>1. PICK s : s = session + 1
    OBVIOUS
  <1>2. PICK k : k = [NewClient EXCEPT !.phase = "registering", !.rejoin = rejoin]
    OBVIOUS
  <1>3. /\ session < MaxSessions /\ session' = s /\ client' = [client EXCEPT ![s] = k]
        /\ session # 0 => client[session].phase = "off"
        /\ overlapped' = \E g \in Sessions : ~Drained(g)
        /\ inherited' = {c \in Channels : row[c].open} /\ byUser' = {}
        /\ UNCHANGED <<row, roster, request, srvNick, srvReady, members, noImplicitNames>>
    BY <1>1, <1>2 DEF Connect, storage, server
  <1>4. /\ session \in 0..MaxSessions /\ MaxSessions \in Nat /\ client \in [Sessions -> ClientType]
    BY BoundsAssumption DEF LinkInv, TypeInv
  <1>5. s \in Sessions /\ s \in Nat /\ session \in Nat /\ session < s /\ s # 0
    BY <1>1, <1>3, <1>4 DEF Sessions
  <1>6. k \in ClientType /\ k.phase = "registering" /\ k.queue = <<>> /\ k.auto = <<>>
    <2>1. NewClient.queue = <<>> /\ NewClient.auto = <<>>
      BY DEF NewClient
    <2> QED
      BY <1>2, <2>1, NewClientType DEF ClientType, Phases
  <1>7. client' \in [Sessions -> ClientType] /\ client'[s] = k /\ \A g \in Sessions \ {s} : client'[g] = client[g]
    BY <1>3, <1>4, <1>5, <1>6
  <1>8. TypeInv'
    <2>1. /\ inherited' \subseteq Channels /\ byUser' \subseteq Channels /\ overlapped' \in BOOLEAN
          /\ session' \in 0..MaxSessions
      BY <1>1, <1>3, <1>4
    <2> QED
      BY <1>3, <1>7, <2>1 DEF LinkInv, TypeInv
  <1>9. \A g \in Sessions : g > s => client'[g] = NewClient
    BY <1>1, <1>4, <1>5, <1>7 DEF LinkInv, ClientsInv, Sessions
  <1>10. ASSUME NEW g \in Sessions, g < s
         PROVE  /\ client'[g].phase = "off" /\ client'[g].auto = <<>>
                /\ ~overlapped' => client'[g].queue = <<>>
    <2>1. g \in Nat /\ (g < session \/ g = session) /\ g # s /\ g # 0
      BY <1>1, <1>4, <1>5, <1>10 DEF Sessions
    <2>2. client[g].phase = "off" /\ client[g].auto = <<>>
      BY <1>3, <2>1 DEF LinkInv, ClientsInv, Abandoned
    <2>3. ~overlapped' => client[g].queue = <<>>
      BY <1>3 DEF Drained
    <2> QED
      BY <1>7, <2>1, <2>2, <2>3
  <1>11. ~srvReady /\ srvNick = None
    BY <1>3 DEF LinkInv, ServerInv
  <1>12. ClientsInv'
    BY <1>3, <1>5, <1>6, <1>7, <1>9, <1>10, EmptySeq DEF ClientsInv, Abandoned
  <1>13. ServerInv'
    BY <1>3, <1>11 DEF ServerInv, In
  <1>14. RequestInv'
    <2>1. request # None => request.by <= session /\ request.by \in Nat
      BY DEF LinkInv, RequestInv, TypeInv, RequestType, Sessions
    <2> QED
      BY <1>3, <1>5, <2>1 DEF RequestInv
  <1> QED
    BY <1>8, <1>12, <1>13, <1>14 DEF LinkInv

(* A drop ends the link, and the lines end with its announcement. *)
LEMMA DropKeepsLink ==
    ASSUME LinkInv, Drop
    PROVE  LinkInv'
  <1>1. PICK k : k = [client[session] EXCEPT !.phase = "off", !.nick = None, !.manual = None, !.auto = <<>>,
                       !.queue = Append(@, Line("disconnected", None, None, None))]
    OBVIOUS
  <1>2. /\ session # 0 /\ client' = [client EXCEPT ![session] = k] /\ srvNick' = None /\ srvReady' = FALSE
        /\ UNCHANGED <<session, row, roster, request, noImplicitNames, inherited, byUser, overlapped>>
    BY <1>1 DEF Drop, storage, ghosts
  <1>3. /\ client \in [Sessions -> ClientType] /\ session \in Sessions /\ client[session] \in ClientType
        /\ session \in 0..MaxSessions /\ members \in [Channels -> Rosters] /\ session \in Nat
    BY <1>2, ClientFacts DEF LinkInv, TypeInv
  <1>4. k \in ClientType /\ k.phase = "off" /\ k.auto = <<>>
    <2>1. Append(client[session].queue, Line("disconnected", None, None, None)) \in Seq(LineType)
      BY <1>3, LinesType, AppendProperties DEF ClientType
    <2> QED
      BY <1>1, <1>3, <2>1, EmptySeq DEF ClientType, Phases
  <1>5. client' \in [Sessions -> ClientType] /\ client'[session] = k /\ \A g \in Sessions \ {session} : client'[g] = client[g]
    BY <1>2, <1>3, <1>4
  <1>6. members' \in [Channels -> Rosters]
    <2>1. CASE members' = members
      BY <2>1, <1>3
    <2>2. CASE members' = [c \in Channels |-> [members[c] EXCEPT ![srvNick] = "out"]]
      BY <2>2, <1>3 DEF Rosters, Statuses
    <2> QED
      BY <2>1, <2>2 DEF Drop
  <1>7. TypeInv'
    BY <1>2, <1>5, <1>6 DEF LinkInv, TypeInv
  <1>8. \A g \in Sessions : g > session => client'[g] = NewClient
    BY <1>3, <1>5 DEF LinkInv, ClientsInv
  <1>9. \A g \in Sessions : g < session =>
          /\ client'[g].phase = "off" /\ client'[g].auto = <<>>
          /\ ~overlapped => client'[g].queue = <<>>
    BY <1>3, <1>5 DEF LinkInv, ClientsInv
  <1>10. ClientsInv'
    BY <1>2, <1>4, <1>5, <1>8, <1>9 DEF ClientsInv, Abandoned
  <1>11. ServerInv' /\ RequestInv'
    BY <1>2 DEF ServerInv, In, RequestInv, LinkInv
  <1> QED
    BY <1>7, <1>10, <1>11 DEF LinkInv

(* A client as it is fits. *)
LEMMA SelfFits ==
    ASSUME LinkInv, NEW g \in 1..session
    PROVE  client[g] \in ClientType /\ Fits(g, client[g])
  <1>1. client[g] \in ClientType /\ client[g].phase # "none" /\ g \in Sessions /\ session \in Nat
    BY ClientFacts
  <1>2. g < session => client[g].phase = "off" /\ client[g].auto = <<>>
    BY <1>1 DEF LinkInv, ClientsInv
  <1>3. g = session => /\ client[g].phase \in {"quit", "off"} => client[g].auto = <<>>
                       /\ client[g].phase # "off" => client[g].queue \in Seq(Told)
                       /\ client[g].phase # "off" /\ ~srvReady => client[g].queue \in Seq(Early)
                       /\ client[g].phase = "on" => srvReady
    BY <1>1 DEF LinkInv, ClientsInv, Abandoned
  <1> QED
    BY <1>1, <1>2, <1>3 DEF Fits

(* The auto-join and the paced requests keep the link. *)
LEMMA WorkersKeepLink ==
    ASSUME LinkInv, NEW g \in Sessions,
           AutoJoinTimer(g) \/ DoAutoJoin(g) \/ AutoJoinNext(g) \/ AutomaticRequest(g)
    PROVE  LinkInv'
  <1>0. client[g] \in ClientType /\ session \in Nat
    BY ClientFacts
  <1>1. g \in 1..session
    <2>1. client[g] # NewClient
      <3>1. NewClient.timer = FALSE /\ NewClient.pass = "armed" /\ NewClient.auto = <<>>
        BY DEF NewClient
      <3> QED
        BY <1>0, <3>1 DEF AutoJoinTimer, DoAutoJoin, AutoJoinNext, AutomaticRequest, ClientType
    <2> QED
      BY <2>1, ClientFacts
  <1>2. ~Abandoned(g) /\ g = session
    <2>1. AutomaticRequest(g) => ~Abandoned(g)
      <3>1. g < session \/ g = session
        BY <1>1, <1>0
      <3> QED
        BY <3>1, <1>1 DEF LinkInv, ClientsInv, AutomaticRequest, Abandoned
    <2>2. ~Abandoned(g)
      BY <2>1 DEF AutoJoinTimer, DoAutoJoin, AutoJoinNext
    <2> QED
      BY <2>2, <1>1, ClientFacts
  <1>3. Fits(g, client[g])
    BY <1>1, SelfFits
  <1>4. /\ row \in [Channels -> RowType] /\ roster \in [Channels -> Rosters]
        /\ inherited \subseteq Channels /\ byUser \subseteq Channels
    BY DEF LinkInv, TypeInv
  <1>5. \A r \in ClientType : r.queue = client[g].queue /\ r.phase = client[g].phase /\ r.auto = client[g].auto
                              => Fits(g, r)
    BY <1>3 DEF Fits
  <1>6. CASE AutoJoinTimer(g)
    <2>1. PICK r : r = Triggered([client[g] EXCEPT !.timer = FALSE])
      OBVIOUS
    <2>2. r \in ClientType /\ r.queue = client[g].queue /\ r.phase = client[g].phase /\ r.auto = client[g].auto
      <3>1. PICK k : k = [client[g] EXCEPT !.timer = FALSE]
        OBVIOUS
      <3>2. k \in ClientType /\ k.queue = client[g].queue /\ k.phase = client[g].phase /\ k.auto = client[g].auto
        BY <3>1, <1>0 DEF ClientType
      <3>3. r = Triggered(k)
        BY <2>1, <3>1
      <3> QED
        BY <3>2, <3>3 DEF ClientType, Triggered
    <2>3. client' = [client EXCEPT ![g] = r] /\ UNCHANGED <<row, roster, inherited, byUser, overlapped>> /\ Quiet
      BY <2>1, <1>6 DEF AutoJoinTimer, storage, ghosts
    <2> QED
      BY <2>2, <2>3, <1>4, <1>5, QuietKeepsLink
  <1>7. CASE DoAutoJoin(g)
    <2>1. PICK todo : todo = ChannelsToJoin(client[g].rejoin)
      OBVIOUS
    <2>2. todo \subseteq [chan : Channels, key : Keys]
      BY <2>1, <1>4 DEF ChannelsToJoin, Rows, RowType
    <2>3. PICK r : r = [client[g] EXCEPT !.pass = "send", !.todo = todo]
      OBVIOUS
    <2>4. r \in ClientType /\ r.queue = client[g].queue /\ r.phase = client[g].phase /\ r.auto = client[g].auto
      BY <2>2, <2>3, <1>0 DEF ClientType
    <2>5. client' = [client EXCEPT ![g] = r] /\ UNCHANGED <<row, roster, inherited, byUser, overlapped>> /\ Quiet
      BY <2>1, <2>3, <1>7 DEF DoAutoJoin, storage, ghosts
    <2> QED
      BY <2>4, <2>5, <1>4, <1>5, QuietKeepsLink
  <1>8. CASE AutoJoinNext(g)
    <2>0. /\ UNCHANGED <<session, row, roster, srvNick, srvReady, noImplicitNames, inherited, byUser, overlapped>>
          /\ request' \in RequestType \union {None} /\ (request' # None => request'.by <= session)
      BY <1>8, LiveServer DEF AutoJoinNext, storage, ghosts
    <2>1. CASE client' = [client EXCEPT ![g].pass = "done"] /\ UNCHANGED members
      <3>1. PICK r : r = [client[g] EXCEPT !.pass = "done"]
        OBVIOUS
      <3>2. r \in ClientType /\ r.queue = client[g].queue /\ r.phase = client[g].phase /\ r.auto = client[g].auto
        BY <3>1, <1>0 DEF ClientType
      <3>3. client' = [client EXCEPT ![g] = r]
        BY <2>1, <3>1
      <3>4. Quiet
        BY <1>8, <2>1 DEF Quiet, server, AutoJoinNext
      <3> QED
        BY <3>2, <3>3, <3>4, <2>0, <1>4, <1>5, QuietKeepsLink
    <2>2. ASSUME NEW j \in client[g].todo, srvReady,
                 AnswerJoin(g, [client[g] EXCEPT !.todo = @ \ {j}], j.chan, j.key)
          PROVE  LinkInv'
      <3>1. PICK k : k = [client[g] EXCEPT !.todo = @ \ {j}]
        OBVIOUS
      <3>2. k \in ClientType /\ k.queue = client[g].queue /\ k.phase = client[g].phase /\ k.auto = client[g].auto
        BY <3>1, <1>0 DEF ClientType
      <3>3. j.chan \in Channels
        BY <1>0 DEF ClientType
      <3>4. AnswerJoin(session, k, j.chan, j.key)
        BY <2>2, <3>1, <1>2
      <3> QED
        BY <2>0, <2>2, <3>2, <3>3, <3>4, <1>2, AnswerJoinKeepsLink
    <2> QED
      BY <2>1, <2>2, <1>8 DEF AutoJoinNext
  <1>9. CASE AutomaticRequest(g)
    <2>1. PICK c : c = Head(client[g].auto)
      OBVIOUS
    <2>2. client[g].auto \in Seq(Channels) /\ client[g].auto # <<>> /\ srvReady
      BY <1>0, <1>9 DEF ClientType, AutomaticRequest
    <2>3. c \in Channels /\ Tail(client[g].auto) \in Seq(Channels)
      BY <2>1, <2>2, HeadTailProperties
    <2>4. PICK q : q = NamesReply(c, members[c])
      OBVIOUS
    <2>5. q \in Seq(Told)
      BY <2>3, <2>4, LiveServer, NamesReplyType, SubsetLines
    <2>6. PICK k : k = [client[g] EXCEPT !.auto = Tail(@)]
      OBVIOUS
    <2>7. k \in ClientType /\ k.queue = client[g].queue /\ k.phase = client[g].phase
      BY <2>3, <2>6, <1>0 DEF ClientType
    <2>8. PICK r : r = [client[g] EXCEPT !.auto = Tail(@), !.queue = @ \o q]
      OBVIOUS
    <2>9. r.queue = client[g].queue \o q /\ r.phase = client[g].phase
      BY <2>8, <1>0 DEF ClientType
    <2>10. r \in ClientType
      <3>1. client[g].queue \o q \in Seq(LineType)
        BY <2>5, <1>0, SubsetLines, ConcatProperties DEF ClientType
      <3> QED
        BY <2>3, <2>8, <3>1, <1>0 DEF ClientType
    <2>11. session # 0 /\ client[session].phase # "off"
      BY <2>2, LiveServer
    <2>12. Fits(session, r)
      BY <2>2, <2>5, <2>9, <2>10, <2>11, <1>2, TellingFits
    <2>13. client' = [client EXCEPT ![session] = r] /\ UNCHANGED <<row, roster, inherited, byUser, overlapped>> /\ Quiet
      BY <2>1, <2>4, <2>8, <1>2, <1>9 DEF AutomaticRequest, storage, ghosts
    <2> QED
      BY <2>12, <2>13, <1>4, QuietKeepsLink
  <1> QED
    BY <1>6, <1>7, <1>8, <1>9

(* The calls of the frontend keep the link. *)
LEMMA UserKeepsLink ==
    ASSUME LinkInv, UserStep
    PROVE  LinkInv'
  <1>0. /\ row \in [Channels -> RowType] /\ roster \in [Channels -> Rosters]
        /\ inherited \subseteq Channels /\ byUser \subseteq Channels
        /\ client \in [Sessions -> ClientType] /\ members \in [Channels -> Rosters]
    BY DEF LinkInv, TypeInv
  <1>00. /\ request \in RequestType \union {None} /\ (request # None => request.by <= session)
         /\ srvNick \in Nicks \union {None} /\ (IsOn => srvReady)
         /\ srvNick # None => session # 0 /\ client[session].phase # "off"
         /\ srvReady => srvNick # None
         /\ ~srvReady => \A c \in Channels : ~(srvNick # None /\ members[c][srvNick] # "out")
    BY LiveServer DEF In
  <1>1. CASE SignalQuit
    <2>1. PICK r : r = [client[session] EXCEPT !.phase = "quit", !.auto = <<>>]
      OBVIOUS
    <2>2. /\ session # 0 /\ client[session].phase # "off" /\ client' = [client EXCEPT ![session] = r]
          /\ UNCHANGED <<row, roster, inherited, byUser, overlapped>> /\ Quiet
      BY <2>1, <1>1 DEF SignalQuit, storage, ghosts, Quiet
    <2>3. client[session] \in ClientType /\ Fits(session, client[session])
      BY <2>2, ClientFacts, SelfFits
    <2>4. r \in ClientType /\ r.queue = client[session].queue /\ r.phase = "quit" /\ r.auto = <<>>
      BY <2>1, <2>3, EmptySeq DEF ClientType, Phases
    <2>5. Fits(session, r)
      BY <2>2, <2>3, <2>4 DEF Fits
    <2> QED
      BY <2>2, <2>5, <1>0, QuietKeepsLink
  <1>2. CASE RecordPendingJoinKey
    <2>1. /\ request # None /\ request.kind = "key" /\ request' = None
          /\ client' = [client EXCEPT ![request.by].keys[request.chan] = request.arg]
          /\ UNCHANGED <<session, row, roster, srvNick, srvReady, members, noImplicitNames, inherited, byUser, overlapped>>
      BY <1>2 DEF RecordPendingJoinKey, storage, ghosts, server
    <2>2. PICK g : g = request.by
      OBVIOUS
    <2>3. g \in 1..session /\ request.chan \in Channels /\ request.arg \in Keys
      BY <2>1, <2>2, <1>00, ClientFacts DEF RequestType
    <2>4. client[g] \in ClientType /\ Fits(g, client[g])
      BY <2>3, SelfFits
    <2>5. PICK keys : keys = [client[g].keys EXCEPT ![request.chan] = request.arg]
      OBVIOUS
    <2>6. keys \in [Channels -> Keys \union {Nothing}]
      BY <2>3, <2>4, <2>5 DEF ClientType
    <2>7. PICK r : r = [client[g] EXCEPT !.keys = keys]
      OBVIOUS
    <2>8. r \in ClientType /\ r.queue = client[g].queue /\ r.phase = client[g].phase /\ r.auto = client[g].auto
      BY <2>4, <2>6, <2>7 DEF ClientType
    <2>9. Fits(g, r)
      BY <2>4, <2>8 DEF Fits
    <2>10. client' = [client EXCEPT ![g] = r]
      BY <2>1, <2>2, <2>5, <2>7
    <2> QED
      BY <2>1, <2>9, <2>10, <1>0, <1>00, LinkKept
  <1>3. CASE SendNick
    <2>1. /\ request # None /\ request.kind \in {"nick", "manual"} /\ request' = None
          /\ UNCHANGED <<session, row, roster, srvReady, noImplicitNames, inherited, byUser, overlapped>>
      BY <1>3 DEF SendNick, storage, ghosts
    <2>2. PICK g : g = request.by
      OBVIOUS
    <2>3. g \in 1..session /\ request.arg \in {Me, Alt} /\ request.arg \in Nicks /\ request.kind = "nick"
      BY <2>1, <2>2, <1>00, ClientFacts DEF RequestType, Nicks
    <2>4. client[g] \in ClientType /\ Fits(g, client[g])
      BY <2>3, SelfFits
    <2>5. CASE IsOn /\ AnswerNick(request.arg)
      <3>1. PICK new \in Nicks : AnswerNick(new)
        BY <2>3, <2>5
      <3> QED
        BY <3>1, <2>1, <2>5, <1>00, AnswerNickKeepsLink
    <2>6. CASE /\ client' = [client EXCEPT ![request.by].manual =
                     IF request.kind = "manual" THEN request.arg
                     ELSE IF @ = request.arg THEN None ELSE @]
               /\ UNCHANGED <<srvNick, members>>
      <3>1. PICK x : x = IF client[g].manual = request.arg THEN None ELSE client[g].manual
        OBVIOUS
      <3>2. PICK r : r = [client[g] EXCEPT !.manual = x]
        OBVIOUS
      <3>3. client' = [client EXCEPT ![g] = r]
        BY <3>1, <3>2, <2>1, <2>2, <2>3, <2>6
      <3>4. x \in Nicks \union {None}
        BY <3>1, <2>4 DEF ClientType
      <3>5. r \in ClientType /\ r.queue = client[g].queue /\ r.phase = client[g].phase /\ r.auto = client[g].auto
        BY <3>2, <3>4, <2>4 DEF ClientType
      <3>6. Fits(g, r)
        BY <2>4, <3>5 DEF Fits
      <3> QED
        BY <2>1, <2>6, <3>3, <3>6, <1>0, <1>00, LinkKept
    <2> QED
      BY <2>5, <2>6, <1>3 DEF SendNick
  <1>4. ASSUME NEW new \in {Me, Alt}, ChangeNick(new) PROVE LinkInv'
    <2>1. PICK r : r = [client[session] EXCEPT !.manual = new]
      OBVIOUS
    <2>2. /\ session # 0 /\ client' = [client EXCEPT ![session] = r]
          /\ request' = [kind |-> "nick", by |-> session, chan |-> None, arg |-> new]
          /\ UNCHANGED <<session, row, roster, srvNick, srvReady, members, noImplicitNames, inherited, byUser, overlapped>>
      BY <2>1, <1>4 DEF ChangeNick, IsOn, storage, ghosts, server
    <2>3. client[session] \in ClientType /\ Fits(session, client[session]) /\ session \in Sessions /\ session \in Nat
      BY <2>2, ClientFacts, SelfFits
    <2>4. r \in ClientType /\ r.queue = client[session].queue /\ r.phase = client[session].phase /\ r.auto = client[session].auto
      BY <2>1, <2>3 DEF ClientType, Nicks
    <2>5. Fits(session, r)
      BY <2>3, <2>4 DEF Fits
    <2>6. request' \in RequestType \union {None} /\ request'.by = session
      BY <2>2, <2>3 DEF RequestType
    <2>7. request' # None => request'.by <= session
      BY <2>3, <2>6
    <2> QED
      BY <2>2, <2>5, <2>6, <2>7, <1>0, <1>00, LinkKept
  <1>5. ASSUME NEW c \in Channels, NEW open \in BOOLEAN, SetChannelOpen(c, open) PROVE LinkInv'
    <2>1. /\ row' = [row EXCEPT ![c].open = open /\ row[c].exists]
          /\ byUser' = byUser \union {c} /\ inherited' = inherited \ {c}
          /\ UNCHANGED <<client, session, roster, request, srvNick, srvReady, members, noImplicitNames, overlapped>>
      BY <1>5 DEF SetChannelOpen, UpdateChannelIsOpen, server
    <2>2. row' \in [Channels -> RowType] /\ inherited' \subseteq Channels /\ byUser' \subseteq Channels
      BY <2>1, <1>0 DEF RowType
    <2> QED
      BY <2>1, <2>2, <1>0, <1>00, LinkKeptAlone
  <1>6. ASSUME NEW c \in Channels, ToggleChannelAutoJoin(c) PROVE LinkInv'
    <2>1. /\ row' = [row EXCEPT ![c].autoJoin = ~@]
          /\ UNCHANGED <<client, session, roster, request, srvNick, srvReady, members, noImplicitNames, inherited, byUser, overlapped>>
      BY <1>6 DEF ToggleChannelAutoJoin, server, ghosts
    <2>2. row' \in [Channels -> RowType]
      BY <2>1, <1>0 DEF RowType
    <2> QED
      BY <2>1, <2>2, <1>0, <1>00, LinkKeptAlone
  <1>7. ASSUME NEW c \in Channels, LeaveChannel(c) PROVE LinkInv'
    <2>1. CASE SetChannelOpen(c, FALSE)
      BY <2>1, <1>5
    <2>2. CASE /\ IsOn /\ In(c) /\ members' = [members EXCEPT ![c][srvNick] = "out"]
               /\ Tell(<<Line("part", c, srvNick, None)>>)
               /\ UNCHANGED <<session, storage, request, srvNick, srvReady, noImplicitNames, ghosts>>
      <3>1. srvNick # None /\ srvNick \in Nicks
        BY <2>2, <1>00 DEF In
      <3>2. PICK ls \in Seq(Told) : Tell(ls)
        BY <3>1, <2>2, LinesType, SubsetLines, OneLineSeq
      <3>3. members' \in [Channels -> Rosters]
        BY <3>1, <2>2, <1>0 DEF Rosters, Statuses
      <3>4. srvNick # None => \A d \in Channels : members'[d][srvNick] # "out" => members[d][srvNick] # "out"
        BY <3>1, <2>2, <1>0 DEF Rosters
      <3>5. UNCHANGED <<session, storage, request, srvNick, srvReady, noImplicitNames, ghosts>>
        BY <2>2
      <3>6. Tell(ls) /\ srvReady
        BY <3>2, <2>2, <1>00
      <3> QED
        BY <3>3, <3>4, <3>5, <3>6, SeenKeepsLink
    <2> QED
      BY <2>1, <2>2, <1>7 DEF LeaveChannel
  <1>8. ASSUME NEW c \in Channels, NEW key \in Keys, JoinChannelWithKey(c, key) PROVE LinkInv'
    <2>1. /\ IsOn /\ session # 0 /\ AnswerJoin(session, client[session], c, key)
          /\ request' = [kind |-> "key", by |-> session, chan |-> c, arg |-> key]
          /\ UNCHANGED <<session, row, roster, srvNick, srvReady, noImplicitNames, inherited, byUser, overlapped>>
      BY <1>8 DEF JoinChannelWithKey, IsOn, storage, ghosts
    <2>2. client[session] \in ClientType /\ session \in Sessions /\ session \in Nat
      BY <2>1, ClientFacts
    <2>3. request' \in RequestType \union {None} /\ request'.by = session
      BY <2>1, <2>2 DEF RequestType
    <2>4. request' # None => request'.by <= session
      BY <2>2, <2>3
    <2>5. srvReady
      BY <2>1, <1>00
    <2> QED
      BY <2>1, <2>2, <2>3, <2>4, <2>5, AnswerJoinKeepsLink
  <1> QED
    BY <1>1, <1>2, <1>3, <1>4, <1>5, <1>6, <1>7, <1>8 DEF UserStep

(* At the start there is no link. *)
LEMMA InitLink == Init => LinkInv
  <1> SUFFICES ASSUME Init PROVE LinkInv
    OBVIOUS
  <1>1. /\ client = [g \in Sessions |-> NewClient] /\ session = 0
        /\ row \in [Channels -> {NoRow, RowToJoin}]
        /\ roster = [c \in Channels |-> Nobody] /\ request = None
        /\ srvNick = None /\ srvReady = FALSE /\ members = [c \in Channels |-> Nobody]
        /\ noImplicitNames \in BOOLEAN /\ inherited = {} /\ byUser = {} /\ overlapped = FALSE
    BY DEF Init
  <1>2. client \in [Sessions -> ClientType] /\ session \in 0..MaxSessions
    BY <1>1, NewClientType, BoundsAssumption
  <1>3. row \in [Channels -> RowType]
    <2>1. NoRow \in RowType /\ RowToJoin \in RowType
      BY DEF NoRow, RowToJoin, RowType, Keys
    <2> QED
      BY <1>1, <2>1
  <1>4. [c \in Channels |-> Nobody] \in [Channels -> Rosters]
    BY DEF Nobody, Rosters, Statuses
  <1>5. TypeInv
    BY <1>1, <1>2, <1>3, <1>4 DEF TypeInv
  <1>6. ClientsInv
    BY <1>1 DEF ClientsInv, Sessions
  <1>7. ServerInv /\ RequestInv
    BY <1>1 DEF ServerInv, RequestInv, In
  <1> QED
    BY <1>5, <1>6, <1>7 DEF LinkInv

(* The link is inductive. *)
LEMMA NextLink ==
    ASSUME LinkInv, [Next]_vars
    PROVE  LinkInv'
  <1>1. CASE UNCHANGED vars
    BY <1>1 DEF vars, storage, server, ghosts, LinkInv, TypeInv, ClientsInv, ServerInv, RequestInv, In, Abandoned
  <1>2. CASE Next
    BY <1>2, ConnectKeepsLink, DropKeepsLink, ServerKeepsLink, UserKeepsLink, HandleKeepsLink, WorkersKeepLink
       DEF Next
  <1> QED
    BY <1>1, <1>2

------------------------------------------------------------------------------
(* The lines in the queue of the live client make of its view what the server holds. *)

Up == session # 0 /\ client[session].phase \in {"registering", "on"} /\ ~overlapped

Listed(c, s) == \E i \in 1..Len(s) : s[i] = c

NickTold(e) ==
    /\ srvNick = None => client[session].queue = <<>>
    /\ srvNick # None => e.nick = srvNick

(* The roster of a channel we are in is the server's, or NAMES will be asked for. *)
RosterComes(auto, e, said) ==
    /\ e.names = {}
    /\ \A c \in Channels : In(c) =>
          /\ c \in e.rows
          /\ \/ e.roster[c] = members[c]
             \/ noImplicitNames /\ (Listed(c, auto) \/ said[c] = "in")

RosterTold(e, said) == RosterComes(client[session].auto, e, said)

ManualComes(manual, ans) ==
    \/ manual \in {None, srvNick} \union ans
    \/ request # None /\ request.kind = "nick" /\ request.by = session /\ request.arg = manual

ManualTold(ans) == ManualComes(client[session].manual, ans)

OpenTold(said) ==
    \A c \in Channels :
       /\ said[c] = "in" => In(c)
       /\ said[c] = "out" => ~In(c)
       /\ said[c] = "nothing" => c \in inherited \union byUser \/ (row[c].open <=> In(c))

(* A flag of an earlier session is settled by a line to come, or by a join to come. *)
RejoinTold(said) ==
    /\ client[session].pass = "done" => client[session].todo = {}
    /\ \A c \in inherited :
          /\ row[c].open
          /\ In(c) => said[c] # "nothing"
          /\ client[session].rejoin /\ client[session].pass \in {"send", "done"} =>
                (\E j \in client[session].todo : j.chan = c) \/ said[c] # "nothing"

Agreed(e, said, ans) ==
    /\ Leads(client[session].queue, ViewOf(client[session]), e, said, ans)
    /\ NickTold(e) /\ RosterTold(e, said) /\ ManualTold(ans) /\ OpenTold(said) /\ RejoinTold(said)

AgreeInv == Up => \E e, said, ans : Agreed(e, said, ans)

(* What the live client knows is a view. *)
LEMMA ViewType ==
    ASSUME LinkInv, session # 0
    PROVE  ViewOf(client[session]) \in View
  <1>1. client[session] \in ClientType /\ roster \in [Channels -> Rosters]
    BY ClientFacts DEF LinkInv, TypeInv
  <1> QED
    BY <1>1 DEF ViewOf, View, Rows, ClientType

(* What the client, the rows and the flags become when a line is handled *)
Becomes(v, m, k, r) ==
    /\ client'[session] = r /\ r.queue = Tail(k.queue)
    /\ r.nick = NickAfter(v, m) /\ r.names = NamesAfter(v, m)
    /\ r.rejoin = k.rejoin /\ r.todo = k.todo /\ (r.pass = k.pass \/ r.pass = "go")
    /\ r.manual = k.manual \/ r.manual = None
    /\ AnsweredBy(v, m, k.manual) => r.manual = None
    /\ \A c \in Channels : Listed(c, k.auto) => Listed(c, r.auto)
    /\ \A c \in Channels : noImplicitNames /\ SaidBy(v, m, c) = "in" => Listed(c, r.auto)

Stored(v, m) == Rows' = RowsAfter(v, m) /\ roster' = RosterAfter(v, m)

Settles(v, m) ==
    /\ inherited' \subseteq Channels
    /\ \A c \in Channels : SaidBy(v, m, c) = "nothing" =>
          /\ row'[c].open = row[c].open
          /\ c \in inherited' <=> c \in inherited
          /\ c \in byUser' <=> c \in byUser
    /\ \A c \in Channels : SaidBy(v, m, c) = "in" => row'[c].open = TRUE /\ c \notin inherited'
    /\ \A c \in Channels : SaidBy(v, m, c) = "out" => row'[c].open = FALSE /\ c \notin inherited'

(* The client handles a line. *)
LEMMA AgreedHandled ==
    ASSUME LinkInv, session # 0, NEW e, NEW said, NEW ans, Agreed(e, said, ans),
           client[session].queue # <<>>, NEW m, m = Head(client[session].queue),
           NEW v, v = ViewOf(client[session]), NEW k, k = client[session], NEW r,
           Becomes(v, m, k, r), Stored(v, m), Settles(v, m), Quiet
    PROVE  \E said2, ans2 : Agreed(e, said2, ans2)'
  <1>a.  /\ client'[session] = r /\ r.queue = Tail(k.queue)
         /\ r.rejoin = k.rejoin /\ r.todo = k.todo /\ (r.pass = k.pass \/ r.pass = "go")
         /\ r.manual = k.manual \/ r.manual = None
         /\ AnsweredBy(v, m, k.manual) => r.manual = None
         /\ \A c \in Channels : Listed(c, k.auto) => Listed(c, r.auto)
         /\ \A c \in Channels : noImplicitNames /\ SaidBy(v, m, c) = "in" => Listed(c, r.auto)
    BY DEF Becomes
  <1>b. [nick |-> r.nick, names |-> r.names, rows |-> Rows', roster |-> roster'] = After(v, m)
    BY DEF Becomes, Stored, After
  <1>c.  /\ inherited' \subseteq Channels
         /\ \A c \in Channels : SaidBy(v, m, c) = "nothing" =>
               /\ row'[c].open = row[c].open
               /\ c \in inherited' <=> c \in inherited
               /\ c \in byUser' <=> c \in byUser
         /\ \A c \in Channels : SaidBy(v, m, c) = "in" => row'[c].open = TRUE /\ c \notin inherited'
         /\ \A c \in Channels : SaidBy(v, m, c) = "out" => row'[c].open = FALSE /\ c \notin inherited'
    BY DEF Settles
  <1> USE <1>a, <1>c
  <1>0. UNCHANGED <<session, request, srvNick, srvReady, members, noImplicitNames>>
    BY DEF Quiet, server
  <1>1. v \in View
    BY ViewType
  <1>2. Leads(k.queue, v, e, said, ans)
    BY DEF Agreed
  <1>3. said \in [Channels -> Said] /\ ans \subseteq Nicks
    BY <1>2 DEF Leads
  <1>4. PICK said2, ans2 :
           /\ Leads(Tail(k.queue), After(v, m), e, said2, ans2)
           /\ \A c \in Channels :
                 \/ said2[c] = said[c] /\ said[c] # "nothing"
                 \/ said2[c] = "nothing" /\ said[c] = SaidBy(v, m, c)
           /\ \A n \in ans : n \in ans2 \/ AnsweredBy(v, m, n)
    BY <1>1, <1>2, OneLess
  <1>5. Leads(client[session].queue, ViewOf(client[session]), e, said2, ans2)'
    BY <1>0, <1>4, <1>b DEF ViewOf
  <1>6. \A c \in Channels : In(c)' = In(c)
    BY <1>0 DEF In
  <1>7. client'[session'] = r /\ client[session] = k
    BY <1>0
  <1>8. NickTold(e)'
    <2>1. srvNick # None
      BY DEF Agreed, NickTold
    <2> QED
      BY <2>1, <1>0 DEF Agreed, NickTold
  <1>9. RosterTold(e, said2)'
    <2>1. e.names = {}
      BY DEF Agreed, RosterTold, RosterComes
    <2>2. ASSUME NEW c \in Channels, In(c)
          PROVE  /\ c \in e.rows
                 /\ \/ e.roster[c] = members[c]
                    \/ noImplicitNames /\ (Listed(c, r.auto) \/ said2[c] = "in")
      <3>1. /\ c \in e.rows
            /\ \/ e.roster[c] = members[c]
               \/ noImplicitNames /\ (Listed(c, k.auto) \/ said[c] = "in")
        BY <2>2 DEF Agreed, RosterTold, RosterComes
      <3>2. said[c] = "in" => said2[c] = "in" \/ SaidBy(v, m, c) = "in"
        BY <1>4
      <3> QED
        BY <3>1, <3>2
    <2> QED
      BY <2>1, <2>2, <1>0, <1>6, <1>7 DEF RosterTold, RosterComes
  <1>10. ManualTold(ans2)'
    <2>1. \/ k.manual \in {None, srvNick} \union ans
          \/ /\ request # None /\ request.kind = "nick" /\ request.by = session
             /\ request.arg = k.manual
      BY DEF Agreed, ManualTold, ManualComes
    <2>2. k.manual \in ans => k.manual \in ans2 \/ AnsweredBy(v, m, k.manual)
      BY <1>4
    <2> QED
      BY <2>1, <2>2, <1>0, <1>7 DEF ManualTold, ManualComes
  <1>11. OpenTold(said2)'
    <2>1. ASSUME NEW c \in Channels
          PROVE  /\ said2[c] = "in" => In(c)
                 /\ said2[c] = "out" => ~In(c)
                 /\ said2[c] = "nothing" => c \in inherited' \union byUser' \/ (row'[c].open <=> In(c))
      <3>1. /\ said[c] = "in" => In(c)
            /\ said[c] = "out" => ~In(c)
            /\ said[c] = "nothing" => c \in inherited \union byUser \/ (row[c].open <=> In(c))
        BY DEF Agreed, OpenTold
      <3>2. CASE said2[c] = said[c] /\ said[c] # "nothing"
        BY <3>1, <3>2
      <3>3. CASE said2[c] = "nothing" /\ said[c] = SaidBy(v, m, c)
        <4>1. CASE SaidBy(v, m, c) = "nothing"
          BY <3>1, <3>3, <4>1
        <4>2. CASE SaidBy(v, m, c) = "in"
          BY <3>1, <3>3, <4>2
        <4>3. CASE SaidBy(v, m, c) = "out"
          BY <3>1, <3>3, <4>3
        <4> QED
          BY <4>1, <4>2, <4>3 DEF SaidBy
      <3> QED
        BY <3>2, <3>3, <1>4
    <2> QED
      BY <2>1, <1>6 DEF OpenTold
  <1>12. RejoinTold(said2)'
    <2>1. k.pass = "done" => k.todo = {}
      BY DEF Agreed, RejoinTold
    <2>2. ASSUME NEW c \in inherited'
          PROVE  /\ row'[c].open
                 /\ In(c) => said2[c] # "nothing"
                 /\ r.rejoin /\ r.pass \in {"send", "done"} =>
                      (\E j \in r.todo : j.chan = c) \/ said2[c] # "nothing"
      <3>1. c \in Channels
        BY <2>2
      <3>2. SaidBy(v, m, c) = "nothing"
        BY <2>2, <3>1 DEF SaidBy
      <3>3. c \in inherited /\ row'[c].open = row[c].open /\ said2[c] = said[c]
        BY <2>2, <3>1, <3>2, <1>4
      <3>4. /\ row[c].open
            /\ In(c) => said[c] # "nothing"
            /\ k.rejoin /\ k.pass \in {"send", "done"} =>
                  (\E j \in k.todo : j.chan = c) \/ said[c] # "nothing"
        BY <3>3 DEF Agreed, RejoinTold
      <3> QED
        BY <3>3, <3>4
    <2> QED
      BY <2>1, <2>2, <1>6, <1>7 DEF RejoinTold
  <1> QED
    BY <1>5, <1>8, <1>9, <1>10, <1>11, <1>12 DEF Agreed

(* A step that is not about the lines. *)
LEMMA AgreedKept ==
    ASSUME NEW e, NEW said, NEW ans, Agreed(e, said, ans),
           NEW k, k = client[session], NEW r, client'[session] = r,
           r.queue = k.queue, r.nick = k.nick, r.names = k.names, r.auto = k.auto, Rows' = Rows,
           UNCHANGED <<session, roster, srvNick, members, noImplicitNames>>,
           ManualTold(ans)', OpenTold(said)', RejoinTold(said)'
    PROVE  Agreed(e, said, ans)'
  <1>1. Leads(client[session].queue, ViewOf(client[session]), e, said, ans)'
    BY DEF Agreed, ViewOf
  <1>2. NickTold(e)'
    BY DEF Agreed, NickTold
  <1>3. RosterTold(e, said)'
    BY DEF Agreed, RosterTold, RosterComes, In
  <1> QED
    BY <1>1, <1>2, <1>3 DEF Agreed

(* The server says where we are after a step of its own. *)
Says(said, said2) ==
    \A c \in Channels :
       /\ said2[c] = "in" => In(c)'
       /\ said2[c] = "out" => ~In(c)'
       /\ said2[c] = "nothing" => said[c] = "nothing" /\ (In(c)' <=> In(c))

(* The server tells more, and the end it leads to still agrees with the server. *)
LEMMA AgreedTold ==
    ASSUME NEW e, NEW said, NEW ans, Agreed(e, said, ans),
           NEW k, k = client[session], NEW r, client'[session] = r,
           r.nick = k.nick, r.names = k.names, r.rejoin = k.rejoin, r.pass = k.pass,
           r.todo \subseteq k.todo,
           UNCHANGED <<session, row, roster, noImplicitNames, inherited, byUser>>, inherited \subseteq Channels,
           NEW e2, NEW said2, NEW ans2,
           Leads(r.queue, ViewOf(k), e2, said2, ans2),
           srvNick' # None, e2.nick = srvNick',
           RosterComes(r.auto, e2, said2)', ManualTold(ans2)', Says(said, said2),
           \A j \in k.todo : j \notin r.todo => said2[j.chan] # "nothing" \/ In(j.chan)
    PROVE  Agreed(e2, said2, ans2)'
  <1>1. Leads(client[session].queue, ViewOf(client[session]), e2, said2, ans2)'
    BY DEF ViewOf, Rows
  <1>2. NickTold(e2)'
    BY DEF NickTold
  <1>3. RosterTold(e2, said2)'
    BY DEF RosterTold
  <1>4. OpenTold(said2)'
    BY DEF OpenTold, Agreed, Says
  <1>5. RejoinTold(said2)'
    <2>1. r.pass = "done" => r.todo = {}
      BY DEF Agreed, RejoinTold
    <2>2. ASSUME NEW c \in inherited
          PROVE  /\ row[c].open
                 /\ In(c)' => said2[c] # "nothing"
                 /\ r.rejoin /\ r.pass \in {"send", "done"} =>
                      (\E j \in r.todo : j.chan = c) \/ said2[c] # "nothing"
      <3>1. /\ row[c].open
            /\ In(c) => said[c] # "nothing"
            /\ k.rejoin /\ k.pass \in {"send", "done"} =>
                  (\E j \in k.todo : j.chan = c) \/ said[c] # "nothing"
        BY DEF Agreed, RejoinTold
      <3>2. said2[c] = "nothing" => said[c] = "nothing" /\ (In(c)' <=> In(c))
        BY DEF Says
      <3> QED
        BY <3>1, <3>2
    <2> QED
      BY <2>1, <2>2 DEF RejoinTold
  <1> QED
    BY <1>1, <1>2, <1>3, <1>4, <1>5 DEF Agreed

(* A line that says nothing of our channels and answers no request *)
LEMMA Silent ==
    ASSUME NEW q, NEW v, NEW e, NEW said, NEW ans, Leads(q, v, e, said, ans), NEW m \in Told,
           m.kind \in {"001", "376", "connected", "quit", "mode", "353", "366"}
    PROVE  /\ e \in View /\ After(e, m) \in View
           /\ Leads(Append(q, m), v, After(e, m), said, ans)
  <1>1. /\ e \in View
        /\ Leads(Append(q, m), v, After(e, m), SaidAfter(said, e, m), AnswersAfter(ans, e, m))
    BY OneMore
  <1>2. said \in [Channels -> Said]
    BY DEF Leads
  <1>3. SaidAfter(said, e, m) = said
    <2>1. \A c \in Channels : SaidBy(e, m, c) = "nothing"
      BY DEF SaidBy
    <2>2. SaidAfter(said, e, m) = [c \in Channels |-> said[c]]
      BY <2>1 DEF SaidAfter
    <2> QED
      BY <2>2, <1>2
  <1>4. AnswersAfter(ans, e, m) = ans
    BY DEF AnswersAfter, AnsweredBy
  <1>5. After(e, m) \in View
    BY <1>1, AfterType DEF Told
  <1> QED
    BY <1>1, <1>3, <1>4, <1>5

(* What an answer to NAMES makes of a view *)
NamesHandled(e, c, mem, e2) ==
    /\ e2.nick = e.nick /\ e2.names = {} /\ e2.rows = e.rows
    /\ \A d \in Channels : d # c => e2.roster[d] = e.roster[d]
    /\ e2.roster[c] = IF mem[srvNick] = "out" THEN e.roster[c] ELSE mem

(* The lines of an answer to NAMES lead to the members of the channel. *)
LEMMA NamesTold ==
    ASSUME NEW c \in Channels, NEW mem \in Rosters, srvNick \in Nicks,
           NEW q, NEW v, NEW e, NEW said, NEW ans, Leads(q, v, e, said, ans),
           e.names = {}, mem[srvNick] # "out" => c \in e.rows
    PROVE  \E e2 \in View : Leads(q \o NamesReply(c, mem), v, e2, said, ans) /\ NamesHandled(e, c, mem, e2)
  <1> DEFINE others == Only(mem, Nicks \ {srvNick})
             ours == Only(mem, {srvNick})
  <1>1. PICK m1 \in Told : m1 = Line("353", c, None, ours)
    BY LinesType, SubsetLines, RostersType
  <1>2. PICK m2 \in Told : m2 = Line("353", c, None, others)
    BY LinesType, SubsetLines, RostersType
  <1>3. PICK m3 \in Told : m3 = Line("366", c, None, None)
    BY LinesType, SubsetLines
  <1>4. /\ m1.kind = "353" /\ m1.chan = c /\ m1.arg = ours
        /\ m2.kind = "353" /\ m2.chan = c /\ m2.arg = others
        /\ m3.kind = "366" /\ m3.chan = c
    BY <1>1, <1>2, <1>3, OneLine
  <1>5. q \in Seq(Told) /\ e \in View
    BY OneMore DEF Leads
  <1>6. /\ e.roster \in [Channels -> Rosters] /\ e.rows \subseteq Channels
    BY <1>5 DEF View
  <1>7. /\ \A n \in Nicks : ours[n] = IF n = srvNick THEN mem[n] ELSE "out"
        /\ \A n \in Nicks : others[n] = IF n = srvNick THEN "out" ELSE mem[n]
        /\ ours \in Rosters /\ others \in Rosters
    BY RostersType DEF Only
  <1> HIDE DEF ours, others
  <1>8. CASE mem[srvNick] = "out"
    <2>1. q \o NamesReply(c, mem) = Append(q, m3)
      <3>1. NamesReply(c, mem) = <<>> \o <<m3>>
        BY <1>3, <1>8 DEF NamesReply
      <3>2. <<>> \o <<m3>> = <<m3>>
        OBVIOUS
      <3> QED
        BY <3>1, <3>2, <1>5, OneLineSeq
    <2>2. Leads(Append(q, m3), v, After(e, m3), said, ans) /\ After(e, m3) \in View
      BY <1>4, Silent
    <2>3. After(e, m3) = [nick |-> e.nick, names |-> {}, rows |-> e.rows, roster |-> e.roster]
      BY <1>4 DEF After, NickAfter, NamesAfter, RowsAfter, RosterAfter
    <2> QED
      BY <2>1, <2>2, <2>3, <1>8 DEF NamesHandled
  <1>9. CASE mem[srvNick] # "out" /\ others = Nobody
    <2>1. q \o NamesReply(c, mem) = Append(Append(q, m1), m3)
      <3>1. NamesReply(c, mem) = (<<m1>> \o <<>>) \o <<m3>>
        BY <1>1, <1>3, <1>9 DEF NamesReply, others, ours
      <3>2. <<m1>> \in Seq(Told) /\ <<m3>> \in Seq(Told) /\ <<m1>> \o <<>> = <<m1>>
        BY ConcatEmptySeq
      <3>3. q \o (<<m1>> \o <<m3>>) = (q \o <<m1>>) \o <<m3>>
        BY <3>2, <1>5, ConcatAssociative
      <3>4. q \o <<m1>> = Append(q, m1) /\ Append(q, m1) \in Seq(Told)
        BY <1>5, OneLineSeq, AppendProperties
      <3>5. Append(q, m1) \o <<m3>> = Append(Append(q, m1), m3)
        BY <3>4, OneLineSeq
      <3> QED
        BY <3>1, <3>2, <3>3, <3>4, <3>5
    <2>2. PICK e1 \in View : e1 = After(e, m1) /\ Leads(Append(q, m1), v, e1, said, ans)
      BY <1>4, Silent
    <2>3. PICK e2 \in View : e2 = After(e1, m3) /\ Leads(Append(Append(q, m1), m3), v, e2, said, ans)
      BY <2>2, <1>4, Silent
    <2>4. /\ e1.nick = e.nick /\ e1.names = {c} /\ e1.rows = e.rows
          /\ e1.roster = [e.roster EXCEPT ![c] = [n \in Nicks |-> IF m1.arg[n] # "out" THEN m1.arg[n] ELSE "out"]]
      BY <2>2, <1>4, <1>9 DEF After, NickAfter, NamesAfter, RowsAfter, RosterAfter
    <2>5. /\ e2.nick = e1.nick /\ e2.names = e1.names \ {c} /\ e2.rows = e1.rows /\ e2.roster = e1.roster
      BY <2>3, <1>4 DEF After, NickAfter, NamesAfter, RowsAfter, RosterAfter
    <2>6. mem = [n \in Nicks |-> IF m1.arg[n] # "out" THEN m1.arg[n] ELSE "out"]
      <3>1. \A n \in Nicks : n # srvNick => mem[n] = "out"
        BY <1>7, <1>9 DEF Nobody
      <3> QED
        BY <3>1, <1>4, <1>7 DEF Rosters
    <2>7. e2.roster[c] = mem /\ \A d \in Channels : d # c => e2.roster[d] = e.roster[d]
      BY <2>4, <2>5, <2>6, <1>6
    <2> QED
      BY <2>1, <2>3, <2>4, <2>5, <2>7, <1>9 DEF NamesHandled
  <1>10. CASE mem[srvNick] # "out" /\ others # Nobody
    <2>1. q \o NamesReply(c, mem) = Append(Append(Append(q, m1), m2), m3)
      <3>1. NamesReply(c, mem) = (<<m1>> \o <<m2>>) \o <<m3>>
        BY <1>1, <1>2, <1>3, <1>10 DEF NamesReply, others, ours
      <3>2. <<m1>> \in Seq(Told) /\ <<m2>> \in Seq(Told) /\ <<m3>> \in Seq(Told)
        OBVIOUS
      <3>3. q \o ((<<m1>> \o <<m2>>) \o <<m3>>) = ((q \o <<m1>>) \o <<m2>>) \o <<m3>>
        BY <3>2, <1>5, ConcatAssociative, ConcatProperties
      <3>4. q \o <<m1>> = Append(q, m1) /\ Append(q, m1) \in Seq(Told)
        BY <1>5, OneLineSeq, AppendProperties
      <3>5. /\ Append(q, m1) \o <<m2>> = Append(Append(q, m1), m2)
            /\ Append(Append(q, m1), m2) \in Seq(Told)
        BY <3>4, OneLineSeq, AppendProperties
      <3>6. Append(Append(q, m1), m2) \o <<m3>> = Append(Append(Append(q, m1), m2), m3)
        BY <3>5, OneLineSeq
      <3> QED
        BY <3>1, <3>3, <3>4, <3>5, <3>6
    <2>2. PICK e1 \in View : e1 = After(e, m1) /\ Leads(Append(q, m1), v, e1, said, ans)
      BY <1>4, Silent
    <2>3. PICK e2 \in View : e2 = After(e1, m2) /\ Leads(Append(Append(q, m1), m2), v, e2, said, ans)
      BY <2>2, <1>4, Silent
    <2>4. PICK e3 \in View : e3 = After(e2, m3) /\ Leads(Append(Append(Append(q, m1), m2), m3), v, e3, said, ans)
      BY <2>3, <1>4, Silent
    <2>5. /\ e1.nick = e.nick /\ e1.names = {c} /\ e1.rows = e.rows
          /\ e1.roster = [e.roster EXCEPT ![c] = [n \in Nicks |-> IF m1.arg[n] # "out" THEN m1.arg[n] ELSE "out"]]
      BY <2>2, <1>4, <1>10 DEF After, NickAfter, NamesAfter, RowsAfter, RosterAfter
    <2>6. /\ e2.nick = e1.nick /\ e2.names = {c} /\ e2.rows = e1.rows
          /\ e2.roster = [e1.roster EXCEPT ![c] = [n \in Nicks |-> IF m2.arg[n] # "out" THEN m2.arg[n] ELSE e1.roster[c][n]]]
      BY <2>3, <2>5, <1>4, <1>10 DEF After, NickAfter, NamesAfter, RowsAfter, RosterAfter
    <2>7. /\ e3.nick = e2.nick /\ e3.names = e2.names \ {c} /\ e3.rows = e2.rows /\ e3.roster = e2.roster
      BY <2>4, <1>4 DEF After, NickAfter, NamesAfter, RowsAfter, RosterAfter
    <2>8. e1.roster[c] = [n \in Nicks |-> IF n = srvNick THEN mem[n] ELSE "out"]
          /\ e1.roster \in [Channels -> Rosters]
      <3>1. e1.roster[c] = [n \in Nicks |-> IF m1.arg[n] # "out" THEN m1.arg[n] ELSE "out"]
        BY <2>5, <1>6
      <3> QED
        BY <3>1, <2>2, <1>4, <1>7 DEF View
    <2>9. mem = [n \in Nicks |-> IF m2.arg[n] # "out" THEN m2.arg[n] ELSE e1.roster[c][n]]
      BY <2>8, <1>4, <1>7 DEF Rosters
    <2>10. e3.roster[c] = mem /\ \A d \in Channels : d # c => e3.roster[d] = e.roster[d]
      BY <2>5, <2>6, <2>7, <2>8, <2>9, <1>6
    <2> QED
      BY <2>1, <2>4, <2>5, <2>6, <2>7, <2>10, <1>10 DEF NamesHandled
  <1> QED
    BY <1>8, <1>9, <1>10

(* One line that is told to the client, and what becomes of a summary *)
LEMMA LineTold ==
    ASSUME NEW q, NEW v, NEW e, NEW said, NEW ans, Leads(q, v, e, said, ans), NEW m \in Told
    PROVE  /\ e \in View /\ After(e, m) \in View
           /\ said \in [Channels -> Said] /\ ans \subseteq Nicks
           /\ Leads(q \o <<m>>, v, After(e, m), SaidAfter(said, e, m), AnswersAfter(ans, e, m))
  <1>1. q \in Seq(Told) /\ said \in [Channels -> Said] /\ ans \subseteq Nicks
    BY DEF Leads
  <1>2. q \o <<m>> = Append(q, m)
    BY <1>1, OneLineSeq
  <1>3. /\ e \in View
        /\ Leads(Append(q, m), v, After(e, m), SaidAfter(said, e, m), AnswersAfter(ans, e, m))
    BY OneMore
  <1>4. After(e, m) \in View
    BY <1>3, AfterType DEF Told
  <1> QED
    BY <1>1, <1>2, <1>3, <1>4

(* What our own JOIN, with the NAMES that may come with it, makes of a view *)
JoinHandled(e, c, e2) ==
    /\ e2.nick = srvNick /\ e2.names = {} /\ e2.rows = e.rows \union {c}
    /\ \A d \in Channels : d # c => e2.roster[d] = e.roster[d]
    /\ noImplicitNames \/ e2.roster[c] = MembersWithUs(c)[c]

(* The lines of an answer to JOIN lead to our being in the channel with its members. *)
LEMMA JoinTold ==
    ASSUME NEW c \in Channels, members \in [Channels -> Rosters], srvNick \in Nicks,
           NEW q, NEW v, NEW e, NEW said, NEW ans, Leads(q, v, e, said, ans),
           e.nick = srvNick, e.names = {}
    PROVE  \E e2 \in View :
              Leads(q \o JoinReply(c), v, e2, [said EXCEPT ![c] = "in"], ans) /\ JoinHandled(e, c, e2)
  <1>1. PICK m \in Told : m = Line("join", c, srvNick, None)
    BY LinesType, SubsetLines
  <1>2. m.kind = "join" /\ m.chan = c /\ m.nick = srvNick
    BY <1>1, OneLine
  <1>3. /\ e \in View /\ After(e, m) \in View
        /\ said \in [Channels -> Said] /\ ans \subseteq Nicks
        /\ Leads(q \o <<m>>, v, After(e, m), SaidAfter(said, e, m), AnswersAfter(ans, e, m))
    BY LineTold
  <1>4. e.roster \in [Channels -> Rosters]
    BY <1>3 DEF View
  <1>5. srvNick # None
    BY NamesAssumption
  <1>6. SaidAfter(said, e, m) = [said EXCEPT ![c] = "in"]
    <2>1. \A d \in Channels : SaidBy(e, m, d) = IF d = c THEN "in" ELSE "nothing"
      BY <1>2, <1>5 DEF SaidBy, Ours
    <2>2. SaidAfter(said, e, m) = [d \in Channels |-> IF d = c THEN "in" ELSE said[d]]
      BY <2>1 DEF SaidAfter
    <2> QED
      BY <2>2, <1>3
  <1>7. AnswersAfter(ans, e, m) = ans
    BY <1>2 DEF AnswersAfter, AnsweredBy
  <1>8. PICK e1 \in View : e1 = After(e, m)
    BY <1>3
  <1>9. /\ e1.nick = srvNick /\ e1.names = {} /\ e1.rows = e.rows \union {c}
        /\ e1.roster = [e.roster EXCEPT ![c][srvNick] = "plain"]
    BY <1>2, <1>8 DEF After, NickAfter, NamesAfter, RowsAfter, RosterAfter
  <1>10. \A d \in Channels : d # c => e1.roster[d] = e.roster[d]
    BY <1>4, <1>9
  <1>11. PICK said2 : said2 = [said EXCEPT ![c] = "in"]
    OBVIOUS
  <1>12. Leads(q \o <<m>>, v, e1, said2, ans)
    BY <1>3, <1>6, <1>7, <1>8, <1>11
  <1>13. <<m>> \in Seq(Told) /\ q \in Seq(Told) /\ <<m>> \o <<>> = <<m>>
    BY ConcatEmptySeq DEF Leads
  <1>14. CASE noImplicitNames
    <2>1. q \o JoinReply(c) = q \o <<m>>
      BY <1>1, <1>13, <1>14 DEF JoinReply
    <2> QED
      BY <2>1, <1>9, <1>10, <1>11, <1>12, <1>14 DEF JoinHandled
  <1>15. CASE ~noImplicitNames
    <2>1. PICK mem : mem = MembersWithUs(c)[c]
      OBVIOUS
    <2>2. mem \in Rosters /\ mem[srvNick] # "out"
      <3>1. mem = [members[c] EXCEPT ![srvNick] = IF members[c] = Nobody THEN "op" ELSE "plain"]
        BY <2>1 DEF MembersWithUs
      <3>2. members[c] \in Rosters
        OBVIOUS
      <3> QED
        BY <3>1, <3>2 DEF Rosters, Statuses
    <2>3. PICK ls : ls = NamesReply(c, mem)
      OBVIOUS
    <2>4. ls \in Seq(Told)
      BY <2>2, <2>3, NamesReplyType, SubsetLines
    <2>5. q \o JoinReply(c) = (q \o <<m>>) \o ls
      <3>1. JoinReply(c) = <<m>> \o ls
        BY <1>1, <1>15, <2>1, <2>3 DEF JoinReply
      <3>2. q \o (<<m>> \o ls) = (q \o <<m>>) \o ls
        BY <2>4, <1>13, ConcatAssociative
      <3> QED
        BY <3>1, <3>2
    <2>6. PICK q1 : q1 = q \o <<m>>
      OBVIOUS
    <2>7. PICK e2 \in View : Leads(q1 \o NamesReply(c, mem), v, e2, said2, ans) /\ NamesHandled(e1, c, mem, e2)
      <3>1. mem \in Rosters /\ e1.names = {} /\ (mem[srvNick] # "out" => c \in e1.rows)
        BY <2>2, <1>9
      <3>2. Leads(q1, v, e1, said2, ans)
        BY <2>6, <1>12
      <3>3. srvNick \in Nicks /\ c \in Channels
        OBVIOUS
      <3> QED
        BY <3>1, <3>2, <3>3, NamesTold, Zenon
    <2>8. Leads(q \o JoinReply(c), v, e2, [said EXCEPT ![c] = "in"], ans)
      BY <2>3, <2>5, <2>6, <2>7, <1>11
    <2> QED
      BY <2>1, <2>2, <2>7, <2>8, <1>9, <1>10 DEF NamesHandled, JoinHandled
  <1> QED
    BY <1>14, <1>15

(* Where we join, we are in afterwards. *)
LEMMA UsIn ==
    ASSUME members \in [Channels -> Rosters], srvNick \in Nicks, NEW c \in Channels
    PROVE  /\ MembersWithUs(c)[c][srvNick] # "out"
           /\ \A d \in Channels : d # c => MembersWithUs(c)[d] = members[d]
  <1>1. members[c] \in Rosters
    OBVIOUS
  <1>2. PICK x \in {"op", "plain"} : MembersWithUs(c) = [members EXCEPT ![c][srvNick] = x]
    BY DEF MembersWithUs
  <1> QED
    BY <1>1, <1>2 DEF Rosters

(* No call of the user is under way, or one to join begins. *)
AsksToJoin == request' = request \/ (request = None /\ request'.kind = "key")

(* The live client, but for a join of channel c that it no longer has to do *)
Joining(k, c) ==
    LET h == client[session] IN
    /\ k.queue = h.queue /\ k.nick = h.nick /\ k.names = h.names
    /\ k.rejoin = h.rejoin /\ k.pass = h.pass /\ k.manual = h.manual /\ k.auto = h.auto
    /\ k.todo \subseteq h.todo /\ \A j \in h.todo : j \notin k.todo => j.chan = c

(* The answer to a JOIN agrees with what the server did. *)
LEMMA AnswerJoinAgrees ==
    ASSUME LinkInv, Up, srvReady, NEW e, NEW said, NEW ans, Agreed(e, said, ans),
           NEW c \in Channels, NEW key, NEW k \in ClientType, Joining(k, c),
           AnswerJoin(session, k, c, key),
           UNCHANGED <<session, row, roster, srvNick, noImplicitNames, inherited, byUser>>,
           AsksToJoin
    PROVE  \E e2, said2 : Agreed(e2, said2, ans)'
  <1>0. /\ k.queue = client[session].queue /\ k.nick = client[session].nick /\ k.names = client[session].names
        /\ k.rejoin = client[session].rejoin /\ k.pass = client[session].pass
        /\ k.manual = client[session].manual /\ k.auto = client[session].auto
        /\ k.todo \subseteq client[session].todo
        /\ \A j \in client[session].todo : j \notin k.todo => j.chan = c
    BY DEF Joining
  <1> USE <1>0 DEF AsksToJoin
  <1>1. /\ session # 0 /\ srvNick \in Nicks /\ srvNick # None /\ srvNick' = srvNick
        /\ members \in [Channels -> Rosters] /\ inherited \subseteq Channels
        /\ session \in Sessions /\ client \in [Sessions -> ClientType]
    BY LiveServer, ClientFacts DEF LinkInv, TypeInv, Up
  <1>2. PICK h : h = client[session]
    OBVIOUS
  <1>3. PICK v : v = ViewOf(h)
    OBVIOUS
  <1>4. /\ Leads(k.queue, v, e, said, ans) /\ e.nick = srvNick /\ e.names = {}
        /\ NickTold(e) /\ RosterTold(e, said) /\ ManualTold(ans) /\ OpenTold(said) /\ RejoinTold(said)
    BY <1>1, <1>2, <1>3 DEF Agreed, NickTold, RosterTold, RosterComes
  <1>5. said \in [Channels -> Said]
    BY <1>4 DEF Leads
  <1>6. ASSUME NEW ls \in Seq(Told), client' = [client EXCEPT ![session] = [k EXCEPT !.queue = @ \o ls]],
               NEW e2, NEW said2, Leads(k.queue \o ls, v, e2, said2, ans),
               e2.nick = srvNick, RosterComes(k.auto, e2, said2)', Says(said, said2),
               said2[c] # "nothing" \/ In(c)
        PROVE  Agreed(e2, said2, ans)'
    <2>1. PICK r : r = [k EXCEPT !.queue = @ \o ls]
      OBVIOUS
    <2>2. /\ r.queue = k.queue \o ls /\ r.nick = h.nick /\ r.names = h.names /\ r.rejoin = h.rejoin
          /\ r.pass = h.pass /\ r.manual = h.manual /\ r.auto = k.auto /\ r.todo = k.todo
      BY <2>1, <1>2 DEF ClientType
    <2>3. client'[session] = r
      BY <2>1, <1>1, <1>6
    <2>4. ManualTold(ans)'
      BY <2>2, <2>3, <1>2, <1>4 DEF ManualTold, ManualComes
    <2>5. Leads(r.queue, ViewOf(h), e2, said2, ans)
      BY <2>2, <1>3, <1>6
    <2>6. r.todo \subseteq h.todo /\ \A j \in h.todo : j \notin r.todo => said2[j.chan] # "nothing" \/ In(j.chan)
      BY <2>2, <1>2, <1>6
    <2>7. RosterComes(r.auto, e2, said2)' /\ Says(said, said2)
      BY <2>2, <1>6
    <2>8. srvNick' # None /\ e2.nick = srvNick'
      BY <1>1, <1>6
    <2>9. UNCHANGED <<session, row, roster, noImplicitNames, inherited, byUser>>
      OBVIOUS
    <2> QED
      BY <2>2, <2>3, <2>4, <2>5, <2>6, <2>7, <2>8, <2>9, <1>1, <1>2, AgreedTold
  <1>7. RosterComes(k.auto, e, said)
    BY <1>4 DEF RosterTold
  <1>8. \A d \in Channels :
           /\ said[d] = "in" => In(d)
           /\ said[d] = "out" => ~In(d)
    BY <1>4 DEF OpenTold
  <1>9. CASE In(c) /\ client' = [client EXCEPT ![session] = [k EXCEPT !.queue = @ \o <<>>]] /\ members' = members
    <2>1. \A d \in Channels : In(d)' <=> In(d)
      BY <1>1, <1>9 DEF In
    <2>2. <<>> \in Seq(Told) /\ k.queue \o <<>> = k.queue
      BY <1>4, ConcatEmptySeq DEF Leads
    <2>3. PICK ls \in Seq(Told) : ls = <<>>
      BY <2>2
    <2>4. client' = [client EXCEPT ![session] = [k EXCEPT !.queue = @ \o ls]] /\ Leads(k.queue \o ls, v, e, said, ans)
      BY <2>2, <2>3, <1>4, <1>9
    <2>5. RosterComes(k.auto, e, said)'
      BY <2>1, <1>7, <1>9 DEF RosterComes
    <2>6. Says(said, said)
      BY <2>1, <1>8 DEF Says
    <2>7. Agreed(e, said, ans)'
      BY <2>4, <2>5, <2>6, <1>4, <1>6, <1>9
    <2> QED
      BY <2>7
  <1>10. CASE ~In(c) /\ client' = [client EXCEPT ![session] = [k EXCEPT !.queue = @ \o JoinReply(c)]] /\ members' = MembersWithUs(c)
    <2>1. PICK e2 \in View :
              Leads(k.queue \o JoinReply(c), v, e2, [said EXCEPT ![c] = "in"], ans) /\ JoinHandled(e, c, e2)
      BY <1>1, <1>4, JoinTold
    <2>2. PICK ls \in Seq(Told) : ls = JoinReply(c)
      BY <1>1, JoinReplyType, SubsetLines
    <2>3. PICK said2 : said2 = [said EXCEPT ![c] = "in"]
      OBVIOUS
    <2>4. said2[c] = "in" /\ \A d \in Channels : d # c => said2[d] = said[d]
      BY <2>3, <1>5
    <2>5. members'[c][srvNick] # "out" /\ \A d \in Channels : d # c => members'[d] = members[d]
      BY <1>1, <1>10, UsIn
    <2>6. In(c)' /\ \A d \in Channels : d # c => (In(d)' <=> In(d))
      BY <2>5, <1>1 DEF In
    <2>7. RosterComes(k.auto, e2, said2)'
      <3>1. ASSUME NEW d \in Channels, In(d)'
            PROVE  /\ d \in e2.rows
                   /\ \/ e2.roster[d] = members'[d]
                      \/ noImplicitNames /\ (Listed(d, k.auto) \/ said2[d] = "in")
        <4>1. CASE d = c
          BY <4>1, <2>1, <2>4, <1>10 DEF JoinHandled
        <4>2. CASE d # c
          BY <4>2, <3>1, <2>1, <2>4, <2>5, <2>6, <1>7 DEF JoinHandled, RosterComes
        <4> QED
          BY <4>1, <4>2
      <3>2. noImplicitNames' = noImplicitNames /\ e2.names = {}
        BY <2>1 DEF JoinHandled
      <3> QED
        BY <3>1, <3>2 DEF RosterComes
    <2>8. Says(said, said2)
      BY <2>4, <2>6, <1>8 DEF Says
    <2>9. Leads(k.queue \o ls, v, e2, said2, ans) /\ e2.nick = srvNick /\ said2[c] # "nothing"
      BY <2>1, <2>2, <2>3, <2>4 DEF JoinHandled
    <2>10. client' = [client EXCEPT ![session] = [k EXCEPT !.queue = @ \o ls]]
      BY <2>2, <1>10
    <2>11. Agreed(e2, said2, ans)'
      BY <2>7, <2>8, <2>9, <2>10, <1>6
    <2> QED
      BY <2>11
  <1>11. CASE ~In(c) /\ client' = [client EXCEPT ![session] = [k EXCEPT !.queue = @ \o <<Line("refused", c, None, None)>>]] /\ members' = members
    <2>1. PICK m \in Told : m = Line("refused", c, None, None)
      BY LinesType, SubsetLines
    <2>2. m.kind = "refused" /\ m.chan = c
      BY <2>1, OneLine
    <2>3. PICK said2 : said2 = SaidAfter(said, e, m)
      OBVIOUS
    <2>4. PICK e2 : e2 = After(e, m)
      OBVIOUS
    <2>5. /\ Leads(k.queue \o <<m>>, v, e2, said2, AnswersAfter(ans, e, m))
          /\ e2.nick = e.nick /\ e2.names = e.names /\ e2.rows = e.rows /\ e2.roster = e.roster
      BY <2>2, <2>3, <2>4, <1>4, LineTold DEF After, NickAfter, NamesAfter, RowsAfter, RosterAfter
    <2>6. AnswersAfter(ans, e, m) = ans
      BY <2>2, <1>4 DEF AnswersAfter, AnsweredBy
    <2>7. said2[c] = "out" /\ \A d \in Channels : d # c => said2[d] = said[d]
      BY <2>2, <2>3 DEF SaidAfter, SaidBy
    <2>8. \A d \in Channels : In(d)' <=> In(d)
      BY <1>1, <1>11 DEF In
    <2>9. PICK ls \in Seq(Told) : ls = <<m>>
      BY OneLineSeq
    <2>10. client' = [client EXCEPT ![session] = [k EXCEPT !.queue = @ \o ls]]
      BY <2>1, <2>9, <1>11
    <2>11. RosterComes(k.auto, e2, said2)'
      BY <2>5, <2>7, <2>8, <1>7, <1>11 DEF RosterComes
    <2>12. Says(said, said2)
      BY <2>7, <2>8, <1>8, <1>11 DEF Says
    <2>13. Leads(k.queue \o ls, v, e2, said2, ans) /\ e2.nick = srvNick /\ said2[c] # "nothing"
      BY <2>5, <2>6, <2>7, <2>9, <1>4
    <2>14. Agreed(e2, said2, ans)'
      BY <2>10, <2>11, <2>12, <2>13, <1>6
    <2> QED
      BY <2>14
  <1> QED
    BY <1>9, <1>10, <1>11 DEF AnswerJoin

(* One line that follows what the server did agrees with it. *)
LEMMA OneLineAgrees ==
    ASSUME LinkInv, Up, NEW e, NEW said, NEW ans, Agreed(e, said, ans),
           NEW k, k = client[session], NEW m \in Told, Tell(<<m>>),
           NEW e2, e2 = After(e, m), NEW said2, said2 = SaidAfter(said, e, m),
           NEW ans2, ans2 = AnswersAfter(ans, e, m),
           UNCHANGED <<session, row, roster, noImplicitNames, inherited, byUser>>,
           srvNick' # None, e2.nick = srvNick',
           RosterComes(k.auto, e2, said2)', ManualComes(k.manual, ans2)', Says(said, said2)
    PROVE  Agreed(e2, said2, ans2)'
  <1>1. /\ session # 0 /\ inherited \subseteq Channels /\ k \in ClientType
        /\ session \in Sessions /\ client \in [Sessions -> ClientType]
    BY ClientFacts DEF LinkInv, TypeInv, Up
  <1>2. PICK r : r = [k EXCEPT !.queue = @ \o <<m>>]
    OBVIOUS
  <1>3. /\ r.queue = k.queue \o <<m>> /\ r.nick = k.nick /\ r.names = k.names /\ r.rejoin = k.rejoin
        /\ r.pass = k.pass /\ r.manual = k.manual /\ r.auto = k.auto /\ r.todo = k.todo
    BY <1>1, <1>2 DEF ClientType
  <1>4. client'[session] = r
    BY <1>1, <1>2 DEF Tell
  <1>5. Leads(r.queue, ViewOf(k), e2, said2, ans2)
    BY <1>3, LineTold DEF Agreed
  <1>6. ManualTold(ans2)' /\ RosterComes(r.auto, e2, said2)'
    BY <1>3, <1>4 DEF ManualTold
  <1>7. r.todo \subseteq k.todo /\ \A j \in k.todo : j \notin r.todo => said2[j.chan] # "nothing" \/ In(j.chan)
    BY <1>3
  <1>8. UNCHANGED <<session, row, roster, noImplicitNames, inherited, byUser>>
    OBVIOUS
  <1> QED
    BY <1>1, <1>3, <1>4, <1>5, <1>6, <1>7, <1>8, AgreedTold

(* A line about others: the view e2 after it has the rosters the server has. *)
Follows(e, e2) ==
    /\ e2.nick = e.nick /\ e2.names = e.names
    /\ \A c \in Channels : In(c) /\ c \in e.rows =>
          c \in e2.rows /\ (e.roster[c] = members[c] => e2.roster[c] = members'[c])

StayIn == \A c \in Channels : In(c)' <=> In(c)
Silence(e, m) == \A c \in Channels : SaidBy(e, m, c) = "nothing"

(* So does a line about others. *)
LEMMA OthersAgree ==
    ASSUME LinkInv, Up, NEW e, NEW said, NEW ans, Agreed(e, said, ans), NEW m \in Told, Tell(<<m>>),
           UNCHANGED <<session, row, roster, request, srvNick, noImplicitNames, inherited, byUser>>,
           srvNick # None, Silence(e, m), StayIn, Follows(e, After(e, m))
    PROVE  \E e2, ans2 : Agreed(e2, said, ans2)'
  <1>1. PICK k : k = client[session]
    OBVIOUS
  <1>2. PICK e2 : e2 = After(e, m)
    OBVIOUS
  <1>3. PICK ans2 : ans2 = AnswersAfter(ans, e, m)
    OBVIOUS
  <1>4. /\ NickTold(e) /\ RosterComes(k.auto, e, said) /\ ManualComes(k.manual, ans) /\ OpenTold(said)
        /\ said \in [Channels -> Said]
    BY <1>1 DEF Agreed, RosterTold, ManualTold, Leads
  <1>5. said = SaidAfter(said, e, m)
    <2>1. SaidAfter(said, e, m) = [c \in Channels |-> said[c]]
      BY DEF SaidAfter, Silence
    <2> QED
      BY <2>1, <1>4
  <1>6. RosterComes(k.auto, e2, said)'
    BY <1>2, <1>4 DEF RosterComes, Follows, StayIn
  <1>7. ManualComes(k.manual, ans2)'
    BY <1>3, <1>4 DEF ManualComes, AnswersAfter
  <1>8. Says(said, said)
    BY <1>4 DEF Says, OpenTold, StayIn
  <1>9. srvNick' # None /\ e2.nick = srvNick'
    BY <1>2, <1>4 DEF NickTold, Follows
  <1>10. UNCHANGED <<session, row, roster, noImplicitNames, inherited, byUser>>
    OBVIOUS
  <1>11. Agreed(e2, said, ans2)'
    BY <1>1, <1>2, <1>3, <1>5, <1>6, <1>7, <1>8, <1>9, <1>10, OneLineAgrees
  <1> QED
    BY <1>11

(* The same where the client is told nothing *)
LEMMA UntoldAgree ==
    ASSUME LinkInv, Up, NEW e, NEW said, NEW ans, Agreed(e, said, ans),
           UNCHANGED <<client, session, row, roster, request, srvNick, noImplicitNames, inherited, byUser>>,
           StayIn,
           \A c \in Channels : In(c) => members'[c] = members[c]
    PROVE  Agreed(e, said, ans)'
  <1>1. Leads(client[session].queue, ViewOf(client[session]), e, said, ans)'
    BY DEF Agreed, ViewOf, Rows
  <1>2. NickTold(e)' /\ ManualTold(ans)'
    BY DEF Agreed, NickTold, ManualTold, ManualComes
  <1>3. RosterTold(e, said)'
    BY DEF Agreed, RosterTold, RosterComes, StayIn
  <1>4. OpenTold(said)'
    BY DEF Agreed, OpenTold, StayIn
  <1>5. RejoinTold(said)'
    <2>1. inherited \subseteq Channels
      BY DEF LinkInv, TypeInv
    <2>2. RejoinTold(said)
      BY DEF Agreed
    <2> QED
      BY <2>1, <2>2 DEF RejoinTold, StayIn
  <1> QED
    BY <1>1, <1>2, <1>3, <1>4, <1>5 DEF Agreed

------------------------------------------------------------------------------
(* A channel that is open is known *)
RowsInv == \A c \in Channels : row[c].open => row[c].exists

(* At the start only known channels are open. *)
LEMMA InitRows == Init => RowsInv
  BY DEF Init, RowsInv, NoRow, RowToJoin

(* No step opens an unknown channel. *)
LEMMA NextRows ==
    ASSUME LinkInv, RowsInv, [Next]_vars
    PROVE  RowsInv'
  <1>1. row \in [Channels -> RowType]
    BY DEF LinkInv, TypeInv
  <1>2. ASSUME row' = row PROVE RowsInv'
    BY <1>2 DEF RowsInv
  <1>3. ASSUME NEW c, NEW open, UpdateChannelIsOpen(c, open) PROVE RowsInv'
    BY <1>1, <1>3 DEF RowsInv, UpdateChannelIsOpen, RowType
  <1>4. ASSUME NEW g \in Sessions, Handle(g) PROVE RowsInv'
    <2>1. CASE HandleJoin(g)
      <3>1. PICK r : row' = [row EXCEPT ![Message(g).chan].exists = TRUE, ![Message(g).chan].open = r.open,
                                        ![Message(g).chan].key = r.key]
        <4> DEFINE c == Message(g).chan
                   me == IsMe(g, Message(g).nick)
                   pending == client[g].keys[c]
                   r == [open |-> row[c].open \/ me, key |-> IF me /\ pending # Nothing THEN pending ELSE row[c].key]
        <4>1. Message(g).chan \in Channels
          BY <2>1, HandledFits DEF HandleJoin, Handles, LineType
        <4>2. row' = [row EXCEPT ![c].exists = TRUE, ![c].open = r.open, ![c].key = r.key]
          BY <2>1, <4>1, <1>1 DEF HandleJoin, RowType
        <4> QED
          BY <4>2
      <3> QED
        BY <3>1, <1>1 DEF RowsInv, RowType
    <2>2. CASE HandlePart(g) \/ HandleKick(g) \/ HandleJoinError(g)
      BY <2>2, <1>2, <1>3 DEF HandlePart, HandleKick, HandleJoinError
    <2>3. CASE HandleWelcome(g) \/ HandleEndOfMotd(g) \/ OnConnect(g) \/ FinishDisconnect(g) \/ HandleQuit(g)
               \/ HandleMode(g) \/ HandleNick(g) \/ HandleNickInUse(g) \/ HandleNames(g) \/ HandleEndOfNames(g)
      BY <2>3, <1>2 DEF HandleWelcome, HandleEndOfMotd, OnConnect, FinishDisconnect, HandleQuit, HandleMode,
         HandleNick, HandleNickInUse, HandleNames, HandleEndOfNames, storage
    <2> QED
      BY <1>4, <2>1, <2>2, <2>3 DEF Handle
  <1>5. ASSUME NEW g \in Sessions,
               AutoJoinTimer(g) \/ DoAutoJoin(g) \/ AutoJoinNext(g) \/ AutomaticRequest(g)
        PROVE  RowsInv'
    BY <1>5, <1>2 DEF AutoJoinTimer, DoAutoJoin, AutoJoinNext, AutomaticRequest, storage
  <1>6. CASE ServerStep
    BY <1>6, <1>2 DEF ServerStep, Register, EndGreeting, AskPreferred, ForceJoin, Arrive, Remove, SetMode,
       QuitUser, RenameUser, storage
  <1>7. CASE Drop \/ \E rejoin \in BOOLEAN : Connect(rejoin)
    BY <1>7, <1>2 DEF Drop, Connect, storage
  <1>8. CASE UserStep
    <2>1. CASE SignalQuit \/ RecordPendingJoinKey \/ SendNick \/ \E new \in {Me, Alt} : ChangeNick(new)
      BY <2>1, <1>2 DEF SignalQuit, RecordPendingJoinKey, SendNick, ChangeNick, storage
    <2>2. ASSUME NEW c \in Channels, NEW open, SetChannelOpen(c, open) PROVE RowsInv'
      BY <2>2, <1>3 DEF SetChannelOpen
    <2>3. ASSUME NEW c \in Channels, LeaveChannel(c) PROVE RowsInv'
      BY <2>2, <2>3, <1>2 DEF LeaveChannel, storage
    <2>4. ASSUME NEW c \in Channels, ToggleChannelAutoJoin(c) PROVE RowsInv'
      BY <2>4, <1>1 DEF ToggleChannelAutoJoin, RowsInv, RowType
    <2>5. ASSUME NEW c \in Channels, NEW key \in Keys, JoinChannelWithKey(c, key) PROVE RowsInv'
      BY <2>5, <1>2 DEF JoinChannelWithKey, storage
    <2> QED
      BY <1>8, <2>1, <2>2, <2>3, <2>4, <2>5 DEF UserStep
  <1> QED
    BY <1>2, <1>4, <1>5, <1>6, <1>7, <1>8 DEF Next, vars, storage

(* Who renames to a free nick is somebody else before, and is where he was after. *)
LEMMA Renamed ==
    ASSUME NEW mem \in Rosters, NEW old \in Nicks, NEW new \in Nicks, mem[new] = "out"
    PROVE  /\ old # new => RenamedIn(mem, old, new)[new] = mem[old]
           /\ old # new => RenamedIn(mem, old, new)[old] = "out"
           /\ \A n \in Nicks \ {old, new} : RenamedIn(mem, old, new)[n] = mem[n]
           /\ mem[old] = "out" => RenamedIn(mem, old, new) = mem
  BY DEF RenamedIn, Rosters

(* Our own request for a nick *)
LEMMA AnswerNickAgrees ==
    ASSUME LinkInv, Up, srvReady, NEW e, NEW said, NEW ans, Agreed(e, said, ans),
           NEW new \in Nicks, AnswerNick(new),
           UNCHANGED <<session, row, roster, noImplicitNames, inherited, byUser>>,
           request' = request \/ (request' = None /\ request.arg = new)
    PROVE  \E e2, ans2 : Agreed(e2, said, ans2)'
  <1>1. /\ session # 0 /\ srvNick \in Nicks /\ srvNick # None
        /\ members \in [Channels -> Rosters] /\ inherited \subseteq Channels
        /\ session \in Sessions /\ client \in [Sessions -> ClientType]
    BY LiveServer, ClientFacts DEF LinkInv, TypeInv, Up
  <1>2. PICK k : k = client[session]
    OBVIOUS
  <1>3. /\ k \in ClientType /\ k.manual \in Nicks \union {None}
    BY <1>1, <1>2 DEF ClientType
  <1>4. /\ Leads(k.queue, ViewOf(k), e, said, ans) /\ e.nick = srvNick
        /\ NickTold(e) /\ RosterComes(k.auto, e, said) /\ ManualComes(k.manual, ans)
        /\ OpenTold(said) /\ RejoinTold(said) /\ said \in [Channels -> Said] /\ ans \subseteq Nicks
    BY <1>1, <1>2 DEF Agreed, NickTold, RosterTold, ManualTold, Leads
  <1>5. e \in View
    BY <1>4, OneMore, LinesType, SubsetLines
  <1>6. UNCHANGED <<session, row, roster, noImplicitNames, inherited, byUser>>
    OBVIOUS
  <1>7. new # None
    BY NamesAssumption
  <1>8. \A c \in Channels :
           /\ said[c] = "in" => In(c)
           /\ said[c] = "out" => ~In(c)
    BY <1>4 DEF OpenTold
  <1>9. ASSUME NEW m \in Told, m.kind \in {"nick", "433"}, Tell(<<m>>),
               srvNick' # None, After(e, m).nick = srvNick',
               \A c \in Channels : In(c)' <=> In(c),
               RosterComes(k.auto, After(e, m), said)', ManualComes(k.manual, AnswersAfter(ans, e, m))'
        PROVE  \E e2, ans2 : Agreed(e2, said, ans2)'
    <2>1. PICK e2 : e2 = After(e, m)
      OBVIOUS
    <2>2. PICK ans2 : ans2 = AnswersAfter(ans, e, m)
      OBVIOUS
    <2>3. said = SaidAfter(said, e, m)
      <3>1. SaidAfter(said, e, m) = [c \in Channels |-> said[c]]
        BY <1>9 DEF SaidAfter, SaidBy
      <3> QED
        BY <3>1, <1>4
    <2>4. Says(said, said)
      BY <1>8, <1>9 DEF Says
    <2>5. RosterComes(k.auto, e2, said)' /\ ManualComes(k.manual, ans2)'
      BY <2>1, <2>2, <1>9
    <2>6. e2.nick = srvNick'
      BY <2>1, <1>9
    <2>7. Agreed(e2, said, ans2)'
      BY <1>2, <1>6, <1>9, <2>1, <2>2, <2>3, <2>4, <2>5, <2>6, OneLineAgrees
    <2> QED
      BY <2>7
  <1>10. CASE /\ Free(new) /\ srvNick' = new
              /\ members' = [c \in Channels |-> RenamedIn(members[c], srvNick, new)]
              /\ Tell(<<Line("nick", None, srvNick, new)>>)
    <2>1. PICK m \in Told : m = Line("nick", None, srvNick, new)
      BY <1>1, LinesType, SubsetLines
    <2>2. m.kind = "nick" /\ m.nick = srvNick /\ m.arg = new
      BY <2>1, OneLine
    <2>3. PICK e2 : e2 = After(e, m)
      OBVIOUS
    <2>4. /\ e2.nick = new /\ e2.names = e.names /\ e2.rows = e.rows
          /\ e2.roster = [c \in Channels |-> IF e.roster[c][srvNick] = "out" THEN e.roster[c]
                                             ELSE RenamedIn(e.roster[c], srvNick, new)]
      BY <2>2, <2>3, <1>4 DEF After, NickAfter, NamesAfter, RowsAfter, RosterAfter
    <2>5. \A c \in Channels : members[c][new] = "out" /\ new # srvNick /\ members[c] \in Rosters
      BY <1>1, <1>10 DEF Free
    <2>6. \A c \in Channels : members'[c] = RenamedIn(members[c], srvNick, new)
      BY <1>10
    <2>7. \A c \in Channels : members'[c][new] = members[c][srvNick]
      BY <2>5, <2>6, <1>1, Renamed
    <2>8. \A c \in Channels : In(c)' <=> In(c)
      BY <2>7, <1>1, <1>7, <1>10 DEF In
    <2>9. RosterComes(k.auto, e2, said)'
      <3>1. ASSUME NEW c \in Channels, In(c), e.roster[c] = members[c]
            PROVE  e2.roster[c] = members'[c]
        BY <3>1, <2>4, <2>6 DEF In
      <3> QED
        BY <3>1, <2>4, <2>8, <1>4 DEF RosterComes
    <2>10. ManualComes(k.manual, AnswersAfter(ans, e, m))'
      <3>1. \A n \in Nicks : n \in AnswersAfter(ans, e, m)
        BY <2>2, <1>4 DEF AnswersAfter, AnsweredBy
      <3> QED
        BY <3>1, <1>3 DEF ManualComes
    <2> QED
      BY <2>1, <2>3, <2>4, <2>8, <2>9, <2>10, <1>7, <1>9, <1>10, <2>2
  <1>11. CASE new # srvNick /\ Tell(<<Line("433", None, new, None)>>) /\ UNCHANGED <<srvNick, members>>
    <2>1. PICK m \in Told : m = Line("433", None, new, None)
      BY <1>1, LinesType, SubsetLines
    <2>2. m.kind = "433" /\ m.nick = new
      BY <2>1, OneLine
    <2>3. PICK e2 : e2 = After(e, m)
      OBVIOUS
    <2>4. /\ e2.nick = e.nick /\ e2.names = e.names /\ e2.rows = e.rows /\ e2.roster = e.roster
      BY <2>2, <2>3, <1>4 DEF After, NickAfter, NamesAfter, RowsAfter, RosterAfter
    <2>5. \A c \in Channels : In(c)' <=> In(c)
      BY <1>11 DEF In
    <2>6. RosterComes(k.auto, e2, said)'
      BY <2>4, <2>5, <1>4, <1>11 DEF RosterComes
    <2>7. ManualComes(k.manual, AnswersAfter(ans, e, m))'
      <3>1. new \in AnswersAfter(ans, e, m) /\ ans \subseteq AnswersAfter(ans, e, m)
        BY <2>2 DEF AnswersAfter, AnsweredBy
      <3> QED
        BY <3>1, <1>4, <1>6, <1>11 DEF ManualComes
    <2> QED
      BY <2>1, <2>2, <2>3, <2>4, <2>5, <2>6, <2>7, <1>1, <1>4, <1>9, <1>11
  <1>12. CASE new = srvNick /\ UNCHANGED <<client, srvNick, members>>
    <2>1. ManualTold(ans)'
      BY <1>2, <1>4, <1>6, <1>12 DEF ManualTold, ManualComes
    <2>2. \A c \in Channels : In(c)' <=> In(c)
      BY <1>12 DEF In
    <2>3. OpenTold(said)'
      BY <2>2, <1>4, <1>6 DEF OpenTold
    <2>4. RejoinTold(said)'
      BY <2>2, <1>1, <1>4, <1>6, <1>12 DEF RejoinTold
    <2>5. Rows' = Rows
      BY <1>6 DEF Rows
    <2>6. client'[session] = k /\ UNCHANGED <<session, roster, srvNick, members, noImplicitNames>>
      BY <1>2, <1>6, <1>12
    <2>7. Agreed(e, said, ans)'
      BY <1>2, <2>1, <2>3, <2>4, <2>5, <2>6, AgreedKept
    <2> QED
      BY <2>7
  <1> QED
    BY <1>10, <1>11, <1>12 DEF AnswerNick

(* We leave a channel, or are sent away. *)
LEMMA LeftAgrees ==
    ASSUME LinkInv, Up, NEW e, NEW said, NEW ans, Agreed(e, said, ans),
           NEW c \in Channels, In(c), NEW kind \in {"part", "kick"},
           members' = [members EXCEPT ![c][srvNick] = "out"],
           Tell(<<Line(kind, c, srvNick, None)>>),
           UNCHANGED <<session, row, roster, request, srvNick, noImplicitNames, inherited, byUser>>
    PROVE  \E e2, said2, ans2 : Agreed(e2, said2, ans2)'
  <1>1. /\ session # 0 /\ srvNick \in Nicks /\ srvNick # None
        /\ members \in [Channels -> Rosters]
    BY LiveServer DEF LinkInv, TypeInv, Up, In
  <1>2. PICK k : k = client[session]
    OBVIOUS
  <1>3. /\ Leads(k.queue, ViewOf(k), e, said, ans) /\ e.nick = srvNick
        /\ RosterComes(k.auto, e, said) /\ ManualComes(k.manual, ans)
        /\ OpenTold(said) /\ said \in [Channels -> Said]
    BY <1>1, <1>2 DEF Agreed, NickTold, RosterTold, ManualTold, Leads
  <1>4. PICK m \in Told : m = Line(kind, c, srvNick, None)
    BY <1>1, LinesType, SubsetLines
  <1>5. m.kind \in {"part", "kick"} /\ m.chan = c /\ m.nick = srvNick
    BY <1>4, OneLine
  <1>6. PICK e2 : e2 = After(e, m)
    OBVIOUS
  <1>7. PICK said2 : said2 = SaidAfter(said, e, m)
    OBVIOUS
  <1>8. PICK ans2 : ans2 = AnswersAfter(ans, e, m)
    OBVIOUS
  <1>9. e \in View
    BY <1>3, <1>4, OneMore
  <1>10. /\ e2.nick = srvNick /\ e2.names = e.names /\ e2.rows = e.rows
         /\ \A d \in Channels : d # c => e2.roster[d] = e.roster[d]
    <2>1. e.roster \in [Channels -> Rosters]
      BY <1>9 DEF View
    <2> QED
      BY <2>1, <1>3, <1>5, <1>6 DEF After, NickAfter, NamesAfter, RowsAfter, RosterAfter
  <1>11. said2[c] = "out" /\ \A d \in Channels : d # c => said2[d] = said[d]
    BY <1>1, <1>3, <1>5, <1>7 DEF SaidAfter, SaidBy, Ours
  <1>12. members'[c][srvNick] = "out" /\ \A d \in Channels : d # c => members'[d] = members[d]
    <2>1. members[c] \in Rosters
      BY <1>1
    <2> QED
      BY <1>1, <2>1 DEF Rosters
  <1>13. ~In(c)' /\ \A d \in Channels : d # c => (In(d)' <=> In(d))
    BY <1>12 DEF In
  <1>14. RosterComes(k.auto, e2, said2)'
    BY <1>3, <1>10, <1>11, <1>12, <1>13 DEF RosterComes
  <1>15. ManualComes(k.manual, ans2)'
    BY <1>3, <1>8 DEF ManualComes, AnswersAfter
  <1>16. Says(said, said2)
    BY <1>3, <1>11, <1>13 DEF Says, OpenTold
  <1>17. srvNick' # None /\ e2.nick = srvNick' /\ Tell(<<m>>)
    BY <1>1, <1>4, <1>10
  <1>18. UNCHANGED <<session, row, roster, noImplicitNames, inherited, byUser>>
    OBVIOUS
  <1>19. Agreed(e2, said2, ans2)'
    BY <1>2, <1>6, <1>7, <1>8, <1>14, <1>15, <1>16, <1>17, <1>18, OneLineAgrees
  <1> QED
    BY <1>19

(* Somebody joins a channel. *)
LEMMA ArriveAgrees ==
    ASSUME LinkInv, Up, NEW e, NEW said, NEW ans, Agreed(e, said, ans),
           NEW c \in Channels, NEW n \in Nicks, Arrive(c, n)
    PROVE  \E e2, said2, ans2 : Agreed(e2, said2, ans2)'
  <1>1. n # srvNick /\ members' = [members EXCEPT ![c][n] = "plain"]
    BY DEF Arrive
  <1>0. UNCHANGED <<session, row, roster, request, srvNick, noImplicitNames, inherited, byUser>>
    BY DEF Arrive, storage, ghosts
  <1>2. /\ members \in [Channels -> Rosters] /\ srvNick \in Nicks \union {None}
    BY DEF LinkInv, TypeInv
  <1>3. members'[c] = [members[c] EXCEPT ![n] = "plain"] /\ \A d \in Channels : d # c => members'[d] = members[d]
    BY <1>1, <1>2
  <1>4. StayIn
    <2>1. members[c] \in Rosters
      BY <1>2
    <2> QED
      BY <2>1, <1>0, <1>1, <1>2, <1>3 DEF In, Rosters, StayIn
  <1>5. CASE In(c)
    <2>1. srvNick # None /\ e.nick = srvNick
      BY <1>5 DEF In, Agreed, NickTold
    <2>2. PICK m \in Told : m = Line("join", c, n, None)
      BY LinesType, SubsetLines
    <2>3. m.kind = "join" /\ m.chan = c /\ m.nick = n
      BY <2>2, OneLine
    <2>4. Tell(<<m>>)
      BY <1>5, <2>2 DEF Arrive, Seen
    <2>5. e \in View
      BY <2>2, OneMore DEF Agreed
    <2>6. /\ After(e, m).nick = e.nick /\ After(e, m).names = e.names
          /\ After(e, m).rows = e.rows \union {c}
          /\ After(e, m).roster = [e.roster EXCEPT ![c][n] = "plain"]
      BY <2>3 DEF After, NickAfter, NamesAfter, RowsAfter, RosterAfter
    <2>7. Silence(e, m)
      BY <1>1, <2>1, <2>3 DEF Silence, SaidBy, Ours
    <2>8. Follows(e, After(e, m))
      BY <1>3, <2>5, <2>6 DEF View, Follows
    <2>9. \E e2, ans2 : Agreed(e2, said, ans2)'
      BY <1>0, <1>4, <2>1, <2>4, <2>7, <2>8, OthersAgree
    <2> QED
      BY <2>9
  <1>6. CASE ~In(c)
    <2>1. UNCHANGED <<client, session, row, roster, request, srvNick, noImplicitNames, inherited, byUser>>
      BY <1>0, <1>6 DEF Arrive, Seen
    <2>2. \A d \in Channels : In(d) => members'[d] = members[d]
      BY <1>3, <1>6
    <2>3. Agreed(e, said, ans)'
      BY <1>4, <2>1, <2>2, UntoldAgree
    <2> QED
      BY <2>3
  <1> QED
    BY <1>5, <1>6

(* A step of others in one channel *)
LEMMA SeenAgrees ==
    ASSUME LinkInv, Up, NEW e, NEW said, NEW ans, Agreed(e, said, ans),
           NEW c \in Channels, NEW m \in Told, Seen(c, <<m>>),
           UNCHANGED <<session, row, roster, request, srvNick, noImplicitNames, inherited, byUser>>,
           StayIn, In(c) => Silence(e, m) /\ Follows(e, After(e, m)),
           \A d \in Channels : d # c => members'[d] = members[d]
    PROVE  \E e2, said2, ans2 : Agreed(e2, said2, ans2)'
  <1>0. UNCHANGED <<session, row, roster, request, srvNick, noImplicitNames, inherited, byUser>>
    OBVIOUS
  <1>1. CASE In(c)
    <2>1. srvNick # None /\ Tell(<<m>>) /\ Silence(e, m) /\ Follows(e, After(e, m))
      BY <1>1 DEF In, Seen
    <2>2. \E e2, ans2 : Agreed(e2, said, ans2)'
      BY <1>0, <2>1, OthersAgree
    <2> QED
      BY <2>2
  <1>2. CASE ~In(c)
    <2>1. UNCHANGED <<client, session, row, roster, request, srvNick, noImplicitNames, inherited, byUser>>
      BY <1>0, <1>2 DEF Seen
    <2>2. \A d \in Channels : In(d) => members'[d] = members[d]
      BY <1>2
    <2>3. Agreed(e, said, ans)'
      BY <2>1, <2>2, UntoldAgree
    <2> QED
      BY <2>3
  <1> QED
    BY <1>1, <1>2

(* Somebody parts, or is kicked. *)
LEMMA RemoveAgrees ==
    ASSUME LinkInv, Up, NEW e, NEW said, NEW ans, Agreed(e, said, ans),
           NEW c \in Channels, NEW n \in Nicks, Remove(c, n)
    PROVE  \E e2, said2, ans2 : Agreed(e2, said2, ans2)'
  <1>0. UNCHANGED <<session, row, roster, request, srvNick, noImplicitNames, inherited, byUser>>
    BY DEF Remove, storage, ghosts
  <1>1. members[c][n] # "out" /\ members' = [members EXCEPT ![c][n] = "out"]
    BY DEF Remove
  <1>2. /\ members \in [Channels -> Rosters] /\ srvNick \in Nicks \union {None}
    BY DEF LinkInv, TypeInv
  <1>3. PICK kind \in {"part", "kick"} : Seen(c, <<Line(kind, c, n, None)>>)
    BY DEF Remove
  <1>4. CASE n = srvNick
    <2>1. In(c)
      BY <1>1, <1>4, NamesAssumption DEF In
    <2>2. Tell(<<Line(kind, c, srvNick, None)>>) /\ members' = [members EXCEPT ![c][srvNick] = "out"]
      BY <1>1, <1>3, <1>4, <2>1 DEF Seen
    <2> QED
      BY <1>0, <2>1, <2>2, LeftAgrees
  <1>5. CASE n # srvNick
    <2>1. members'[c] = [members[c] EXCEPT ![n] = "out"] /\ \A d \in Channels : d # c => members'[d] = members[d]
      BY <1>1, <1>2
    <2>2. StayIn
      <3>1. members[c] \in Rosters
        BY <1>2
      <3> QED
        BY <3>1, <1>0, <1>2, <1>5, <2>1 DEF In, Rosters, StayIn
    <2>3. PICK m \in Told : m = Line(kind, c, n, None)
      BY LinesType, SubsetLines
    <2>4. m.kind \in {"part", "kick"} /\ m.chan = c /\ m.nick = n
      BY <2>3, OneLine
    <2>5. ASSUME In(c) PROVE Silence(e, m) /\ Follows(e, After(e, m))
      <3>1. srvNick # None /\ e.nick = srvNick
        BY <2>5 DEF In, Agreed, NickTold
      <3>2. e \in View
        BY <2>3, OneMore DEF Agreed
      <3>3. /\ After(e, m).nick = e.nick /\ After(e, m).names = e.names
            /\ After(e, m).rows = e.rows
            /\ After(e, m).roster = IF c \in e.rows THEN [e.roster EXCEPT ![c][n] = "out"] ELSE e.roster
        BY <2>4 DEF After, NickAfter, NamesAfter, RowsAfter, RosterAfter
      <3>4. Silence(e, m)
        BY <1>5, <2>4, <3>1 DEF Silence, SaidBy, Ours
      <3>5. Follows(e, After(e, m))
        BY <2>1, <3>2, <3>3 DEF View, Follows
      <3> QED
        BY <3>4, <3>5
    <2> QED
      BY <1>0, <1>3, <2>1, <2>2, <2>3, <2>5, SeenAgrees
  <1> QED
    BY <1>4, <1>5

(* Somebody's mode changes, ours perhaps. *)
LEMMA SetModeAgrees ==
    ASSUME LinkInv, Up, NEW e, NEW said, NEW ans, Agreed(e, said, ans),
           NEW c \in Channels, NEW n \in Nicks, SetMode(c, n)
    PROVE  \E e2, said2, ans2 : Agreed(e2, said2, ans2)'
  <1>0. UNCHANGED <<session, row, roster, request, srvNick, noImplicitNames, inherited, byUser>>
    BY DEF SetMode, storage, ghosts
  <1>1. PICK mode \in {"op", "plain"} :
           members' = [members EXCEPT ![c][n] = mode] /\ Seen(c, <<Line("mode", c, n, mode)>>)
    BY DEF SetMode
  <1>2. members \in [Channels -> Rosters] /\ srvNick \in Nicks \union {None} /\ members[c][n] # "out"
    BY DEF LinkInv, TypeInv, SetMode
  <1>3. members'[c] = [members[c] EXCEPT ![n] = mode] /\ \A d \in Channels : d # c => members'[d] = members[d]
    BY <1>1, <1>2
  <1>4. StayIn
    <2>1. members[c] \in Rosters
      BY <1>2
    <2>2. srvNick \in Nicks => (members'[c][srvNick] = "out" <=> members[c][srvNick] = "out")
      BY <2>1, <1>2, <1>3 DEF Rosters
    <2> QED
      BY <2>2, <1>0, <1>2, <1>3 DEF In, StayIn
  <1>5. PICK m \in Told : m = Line("mode", c, n, mode)
    BY LinesType, SubsetLines
  <1>6. m.kind = "mode" /\ m.chan = c /\ m.nick = n /\ m.arg = mode
    BY <1>5, OneLine
  <1>7. ASSUME In(c) PROVE Silence(e, m) /\ Follows(e, After(e, m))
    <2>1. e \in View
      BY <1>5, OneMore DEF Agreed
    <2>2. /\ After(e, m).nick = e.nick /\ After(e, m).names = e.names
          /\ After(e, m).rows = e.rows
          /\ After(e, m).roster = IF e.roster[c][n] = "out" THEN e.roster ELSE [e.roster EXCEPT ![c][n] = mode]
      BY <1>6 DEF After, NickAfter, NamesAfter, RowsAfter, RosterAfter
    <2>3. Silence(e, m)
      BY <1>6 DEF Silence, SaidBy
    <2>4. Follows(e, After(e, m))
      BY <1>2, <1>3, <2>1, <2>2 DEF View, Follows
    <2> QED
      BY <2>3, <2>4
  <1> QED
    BY <1>0, <1>1, <1>3, <1>4, <1>5, <1>7, SeenAgrees

(* A step of others in every channel *)
LEMMA SharedAgrees ==
    ASSUME LinkInv, Up, NEW e, NEW said, NEW ans, Agreed(e, said, ans),
           NEW n \in Nicks, NEW m \in Told,
           IF Shared(n) THEN Tell(<<m>>) ELSE UNCHANGED client,
           UNCHANGED <<session, row, roster, request, srvNick, noImplicitNames, inherited, byUser>>,
           StayIn, Shared(n) => Silence(e, m) /\ Follows(e, After(e, m)),
           \A d \in Channels : members[d][n] = "out" => members'[d] = members[d]
    PROVE  \E e2, said2, ans2 : Agreed(e2, said2, ans2)'
  <1>0. UNCHANGED <<session, row, roster, request, srvNick, noImplicitNames, inherited, byUser>>
    OBVIOUS
  <1>1. CASE Shared(n)
    <2>1. srvNick # None /\ Tell(<<m>>) /\ Silence(e, m) /\ Follows(e, After(e, m))
      BY <1>1 DEF In, Shared
    <2>2. \E e2, ans2 : Agreed(e2, said, ans2)'
      BY <1>0, <2>1, OthersAgree
    <2> QED
      BY <2>2
  <1>2. CASE ~Shared(n)
    <2>1. UNCHANGED <<client, session, row, roster, request, srvNick, noImplicitNames, inherited, byUser>>
      BY <1>0, <1>2
    <2>2. \A d \in Channels : In(d) => members'[d] = members[d]
      BY <1>2 DEF Shared
    <2>3. Agreed(e, said, ans)'
      BY <2>1, <2>2, UntoldAgree
    <2> QED
      BY <2>3
  <1> QED
    BY <1>1, <1>2

(* Somebody quits, a ghost of ours perhaps. *)
LEMMA QuitUserAgrees ==
    ASSUME LinkInv, Up, NEW e, NEW said, NEW ans, Agreed(e, said, ans), NEW n \in Nicks, QuitUser(n)
    PROVE  \E e2, said2, ans2 : Agreed(e2, said2, ans2)'
  <1>0. UNCHANGED <<session, row, roster, request, srvNick, noImplicitNames, inherited, byUser>>
    BY DEF QuitUser, storage, ghosts
  <1>1. PICK m \in Told : m = Line("quit", None, n, None)
    BY LinesType, SubsetLines
  <1>2. /\ n # srvNick /\ members' = [c \in Channels |-> [members[c] EXCEPT ![n] = "out"]]
        /\ IF Shared(n) THEN Tell(<<m>>) ELSE UNCHANGED client
    BY <1>1 DEF QuitUser
  <1>3. members \in [Channels -> Rosters] /\ srvNick \in Nicks \union {None}
    BY DEF LinkInv, TypeInv
  <1>4. m.kind = "quit" /\ m.nick = n
    BY <1>1, OneLine
  <1>5. \A d \in Channels : members'[d] = [members[d] EXCEPT ![n] = "out"] /\ members[d] \in Rosters
    BY <1>2, <1>3
  <1>6. StayIn
    BY <1>0, <1>2, <1>3, <1>5 DEF StayIn, In, Rosters
  <1>7. Silence(e, m) /\ Follows(e, After(e, m))
    <2>1. Silence(e, m)
      BY <1>4 DEF Silence, SaidBy
    <2>2. /\ After(e, m).nick = e.nick /\ After(e, m).names = e.names
          /\ After(e, m).rows = e.rows
          /\ After(e, m).roster = [c \in Channels |-> [e.roster[c] EXCEPT ![n] = "out"]]
      BY <1>4 DEF After, NickAfter, NamesAfter, RowsAfter, RosterAfter
    <2>3. Follows(e, After(e, m))
      BY <1>5, <2>2 DEF Follows
    <2> QED
      BY <2>1, <2>3
  <1>8. \A d \in Channels : members[d][n] = "out" => members'[d] = members[d]
    <2>1. \A mem \in Rosters : mem[n] = "out" => [mem EXCEPT ![n] = "out"] = mem
      BY DEF Rosters
    <2> QED
      BY <1>5, <2>1
  <1>9. IF Shared(n) THEN Tell(<<m>>) ELSE UNCHANGED client
    BY <1>2
  <1> QED
    BY <1>0, <1>6, <1>7, <1>8, <1>9, SharedAgrees

(* Somebody changes his nick, a ghost of ours perhaps. *)
LEMMA RenameUserAgrees ==
    ASSUME LinkInv, Up, NEW e, NEW said, NEW ans, Agreed(e, said, ans),
           NEW n \in Nicks, NEW new \in Nicks, RenameUser(n, new)
    PROVE  \E e2, said2, ans2 : Agreed(e2, said2, ans2)'
  <1>0. UNCHANGED <<session, row, roster, request, srvNick, noImplicitNames, inherited, byUser>>
    BY DEF RenameUser, storage, ghosts
  <1>1. PICK m \in Told : m = Line("nick", None, n, new)
    BY LinesType, SubsetLines
  <1>2. /\ n # srvNick /\ members' = [c \in Channels |-> RenamedIn(members[c], n, new)]
        /\ IF Shared(n) THEN Tell(<<m>>) ELSE UNCHANGED client
        /\ new # srvNick /\ ~Free(n)
    BY <1>1 DEF RenameUser, Free
  <1>3. members \in [Channels -> Rosters] /\ srvNick \in Nicks \union {None}
    BY DEF LinkInv, TypeInv
  <1>4. m.kind = "nick" /\ m.nick = n /\ m.arg = new
    BY <1>1, OneLine
  <1>5. \A d \in Channels : members'[d] = RenamedIn(members[d], n, new) /\ members[d] \in Rosters /\ members[d][new] = "out"
    BY <1>2, <1>3 DEF RenameUser, Free
  <1>6. StayIn
    <2>1. \A d \in Channels : srvNick \in Nicks => members'[d][srvNick] = members[d][srvNick]
      BY <1>2, <1>5, Renamed
    <2> QED
      BY <2>1, <1>0, <1>3 DEF StayIn, In
  <1>7. ASSUME Shared(n) PROVE Silence(e, m) /\ Follows(e, After(e, m))
    <2>1. Silence(e, m)
      BY <1>4 DEF Silence, SaidBy
    <2>2. e.nick = srvNick
      BY <1>7 DEF Shared, In, Agreed, NickTold
    <2>3. /\ After(e, m).nick = e.nick /\ After(e, m).names = e.names
          /\ After(e, m).rows = e.rows
          /\ After(e, m).roster = [c \in Channels |-> IF e.roster[c][n] = "out" THEN e.roster[c]
                                                      ELSE RenamedIn(e.roster[c], n, new)]
      BY <1>2, <1>4, <2>2 DEF After, NickAfter, NamesAfter, RowsAfter, RosterAfter
    <2>4. \A d \in Channels : members[d][n] = "out" => members'[d] = members[d]
      BY <1>5, Renamed
    <2>5. Follows(e, After(e, m))
      BY <1>5, <2>3, <2>4 DEF Follows
    <2> QED
      BY <2>1, <2>5
  <1>8. \A d \in Channels : members[d][n] = "out" => members'[d] = members[d]
    BY <1>5, Renamed
  <1>9. IF Shared(n) THEN Tell(<<m>>) ELSE UNCHANGED client
    BY <1>2
  <1> QED
    BY <1>0, <1>6, <1>7, <1>8, <1>9, SharedAgrees

(* Two lines are told one after the other. *)
LEMMA TwoLines ==
    ASSUME NEW S, NEW a \in S, NEW b \in S
    PROVE  <<a, b>> = <<a>> \o <<b>>
  <1>1. /\ <<a>> \in Seq(S) /\ <<b>> \in Seq(S) /\ Len(<<a>>) = 1 /\ Len(<<b>>) = 1 /\ <<a>>[1] = a /\ <<b>>[1] = b
    OBVIOUS
  <1>2. /\ <<a>> \o <<b>> \in Seq(S) /\ Len(<<a>> \o <<b>>) = 2
        /\ (<<a>> \o <<b>>)[1] = a
        /\ (<<a>> \o <<b>>)[2] = b
    BY <1>1, ConcatProperties
  <1>3. <<a, b>> \in Seq(S) /\ Len(<<a, b>>) = 2 /\ <<a, b>>[1] = a /\ <<a, b>>[2] = b
    OBVIOUS
  <1>4. \A s, t \in Seq(S) : Len(s) = 2 /\ Len(t) = 2 /\ s[1] = t[1] /\ s[2] = t[2] => s = t
    <2> SUFFICES ASSUME NEW s \in Seq(S), NEW t \in Seq(S), Len(s) = 2, Len(t) = 2, s[1] = t[1], s[2] = t[2]
                 PROVE s = t
      OBVIOUS
    <2>1. \A i \in 1 .. Len(s) : s[i] = t[i]
      OBVIOUS
    <2> QED
      BY <2>1, SeqEqual
  <1> QED
    BY <1>2, <1>3, <1>4

(* Two lines that say nothing of a channel, while we are in none *)
LEMMA TwoLinesAgree ==
    ASSUME LinkInv, Up, NEW e, NEW said, NEW ans, Agreed(e, said, ans),
           NEW m1 \in Told, NEW m2 \in Told, Tell(<<m1, m2>>),
           m1.kind \in {"433", "376"}, m2.kind \in {"001", "connected"},
           UNCHANGED <<session, row, roster, request, noImplicitNames, inherited, byUser>>,
           (srvNick = None /\ m2.kind = "001") \/ (srvNick' = srvNick /\ srvNick # None /\ m2.kind = "connected"),
           srvNick' # None, m2.kind = "001" => m2.nick = srvNick',
           \A c \in Channels : ~In(c), \A c \in Channels : ~In(c)'
    PROVE  \E e2, said2, ans2 : Agreed(e2, said2, ans2)'
  <1>1. /\ session # 0 /\ inherited \subseteq Channels
        /\ session \in Sessions /\ client \in [Sessions -> ClientType]
    BY ClientFacts DEF LinkInv, TypeInv, Up
  <1>2. PICK k : k = client[session]
    OBVIOUS
  <1>3. /\ Leads(k.queue, ViewOf(k), e, said, ans) /\ e.names = {}
        /\ NickTold(e) /\ ManualComes(k.manual, ans) /\ OpenTold(said) /\ k \in ClientType
    BY <1>1, <1>2 DEF Agreed, RosterTold, RosterComes, ManualTold
  <1>4. PICK e1 : e1 = After(e, m1)
    OBVIOUS
  <1>5. PICK e2 : e2 = After(e1, m2)
    OBVIOUS
  <1>6. PICK said1 : said1 = SaidAfter(said, e, m1)
    OBVIOUS
  <1>7. PICK said2 : said2 = SaidAfter(said1, e1, m2)
    OBVIOUS
  <1>8. PICK ans1 : ans1 = AnswersAfter(ans, e, m1)
    OBVIOUS
  <1>9. PICK ans2 : ans2 = AnswersAfter(ans1, e1, m2)
    OBVIOUS
  <1>10. PICK q : q = k.queue \o <<m1>>
    OBVIOUS
  <1>11. Leads(q, ViewOf(k), e1, said1, ans1) /\ said \in [Channels -> Said]
    BY <1>3, <1>4, <1>6, <1>8, <1>10, LineTold
  <1>12. Leads(q \o <<m2>>, ViewOf(k), e2, said2, ans2)
    BY <1>5, <1>7, <1>9, <1>11, LineTold
  <1>13. k.queue \o <<m1, m2>> = q \o <<m2>> /\ <<m1, m2>> \in Seq(Told)
    <2>1. <<m1>> \in Seq(Told) /\ <<m2>> \in Seq(Told) /\ <<m1, m2>> \in Seq(Told)
      OBVIOUS
    <2>2. <<m1, m2>> = <<m1>> \o <<m2>>
      BY TwoLines
    <2>3. k.queue \in Seq(Told)
      BY <1>3 DEF Leads
    <2>4. k.queue \o (<<m1>> \o <<m2>>) = (k.queue \o <<m1>>) \o <<m2>>
      BY <2>1, <2>3, ConcatAssociative
    <2> QED
      BY <2>1, <2>2, <2>4, <1>10
  <1>14. PICK ls \in Seq(Told) : ls = <<m1, m2>>
    BY <1>13
  <1>15. PICK r : r = [k EXCEPT !.queue = @ \o ls]
    OBVIOUS
  <1>16. /\ r.queue = k.queue \o ls /\ r.nick = k.nick /\ r.names = k.names /\ r.rejoin = k.rejoin
         /\ r.pass = k.pass /\ r.manual = k.manual /\ r.auto = k.auto /\ r.todo = k.todo
    BY <1>3, <1>15 DEF ClientType
  <1>17. client'[session] = r
    BY <1>1, <1>2, <1>14, <1>15 DEF Tell
  <1>18. Leads(r.queue, ViewOf(k), e2, said2, ans2)
    BY <1>12, <1>13, <1>14, <1>16
  <1>19. e2.nick = srvNick' /\ e2.names = {}
    <2>1. e1.nick = e.nick /\ e1.names = {}
      BY <1>3, <1>4 DEF After, NickAfter, NamesAfter
    <2>2. e2.nick = (IF m2.kind = "001" THEN m2.nick ELSE e1.nick) /\ e2.names = {}
      BY <2>1, <1>5 DEF After, NickAfter, NamesAfter
    <2> QED
      BY <2>1, <2>2, <1>3 DEF NickTold
  <1>20. said2 = said
    <2>1. said1 = [c \in Channels |-> said[c]]
      BY <1>6 DEF SaidAfter, SaidBy
    <2>2. said2 = [c \in Channels |-> said1[c]]
      BY <1>7 DEF SaidAfter, SaidBy
    <2> QED
      BY <2>1, <2>2, <1>11
  <1>21. RosterComes(r.auto, e2, said2)'
    BY <1>19 DEF RosterComes
  <1>22. ManualTold(ans2)'
    <2>1. ans \subseteq ans2
      BY <1>8, <1>9 DEF AnswersAfter
    <2>2. ManualComes(k.manual, ans2)'
      BY <2>1, <1>3 DEF ManualComes
    <2> QED
      BY <2>2, <1>16, <1>17 DEF ManualTold
  <1>23. Says(said, said2)
    BY <1>3, <1>20 DEF Says, OpenTold
  <1>24. r.todo \subseteq k.todo /\ \A j \in k.todo : j \notin r.todo => said2[j.chan] # "nothing" \/ In(j.chan)
    BY <1>16
  <1>25. UNCHANGED <<session, row, roster, noImplicitNames, inherited, byUser>>
    OBVIOUS
  <1>26. srvNick' # None /\ e2.nick = srvNick'
    BY <1>19
  <1>27. Agreed(e2, said2, ans2)'
    BY <1>1, <1>2, <1>16, <1>17, <1>18, <1>21, <1>22, <1>23, <1>24, <1>25, <1>26, AgreedTold
  <1> QED
    BY <1>27

(* After registration the lines lead to our nick. *)
LEMMA RegisterAgrees ==
    ASSUME LinkInv, Up, NEW e, NEW said, NEW ans, Agreed(e, said, ans), Register
    PROVE  \E e2, said2, ans2 : Agreed(e2, said2, ans2)'
  <1>0. UNCHANGED <<session, row, roster, request, noImplicitNames, inherited, byUser>>
    BY DEF Register, storage, ghosts
  <1>1. srvNick = None /\ members' = members /\ Me \in Nicks /\ Alt \in Nicks
    BY DEF Register, Nicks
  <1>2. \A c \in Channels : ~In(c)
    BY <1>1 DEF In
  <1>3. CASE Free(Me) /\ srvNick' = Me /\ Tell(<<Line("001", None, Me, None)>>)
    <2>1. PICK m \in Told : m = Line("001", None, Me, None)
      BY <1>1, LinesType, SubsetLines
    <2>2. m.kind = "001" /\ m.nick = Me
      BY <2>1, OneLine
    <2>3. \A c \in Channels : ~In(c)'
      BY <1>1, <1>3 DEF Free, In
    <2>4. PICK e2 : e2 = After(e, m)
      OBVIOUS
    <2>5. PICK said2 : said2 = SaidAfter(said, e, m)
      OBVIOUS
    <2>6. PICK ans2 : ans2 = AnswersAfter(ans, e, m)
      OBVIOUS
    <2>7. PICK k : k = client[session]
      OBVIOUS
    <2>8. e.names = {} /\ ManualComes(k.manual, ans) /\ OpenTold(said) /\ said \in [Channels -> Said]
      BY <2>7 DEF Agreed, RosterTold, RosterComes, ManualTold, Leads
    <2>9. e2.nick = Me /\ e2.names = {}
      BY <2>2, <2>4, <2>8 DEF After, NickAfter, NamesAfter
    <2>10. said2 = said
      <3>1. said2 = [c \in Channels |-> said[c]]
        BY <2>2, <2>5 DEF SaidAfter, SaidBy
      <3> QED
        BY <3>1, <2>8
    <2>11. RosterComes(k.auto, e2, said2)'
      BY <2>3, <2>9 DEF RosterComes
    <2>12. ManualComes(k.manual, ans2)'
      BY <1>0, <1>1, <2>6, <2>8 DEF ManualComes, AnswersAfter
    <2>13. Says(said, said2)
      BY <1>2, <2>3, <2>8, <2>10 DEF Says, OpenTold
    <2>14. srvNick' # None /\ e2.nick = srvNick' /\ Tell(<<m>>)
      BY <1>1, <1>3, <2>1, <2>9, NamesAssumption
    <2>15. UNCHANGED <<session, row, roster, noImplicitNames, inherited, byUser>>
      BY <1>0
    <2>16. Agreed(e2, said2, ans2)'
      BY <2>4, <2>5, <2>6, <2>7, <2>11, <2>12, <2>13, <2>14, <2>15, OneLineAgrees
    <2> QED
      BY <2>16
  <1>4. CASE Free(Alt) /\ srvNick' = Alt /\ Tell(<<Line("433", None, Me, None), Line("001", None, Alt, None)>>)
    <2>1. PICK m1 \in Told : m1 = Line("433", None, Me, None)
      BY <1>1, LinesType, SubsetLines
    <2>2. PICK m2 \in Told : m2 = Line("001", None, Alt, None)
      BY <1>1, LinesType, SubsetLines
    <2>3. m1.kind = "433" /\ m2.kind = "001" /\ m2.nick = Alt
      BY <2>1, <2>2, OneLine
    <2>4. \A c \in Channels : ~In(c)'
      BY <1>1, <1>4 DEF Free, In
    <2>5. srvNick' # None /\ Tell(<<m1, m2>>) /\ srvNick' = Alt
      BY <1>1, <1>4, <2>1, <2>2, NamesAssumption
    <2> QED
      BY <1>0, <1>1, <1>2, <2>3, <2>4, <2>5, TwoLinesAgree
  <1> QED
    BY <1>3, <1>4 DEF Register

(* The end of the greeting leads to empty rosters, and we are nowhere yet. *)
LEMMA EndGreetingAgrees ==
    ASSUME LinkInv, Up, NEW e, NEW said, NEW ans, Agreed(e, said, ans), EndGreeting
    PROVE  \E e2, said2, ans2 : Agreed(e2, said2, ans2)'
  <1>0. UNCHANGED <<session, row, roster, request, noImplicitNames, inherited, byUser>>
    BY DEF EndGreeting, storage, ghosts
  <1>1. srvNick # None /\ srvNick' = srvNick /\ members' = members /\ ~srvReady
    BY DEF EndGreeting
  <1>2. \A c \in Channels : ~In(c)
    BY <1>1 DEF LinkInv, ServerInv
  <1>3. \A c \in Channels : ~In(c)'
    BY <1>1, <1>2 DEF In
  <1>4. PICK m1 \in Told : m1 = Line("376", None, None, None)
    BY LinesType, SubsetLines
  <1>5. PICK m2 \in Told : m2 = Line("connected", None, None, None)
    BY LinesType
  <1>6. m1.kind = "376" /\ m2.kind = "connected"
    BY <1>4, <1>5, OneLine
  <1>7. Tell(<<m1, m2>>)
    BY <1>4, <1>5 DEF EndGreeting
  <1> QED
    BY <1>0, <1>1, <1>2, <1>3, <1>6, <1>7, TwoLinesAgree

(* Somebody puts us into a channel: as if we had asked with the right key. *)
LEMMA ForceJoinAgrees ==
    ASSUME LinkInv, Up, NEW e, NEW said, NEW ans, Agreed(e, said, ans), NEW c \in Channels, ForceJoin(c)
    PROVE  \E e2, said2, ans2 : Agreed(e2, said2, ans2)'
  <1>0. UNCHANGED <<session, row, roster, srvNick, noImplicitNames, inherited, byUser>>
    BY DEF ForceJoin, storage, ghosts
  <1>1. srvReady /\ request' = request /\ client[session] \in ClientType
    BY LiveServer DEF ForceJoin, Up
  <1>2. AnswerJoin(session, client[session], c, Key)
    <2>1. client' = [client EXCEPT ![session] = [client[session] EXCEPT !.queue = @ \o JoinReply(c)]]
      BY DEF ForceJoin, Tell
    <2> QED
      BY <2>1 DEF ForceJoin, Tell, AnswerJoin
  <1>3. PICK k \in ClientType : k = client[session]
    BY <1>1
  <1>4. Joining(k, c)
    BY <1>3 DEF Joining
  <1>5. AnswerJoin(session, k, c, Key)
    BY <1>2, <1>3
  <1>6. srvReady /\ AsksToJoin
    BY <1>1 DEF AsksToJoin
  <1>7. \E e2, said2 : Agreed(e2, said2, ans)'
    BY <1>0, <1>4, <1>5, <1>6, AnswerJoinAgrees
  <1> QED
    BY <1>7

(* Whatever the server does, its lines agree with it. *)
LEMMA ServerAgrees ==
    ASSUME LinkInv, Up, NEW e, NEW said, NEW ans, Agreed(e, said, ans), ServerStep
    PROVE  \E e2, said2, ans2 : Agreed(e2, said2, ans2)'
  <1>1. CASE AskPreferred
    <2>1. /\ srvReady /\ AnswerNick(Me) /\ Me \in Nicks /\ request' = request
          /\ UNCHANGED <<session, row, roster, noImplicitNames, inherited, byUser>>
      BY <1>1 DEF AskPreferred, storage, ghosts, Nicks
    <2>2. \E e2, ans2 : Agreed(e2, said, ans2)'
      BY <2>1, AnswerNickAgrees
    <2> QED
      BY <2>2
  <1>2. CASE Register
    BY <1>2, RegisterAgrees
  <1>3. CASE EndGreeting
    BY <1>3, EndGreetingAgrees
  <1>4. ASSUME NEW c \in Channels, ForceJoin(c) PROVE \E e2, said2, ans2 : Agreed(e2, said2, ans2)'
    BY <1>4, ForceJoinAgrees
  <1>5. ASSUME NEW c \in Channels, NEW n \in Nicks, Arrive(c, n)
        PROVE  \E e2, said2, ans2 : Agreed(e2, said2, ans2)'
    BY <1>5, ArriveAgrees
  <1>6. ASSUME NEW c \in Channels, NEW n \in Nicks, Remove(c, n)
        PROVE  \E e2, said2, ans2 : Agreed(e2, said2, ans2)'
    BY <1>6, RemoveAgrees
  <1>7. ASSUME NEW c \in Channels, NEW n \in Nicks, SetMode(c, n)
        PROVE  \E e2, said2, ans2 : Agreed(e2, said2, ans2)'
    BY <1>7, SetModeAgrees
  <1>8. ASSUME NEW n \in Nicks, QuitUser(n) PROVE \E e2, said2, ans2 : Agreed(e2, said2, ans2)'
    BY <1>8, QuitUserAgrees
  <1>9. ASSUME NEW n \in Nicks, NEW new \in Nicks, RenameUser(n, new)
        PROVE  \E e2, said2, ans2 : Agreed(e2, said2, ans2)'
    BY <1>9, RenameUserAgrees
  <1> QED
    BY <1>1, <1>2, <1>3, <1>4, <1>5, <1>6, <1>7, <1>8, <1>9 DEF ServerStep

(* The user sets a pane, or what is joined at a first start. *)
LEMMA PanesAgree ==
    ASSUME LinkInv, Up, NEW e, NEW said, NEW ans, Agreed(e, said, ans), NEW c \in Channels,
           \/ \E open : SetChannelOpen(c, open)
           \/ ToggleChannelAutoJoin(c)
    PROVE  Agreed(e, said, ans)'
  <1>1. /\ UNCHANGED <<session, roster, srvNick, members, noImplicitNames>>
        /\ client' = client /\ request' = request
    BY DEF SetChannelOpen, ToggleChannelAutoJoin, server
  <1>2. row \in [Channels -> RowType] /\ inherited \subseteq Channels
    BY DEF LinkInv, TypeInv
  <1>3. /\ \A d \in Channels : row'[d].exists = row[d].exists
        /\ \A d \in Channels : d # c => row'[d].open = row[d].open
    BY <1>2 DEF SetChannelOpen, UpdateChannelIsOpen, ToggleChannelAutoJoin, RowType
  <1>4. Rows' = Rows
    BY <1>3 DEF Rows
  <1>5. \/ byUser' = byUser \union {c} /\ inherited' = inherited \ {c}
        \/ byUser' = byUser /\ inherited' = inherited /\ row'[c].open = row[c].open
    BY <1>2 DEF SetChannelOpen, ToggleChannelAutoJoin, ghosts, RowType
  <1>6. PICK k : k = client[session]
    OBVIOUS
  <1>7. client'[session] = k
    BY <1>1, <1>6
  <1>8. \A d \in Channels : In(d)' <=> In(d)
    BY <1>1 DEF In
  <1>9. ManualTold(ans) /\ OpenTold(said) /\ RejoinTold(said)
    BY DEF Agreed
  <1>10. ManualTold(ans)'
    BY <1>1, <1>9 DEF ManualTold, ManualComes
  <1>11. OpenTold(said)'
    BY <1>3, <1>5, <1>8, <1>9 DEF OpenTold
  <1>12. RejoinTold(said)'
    BY <1>1, <1>2, <1>3, <1>5, <1>8, <1>9 DEF RejoinTold
  <1> QED
    BY <1>1, <1>4, <1>6, <1>7, <1>10, <1>11, <1>12, AgreedKept

(* The bookkeeping of a call *)
LEMMA BooksAgree ==
    ASSUME LinkInv, Up, NEW e, NEW said, NEW ans, Agreed(e, said, ans),
           NEW k, k = client[session], NEW r, client'[session] = r,
           r.queue = k.queue, r.nick = k.nick, r.names = k.names, r.auto = k.auto,
           r.todo = k.todo, r.rejoin = k.rejoin, r.pass \in {k.pass, "go"},
           UNCHANGED <<session, row, roster, srvNick, members, noImplicitNames, inherited, byUser>>,
           ManualTold(ans)'
    PROVE  Agreed(e, said, ans)'
  <1>1. Rows' = Rows
    BY DEF Rows
  <1>2. \A d \in Channels : In(d)' <=> In(d)
    BY DEF In
  <1>3. inherited \subseteq Channels
    BY DEF LinkInv, TypeInv
  <1>4. OpenTold(said) /\ RejoinTold(said)
    BY DEF Agreed
  <1>5. OpenTold(said)'
    BY <1>2, <1>4 DEF OpenTold
  <1>6. RejoinTold(said)'
    BY <1>2, <1>3, <1>4 DEF RejoinTold
  <1> QED
    BY <1>1, <1>5, <1>6, AgreedKept

(* A call of the frontend leaves the lines agreeing. *)
LEMMA UserAgrees ==
    ASSUME LinkInv, Up, NEW e, NEW said, NEW ans, Agreed(e, said, ans), UserStep, Up'
    PROVE  \E e2, said2, ans2 : Agreed(e2, said2, ans2)'
  <1>1. /\ session \in Sessions /\ client \in [Sessions -> ClientType]
        /\ \A g \in Sessions : client[g] \in ClientType
    BY ClientFacts DEF Up
  <1>2. PICK k : k = client[session]
    OBVIOUS
  <1>3. k \in ClientType /\ ManualComes(k.manual, ans)
    BY <1>1, <1>2 DEF Agreed, ManualTold
  <1>4. CASE SignalQuit
    <2>1. session' = session /\ client' = [client EXCEPT ![session].phase = "quit", ![session].auto = <<>>]
      BY <1>4 DEF SignalQuit
    <2>2. client'[session].phase = "quit"
      BY <2>1, <1>1 DEF ClientType
    <2> QED
      BY <2>1, <2>2 DEF Up
  <1>5. CASE RecordPendingJoinKey
    <2>1. /\ request # None /\ request.kind = "key" /\ request' = None
          /\ client' = [client EXCEPT ![request.by].keys[request.chan] = request.arg]
          /\ UNCHANGED <<session, row, roster, srvNick, members, noImplicitNames, inherited, byUser>>
      BY <1>5 DEF RecordPendingJoinKey, storage, server, ghosts
    <2>2. PICK g, d, x : client' = [client EXCEPT ![g].keys[d] = x]
      BY <2>1
    <2>3. PICK r : r = client'[session]
      OBVIOUS
    <2>4. /\ r.queue = k.queue /\ r.nick = k.nick /\ r.names = k.names /\ r.auto = k.auto
          /\ r.todo = k.todo /\ r.rejoin = k.rejoin /\ r.pass = k.pass /\ r.manual = k.manual
      BY <2>2, <2>3, <1>1, <1>2 DEF ClientType
    <2>5. ManualTold(ans)'
      BY <2>1, <2>3, <2>4, <1>3 DEF ManualTold, ManualComes
    <2>6. UNCHANGED <<session, row, roster, srvNick, members, noImplicitNames, inherited, byUser>>
      BY <2>1
    <2>7. Agreed(e, said, ans)'
      BY <1>2, <2>3, <2>4, <2>5, <2>6, BooksAgree
    <2> QED
      BY <2>7
  <1>6. ASSUME NEW new \in {Me, Alt}, ChangeNick(new) PROVE \E e2, said2, ans2 : Agreed(e2, said2, ans2)'
    <2>1. /\ client' = [client EXCEPT ![session].manual = new]
          /\ request' = [kind |-> "nick", by |-> session, chan |-> None, arg |-> new]
      BY <1>6 DEF ChangeNick
    <2>2. UNCHANGED <<session, row, roster, srvNick, members, noImplicitNames, inherited, byUser>>
      BY <1>6 DEF ChangeNick, storage, server, ghosts
    <2>3. PICK r : r = client'[session]
      OBVIOUS
    <2>4. /\ r.queue = k.queue /\ r.nick = k.nick /\ r.names = k.names /\ r.auto = k.auto
          /\ r.todo = k.todo /\ r.rejoin = k.rejoin /\ r.pass = k.pass /\ r.manual = new
      BY <2>1, <2>3, <1>1, <1>2 DEF ClientType
    <2>5. request' # None
      BY <2>1, <1>1, CallsAssumption DEF Calls, Nicks
    <2>6. ManualTold(ans)'
      BY <2>1, <2>2, <2>3, <2>4, <2>5 DEF ManualTold, ManualComes
    <2>7. Agreed(e, said, ans)'
      BY <1>2, <2>2, <2>3, <2>4, <2>6, BooksAgree
    <2> QED
      BY <2>7
  <1>7. CASE SendNick
    <2>1. UNCHANGED <<session, row, roster, noImplicitNames, inherited, byUser>>
      BY <1>7 DEF SendNick, storage, ghosts
    <2>2. request # None /\ request.kind = "nick" /\ request' = None /\ request.arg \in Nicks /\ request.by \in Sessions
      BY <1>7 DEF SendNick, LinkInv, TypeInv, RequestType, Nicks
    <2>3. CASE request.by = session /\ IsOn /\ AnswerNick(request.arg)
      <3>1. PICK new \in Nicks : new = request.arg
        BY <2>2
      <3>2. srvReady /\ AnswerNick(new)
        BY <2>3, <3>1, LiveServer
      <3>3. request' = None /\ request.arg = new
        BY <2>2, <3>1
      <3>4. \E e2, ans2 : Agreed(e2, said, ans2)'
        BY <2>1, <3>2, <3>3, AnswerNickAgrees
      <3> QED
        BY <3>4
    <2>4. CASE /\ client' = [client EXCEPT ![request.by].manual = IF client[request.by].manual = request.arg THEN None
                                                                  ELSE client[request.by].manual]
               /\ UNCHANGED <<srvNick, members>>
      <3>1. PICK g, x : /\ g = request.by /\ x = IF client[g].manual = request.arg THEN None ELSE client[g].manual
                        /\ client' = [client EXCEPT ![g].manual = x]
        BY <2>4
      <3>2. PICK r : r = client'[session]
        OBVIOUS
      <3>3. /\ r.queue = k.queue /\ r.nick = k.nick /\ r.names = k.names /\ r.auto = k.auto
            /\ r.todo = k.todo /\ r.rejoin = k.rejoin /\ r.pass = k.pass
            /\ r.manual = IF g = session THEN x ELSE k.manual
        BY <3>1, <3>2, <1>1, <1>2 DEF ClientType
      <3>4. ManualTold(ans)'
        BY <2>1, <2>2, <2>4, <3>1, <3>2, <3>3, <1>2, <1>3 DEF ManualTold, ManualComes
      <3>5. UNCHANGED <<session, row, roster, srvNick, members, noImplicitNames, inherited, byUser>>
        BY <2>1, <2>4
      <3>6. Agreed(e, said, ans)'
        BY <1>2, <3>2, <3>3, <3>4, <3>5, BooksAgree
      <3> QED
        BY <3>6
    <2> QED
      BY <1>7, <2>2, <2>3, <2>4 DEF SendNick
  <1>8. ASSUME NEW c \in Channels, NEW key, JoinChannelWithKey(c, key)
        PROVE  \E e2, said2, ans2 : Agreed(e2, said2, ans2)'
    <2>1. UNCHANGED <<session, row, roster, srvNick, noImplicitNames, inherited, byUser>>
      BY <1>8 DEF JoinChannelWithKey, storage, ghosts
    <2>2. srvReady /\ AsksToJoin
      BY <1>8, LiveServer DEF JoinChannelWithKey, AsksToJoin
    <2>3. AnswerJoin(session, k, c, key) /\ Joining(k, c)
      BY <1>2, <1>8 DEF JoinChannelWithKey, Joining
    <2>4. \E e2, said2 : Agreed(e2, said2, ans)'
      BY <1>3, <2>1, <2>2, <2>3, AnswerJoinAgrees
    <2> QED
      BY <2>4
  <1>9. ASSUME NEW c \in Channels, LeaveChannel(c) PROVE \E e2, said2, ans2 : Agreed(e2, said2, ans2)'
    <2>1. CASE SetChannelOpen(c, FALSE)
      <3>1. Agreed(e, said, ans)'
        BY <2>1, PanesAgree
      <3> QED
        BY <3>1
    <2>2. CASE ~SetChannelOpen(c, FALSE)
      <3>1. /\ In(c) /\ members' = [members EXCEPT ![c][srvNick] = "out"]
            /\ Tell(<<Line("part", c, srvNick, None)>>)
        BY <1>9, <2>2 DEF LeaveChannel
      <3>2. UNCHANGED <<session, row, roster, request, srvNick, noImplicitNames, inherited, byUser>>
        BY <1>9, <2>2 DEF LeaveChannel, storage, ghosts
      <3> QED
        BY <3>1, <3>2, LeftAgrees
    <2> QED
      BY <2>1, <2>2
  <1>10. ASSUME NEW c \in Channels, ToggleChannelAutoJoin(c) \/ \E open \in BOOLEAN : SetChannelOpen(c, open)
         PROVE  \E e2, said2, ans2 : Agreed(e2, said2, ans2)'
    <2>1. Agreed(e, said, ans)'
      BY <1>10, PanesAgree
    <2> QED
      BY <2>1
  <1> QED
    BY <1>4, <1>5, <1>6, <1>7, <1>8, <1>9, <1>10 DEF UserStep

(* A client that may do something, once its connection is no longer dropped *)
Busy(g) ==
    \/ client[g].queue # <<>> \/ client[g].auto # <<>>
    \/ ~Abandoned(g) /\ (client[g].timer \/ client[g].pass # "armed")

(* While an older client has no line left, only the live one does anything. *)
LEMMA OnlyLive ==
    ASSUME LinkInv, Up, NEW g \in Sessions, Busy(g)
    PROVE  g = session
  <1>1. g \in Nat /\ session \in Nat
    BY ClientFacts
  <1>2. CASE g > session
    BY <1>2 DEF LinkInv, ClientsInv, NewClient, Busy
  <1>3. CASE g < session
    BY <1>3 DEF LinkInv, ClientsInv, Up, Abandoned, Busy
  <1> QED
    BY <1>1, <1>2, <1>3

(* The explicit NAMES of the paced worker *)
LEMMA AutomaticAgrees ==
    ASSUME LinkInv, Up, NEW e, NEW said, NEW ans, Agreed(e, said, ans), AutomaticRequest(session)
    PROVE  \E e2, said2, ans2 : Agreed(e2, said2, ans2)'
  <1>1. /\ session # 0 /\ srvNick \in Nicks /\ srvNick # None /\ srvNick' = srvNick
        /\ members \in [Channels -> Rosters] /\ inherited \subseteq Channels
        /\ session \in Sessions /\ client \in [Sessions -> ClientType]
    BY LiveServer, ClientFacts, NamesAssumption DEF LinkInv, TypeInv, Up, AutomaticRequest, Quiet, server
  <1>2. PICK k : k = client[session]
    OBVIOUS
  <1>3. k \in ClientType /\ k.auto \in Seq(Channels) /\ k.auto # <<>>
    BY <1>1, <1>2 DEF ClientType, AutomaticRequest
  <1>4. PICK c \in Channels : c = Head(k.auto)
    BY <1>3, HeadTailProperties
  <1>5. PICK ls \in Seq(Told) : ls = NamesReply(c, members[c])
    BY <1>1, NamesReplyType, SubsetLines
  <1>6. PICK r : r = [k EXCEPT !.auto = Tail(k.auto), !.queue = k.queue \o ls]
    OBVIOUS
  <1>7. /\ r.queue = k.queue \o ls /\ r.nick = k.nick /\ r.names = k.names /\ r.rejoin = k.rejoin
        /\ r.pass = k.pass /\ r.manual = k.manual /\ r.auto = Tail(k.auto) /\ r.todo = k.todo
    BY <1>3, <1>6 DEF ClientType
  <1>8. client' = [client EXCEPT ![session] = r]
    BY <1>1, <1>2, <1>4, <1>5, <1>6 DEF AutomaticRequest
  <1>9. client'[session] = r
    BY <1>1, <1>8
  <1>10. UNCHANGED <<session, row, roster, request, members, noImplicitNames, inherited, byUser>>
    BY DEF AutomaticRequest, storage, ghosts, Quiet, server
  <1>11. /\ Leads(k.queue, ViewOf(k), e, said, ans) /\ e.nick = srvNick /\ e.names = {}
         /\ RosterComes(k.auto, e, said) /\ ManualComes(k.manual, ans) /\ OpenTold(said)
    BY <1>1, <1>2 DEF Agreed, NickTold, RosterTold, RosterComes, ManualTold
  <1>12. members[c][srvNick] # "out" => c \in e.rows
    BY <1>1, <1>11 DEF RosterComes, In
  <1>13. PICK e2 \in View : Leads(k.queue \o NamesReply(c, members[c]), ViewOf(k), e2, said, ans) /\ NamesHandled(e, c, members[c], e2)
    <2>1. members[c] \in Rosters
      BY <1>1
    <2>2. Leads(k.queue, ViewOf(k), e, said, ans) /\ e.names = {} /\ srvNick \in Nicks
      BY <1>1, <1>11
    <2> QED
      BY <1>12, <2>1, <2>2, NamesTold
  <1>14. Leads(r.queue, ViewOf(k), e2, said, ans)
    BY <1>5, <1>7, <1>13
  <1>15. \A d \in Channels : In(d)' <=> In(d)
    BY <1>1, <1>10 DEF In
  <1>16. \A d \in Channels : d # c /\ Listed(d, k.auto) => Listed(d, r.auto)
    <2> SUFFICES ASSUME NEW d \in Channels, d # c, NEW i \in 1..Len(k.auto), k.auto[i] = d
                 PROVE  Listed(d, r.auto)
      BY DEF Listed
    <2>1. /\ Len(r.auto) = Len(k.auto) - 1 /\ k.auto[1] = c /\ Len(k.auto) \in Nat
          /\ \A j \in 1..(Len(k.auto) - 1) : r.auto[j] = k.auto[j + 1]
      BY <1>3, <1>4, <1>7, HeadTailProperties, LenProperties
    <2>2. i - 1 \in 1..Len(r.auto) /\ i - 1 \in 1..(Len(k.auto) - 1) /\ (i - 1) + 1 = i
      BY <2>1
    <2>3. r.auto[i - 1] = d
      BY <2>1, <2>2
    <2> QED
      BY <2>2, <2>3 DEF Listed
  <1>17. RosterComes(r.auto, e2, said)'
    <2>1. e2.names = {}
      BY <1>13 DEF NamesHandled
    <2>2. ASSUME NEW d \in Channels, In(d)
          PROVE  /\ d \in e2.rows
                 /\ \/ e2.roster[d] = members[d]
                    \/ noImplicitNames /\ (Listed(d, r.auto) \/ said[d] = "in")
      <3>1. CASE d = c
        BY <3>1, <2>2, <1>1, <1>11, <1>13 DEF NamesHandled, In, RosterComes
      <3>2. CASE d # c
        BY <3>2, <2>2, <1>11, <1>13, <1>16 DEF NamesHandled, RosterComes
      <3> QED
        BY <3>1, <3>2
    <2> QED
      BY <2>1, <2>2, <1>10, <1>15 DEF RosterComes
  <1>18. ManualTold(ans)'
    BY <1>1, <1>7, <1>9, <1>10, <1>11 DEF ManualTold, ManualComes
  <1>19. Says(said, said)
    BY <1>11, <1>15 DEF Says, OpenTold
  <1>20. r.todo \subseteq k.todo /\ \A j \in k.todo : j \notin r.todo => said[j.chan] # "nothing" \/ In(j.chan)
    BY <1>7
  <1>21. srvNick' # None /\ e2.nick = srvNick'
    BY <1>1, <1>11, <1>13 DEF NamesHandled
  <1>22. UNCHANGED <<session, row, roster, noImplicitNames, inherited, byUser>>
    BY <1>10
  <1>23. Agreed(e2, said, ans)'
    BY <1>1, <1>2, <1>7, <1>9, <1>14, <1>17, <1>18, <1>19, <1>20, <1>21, <1>22, AgreedTold
  <1> QED
    BY <1>23

(* The auto-join of a connection, and the timer that may begin it *)
LEMMA AutoJoinAgrees ==
    ASSUME LinkInv, RowsInv, Up, NEW e, NEW said, NEW ans, Agreed(e, said, ans),
           AutoJoinTimer(session) \/ DoAutoJoin(session) \/ AutoJoinNext(session)
    PROVE  \E e2, said2, ans2 : Agreed(e2, said2, ans2)'
  <1>1. session \in Sessions /\ client \in [Sessions -> ClientType] /\ inherited \subseteq Channels
    BY ClientFacts DEF Up, LinkInv, TypeInv
  <1>2. PICK k : k = client[session]
    OBVIOUS
  <1>3. k \in ClientType /\ ManualComes(k.manual, ans) /\ OpenTold(said) /\ RejoinTold(said)
    BY <1>1, <1>2 DEF Agreed, ManualTold
  <1>4. CASE AutoJoinTimer(session)
    <2>1. PICK k1 : k1 = [k EXCEPT !.timer = FALSE]
      OBVIOUS
    <2>2. PICK r : r = Triggered(k1)
      OBVIOUS
    <2>3. client' = [client EXCEPT ![session] = r]
      BY <1>1, <1>2, <1>4, <2>1, <2>2 DEF AutoJoinTimer
    <2>4. client'[session] = r
      BY <1>1, <2>3
    <2>5. k1.timer = FALSE /\ k1 \in ClientType
      BY <1>3, <2>1 DEF ClientType
    <2>6. /\ k1.queue = k.queue /\ k1.nick = k.nick /\ k1.names = k.names /\ k1.auto = k.auto
          /\ k1.todo = k.todo /\ k1.rejoin = k.rejoin /\ k1.pass = k.pass /\ k1.manual = k.manual
      BY <1>3, <2>1 DEF ClientType
    <2>7. /\ r.queue = k1.queue /\ r.nick = k1.nick /\ r.names = k1.names /\ r.auto = k1.auto
          /\ r.todo = k1.todo /\ r.rejoin = k1.rejoin /\ r.pass \in {k1.pass, "go"} /\ r.manual = k1.manual
      BY <2>2, <2>5 DEF ClientType, Triggered
    <2>8. /\ r.queue = k.queue /\ r.nick = k.nick /\ r.names = k.names /\ r.auto = k.auto
          /\ r.todo = k.todo /\ r.rejoin = k.rejoin /\ r.pass \in {k.pass, "go"} /\ r.manual = k.manual
      BY <2>6, <2>7
    <2>9. UNCHANGED <<session, row, roster, srvNick, members, noImplicitNames, inherited, byUser>>
      BY <1>4 DEF AutoJoinTimer, storage, ghosts, Quiet, server
    <2>10. ManualTold(ans)'
      BY <1>3, <1>4, <2>4, <2>8, <2>9 DEF ManualTold, ManualComes, AutoJoinTimer, Quiet
    <2>11. Agreed(e, said, ans)'
      BY <1>2, <2>4, <2>8, <2>9, <2>10, BooksAgree
    <2> QED
      BY <2>11
  <1>5. ASSUME NEW r, client'[session] = r,
               r.queue = k.queue, r.nick = k.nick, r.names = k.names, r.auto = k.auto, r.manual = k.manual,
               r.rejoin = k.rejoin, r.pass = "done" => r.todo = {},
               \A c \in inherited : row[c].open /\ r.rejoin =>
                  (\E j \in r.todo : j.chan = c) \/ said[c] # "nothing",
               UNCHANGED <<session, row, roster, request, srvNick, members, noImplicitNames, inherited, byUser>>
        PROVE  \E e2, said2, ans2 : Agreed(e2, said2, ans2)'
    <2>1. Rows' = Rows
      BY <1>5 DEF Rows
    <2>2. \A d \in Channels : In(d)' <=> In(d)
      BY <1>5 DEF In
    <2>3. ManualTold(ans)'
      BY <1>3, <1>5 DEF ManualTold, ManualComes
    <2>4. OpenTold(said)'
      BY <1>3, <1>5, <2>2 DEF OpenTold
    <2>5. RejoinTold(said)'
      BY <1>1, <1>3, <1>5, <2>2 DEF RejoinTold
    <2>6. UNCHANGED <<session, roster, srvNick, members, noImplicitNames>>
      BY <1>5
    <2>7. Agreed(e, said, ans)'
      BY <1>2, <1>5, <2>1, <2>3, <2>4, <2>5, <2>6, AgreedKept
    <2> QED
      BY <2>7
  <1>6. CASE DoAutoJoin(session)
    <2>1. PICK r : r = [k EXCEPT !.pass = "send", !.todo = ChannelsToJoin(k.rejoin)]
      OBVIOUS
    <2>2. client' = [client EXCEPT ![session] = r]
      BY <1>1, <1>2, <1>6, <2>1 DEF DoAutoJoin
    <2>3. client'[session] = r
      BY <1>1, <2>2
    <2>4. /\ r.queue = k.queue /\ r.nick = k.nick /\ r.names = k.names /\ r.auto = k.auto
          /\ r.todo = ChannelsToJoin(k.rejoin) /\ r.rejoin = k.rejoin /\ r.pass = "send" /\ r.manual = k.manual
      BY <1>3, <2>1 DEF ClientType
    <2>5. UNCHANGED <<session, row, roster, request, srvNick, members, noImplicitNames, inherited, byUser>>
      BY <1>6 DEF DoAutoJoin, storage, ghosts, Quiet, server
    <2>6. ASSUME NEW c \in inherited, row[c].open, r.rejoin PROVE \E j \in r.todo : j.chan = c
      <3>1. c \in Rows
        BY <1>1, <2>6 DEF RowsInv, Rows
      <3>2. [chan |-> c, key |-> row[c].key] \in r.todo
        BY <2>4, <2>6, <3>1 DEF ChannelsToJoin
      <3> QED
        BY <3>2
    <2> QED
      BY <1>5, <2>3, <2>4, <2>5, <2>6
  <1>7. CASE AutoJoinNext(session)
    <2>1. UNCHANGED <<session, row, roster, request, srvNick, noImplicitNames, inherited, byUser>>
      BY <1>7 DEF AutoJoinNext, storage, ghosts
    <2>2. k.pass = "send"
      BY <1>2, <1>7 DEF AutoJoinNext
    <2>3. CASE k.todo = {} /\ client' = [client EXCEPT ![session].pass = "done"] /\ UNCHANGED members
      <3>1. PICK r : r = [k EXCEPT !.pass = "done"]
        OBVIOUS
      <3>2. client'[session] = r
        BY <1>1, <1>2, <2>3, <3>1
      <3>3. /\ r.queue = k.queue /\ r.nick = k.nick /\ r.names = k.names /\ r.auto = k.auto
            /\ r.todo = {} /\ r.rejoin = k.rejoin /\ r.manual = k.manual
        BY <1>3, <2>3, <3>1 DEF ClientType
      <3>4. \A c \in inherited : row[c].open /\ r.rejoin => said[c] # "nothing"
        BY <1>2, <1>3, <2>2, <2>3, <3>3 DEF RejoinTold
      <3>5. UNCHANGED <<session, row, roster, request, srvNick, members, noImplicitNames, inherited, byUser>>
        BY <2>1, <2>3
      <3> QED
        BY <1>5, <3>2, <3>3, <3>4, <3>5
    <2>4. ASSUME NEW j \in k.todo, srvReady, AnswerJoin(session, [k EXCEPT !.todo = @ \ {j}], j.chan, j.key)
          PROVE  \E e2, said2, ans2 : Agreed(e2, said2, ans2)'
      <3>1. PICK c \in Channels : c = j.chan
        BY <1>3 DEF ClientType
      <3>2. PICK key : key = j.key
        OBVIOUS
      <3>3. PICK r : r = [k EXCEPT !.todo = @ \ {j}]
        OBVIOUS
      <3>4. r \in ClientType /\ Joining(r, c)
        <4>1. k.todo \ {j} \subseteq [chan : Channels, key : Keys]
          BY <1>3 DEF ClientType
        <4>2. r \in ClientType
          BY <1>3, <3>3, <4>1 DEF ClientType
        <4>3. /\ r.queue = k.queue /\ r.nick = k.nick /\ r.names = k.names /\ r.auto = k.auto
              /\ r.todo = k.todo \ {j} /\ r.rejoin = k.rejoin /\ r.pass = k.pass /\ r.manual = k.manual
          BY <1>3, <3>3 DEF ClientType
        <4> QED
          BY <1>2, <3>1, <4>2, <4>3 DEF Joining
      <3>5. AnswerJoin(session, r, c, key)
        BY <2>4, <3>1, <3>2, <3>3
      <3>6. AsksToJoin
        BY <2>1 DEF AsksToJoin
      <3>7. UNCHANGED <<session, row, roster, srvNick, noImplicitNames, inherited, byUser>>
        BY <2>1
      <3>8. \E e2, said2 : Agreed(e2, said2, ans)'
        BY <2>4, <3>4, <3>5, <3>6, <3>7, AnswerJoinAgrees
      <3> QED
        BY <3>8
    <2> QED
      BY <1>2, <1>7, <2>3, <2>4 DEF AutoJoinNext
  <1> QED
    BY <1>4, <1>6, <1>7

(* So do the auto-join and the paced requests. *)
LEMMA WorkersAgree ==
    ASSUME LinkInv, RowsInv, Up, NEW e, NEW said, NEW ans, Agreed(e, said, ans), NEW g \in Sessions,
           AutoJoinTimer(g) \/ DoAutoJoin(g) \/ AutoJoinNext(g) \/ AutomaticRequest(g)
    PROVE  \E e2, said2, ans2 : Agreed(e2, said2, ans2)'
  <1>1. Busy(g)
    <2>1. CASE AutoJoinTimer(g)
      BY <2>1 DEF AutoJoinTimer, Busy
    <2>2. CASE DoAutoJoin(g) \/ AutoJoinNext(g)
      BY <2>2 DEF DoAutoJoin, AutoJoinNext, Busy
    <2>3. CASE AutomaticRequest(g)
      BY <2>3 DEF AutomaticRequest, Busy
    <2> QED
      BY <2>1, <2>2, <2>3
  <1>2. g = session
    BY <1>1, OnlyLive
  <1> QED
    BY <1>2, AutomaticAgrees, AutoJoinAgrees

(* A line that says nothing of our channels leaves their flags alone. *)
LEMMA SilenceSettles ==
    ASSUME LinkInv, NEW v, NEW m, Silence(v, m),
           \A c \in Channels : row'[c].open = row[c].open, UNCHANGED <<inherited, byUser>>
    PROVE  Settles(v, m)
  BY DEF LinkInv, TypeInv, Silence, Settles

(* A line about us closes a channel. *)
LEMMA OutSettles ==
    ASSUME LinkInv, NEW v, NEW m, NEW c \in Channels, SaidBy(v, m, c) = "out",
           \A d \in Channels : d # c => SaidBy(v, m, d) = "nothing",
           UpdateChannelIsOpen(c, FALSE), Settle(c)
    PROVE  Settles(v, m) /\ Rows' = Rows
  <1>1. row \in [Channels -> RowType] /\ inherited \subseteq Channels
    BY DEF LinkInv, TypeInv
  <1>2. row' = [row EXCEPT ![c].open = FALSE]
    BY DEF UpdateChannelIsOpen
  <1>3. /\ row'[c].open = FALSE /\ row'[c].exists = row[c].exists
        /\ \A d \in Channels : d # c => row'[d] = row[d]
    BY <1>1, <1>2 DEF RowType
  <1>4. Rows' = Rows
    BY <1>3 DEF Rows
  <1>5. inherited' = inherited \ {c} /\ byUser' = byUser \ {c}
    BY DEF Settle
  <1>6. Settles(v, m)
    BY <1>1, <1>3, <1>5 DEF Settles
  <1> QED
    BY <1>4, <1>6

(* Two rosters that agree on every nick are one. *)
LEMMA SameRoster ==
    ASSUME NEW f, NEW g, f = [n \in Nicks |-> f[n]], g = [n \in Nicks |-> g[n]], \A n \in Nicks : f[n] = g[n]
    PROVE  g = f
  OBVIOUS

(* The live client handles a line that the server told it. *)
LEMMA HandleAgrees ==
    ASSUME LinkInv, Up, NEW e, NEW said, NEW ans, Agreed(e, said, ans), Handle(session)
    PROVE  \E e2, said2, ans2 : Agreed(e2, said2, ans2)'
  <1>1. client[session].queue # <<>> /\ session # 0
    BY DEF Handle, Handles, HandleWelcome, HandleEndOfMotd, OnConnect, FinishDisconnect, HandleJoin,
           HandlePart, HandleKick, HandleQuit, HandleMode, HandleNick, HandleNickInUse, HandleNames,
           HandleEndOfNames, HandleJoinError, Up
  <1>2. session \in Sessions /\ client \in [Sessions -> ClientType] /\ ~Abandoned(session)
    BY <1>1, ClientFacts DEF Up, Abandoned
  <1>3. PICK k : k = client[session]
    OBVIOUS
  <1>4. PICK m \in Told : m = Message(session) /\ m = Head(k.queue)
    <2>1. k.queue \in Seq(Told) /\ k.queue # <<>>
      BY <1>1, <1>3 DEF Agreed, Leads
    <2> QED
      BY <2>1, <1>3, HeadTailProperties DEF Message
  <1>5. PICK h \in ClientType : h = Handled(session)
    BY <1>1, <1>2, HandledFits
  <1>6. /\ h.queue = Tail(k.queue) /\ h.nick = k.nick /\ h.names = k.names /\ h.rejoin = k.rejoin
        /\ h.todo = k.todo /\ h.pass = k.pass /\ h.manual = k.manual /\ h.auto = k.auto /\ h.keys = k.keys
    BY <1>1, <1>2, <1>3, <1>5, HandledFits
  <1>7. PICK v : v = ViewOf(k)
    OBVIOUS
  <1>8. v.nick = k.nick /\ v.names = k.names /\ v.rows = Rows /\ v.roster = roster
    BY <1>7 DEF ViewOf
  <1>9. /\ m.kind \in {"join", "part", "kick", "mode", "353", "366", "refused"} => m.chan \in Channels
        /\ m.kind \in {"001", "433", "join", "part", "kick", "quit", "nick", "mode"} => m.nick \in Nicks
        /\ m.kind # "disconnected"
    BY DEF LineType, Told
  <1>10. ASSUME NEW r, Becomes(v, m, k, r), Stored(v, m), Settles(v, m), Quiet
         PROVE  \E e2, said2, ans2 : Agreed(e2, said2, ans2)'
    <2>1. \E said2, ans2 : Agreed(e, said2, ans2)'
      BY <1>1, <1>3, <1>4, <1>7, <1>10, AgreedHandled
    <2> QED
      BY <2>1
  <1>11. ASSUME NEW r \in ClientType, client' = [client EXCEPT ![session] = r] PROVE client'[session] = r
    BY <1>2, <1>11
  <1>12. /\ row \in [Channels -> RowType] /\ roster \in [Channels -> Rosters]
         /\ inherited \subseteq Channels
    BY DEF LinkInv, TypeInv
  <1>13. ASSUME row' = row PROVE Rows' = Rows /\ \A c \in Channels : row'[c].open = row[c].open
    BY <1>13 DEF Rows
  <1>14. \A n : IsMe(session, n) <=> Ours(v, n)
    BY <1>3, <1>8 DEF IsMe, CurrentNick, Ours
  <1>21. CASE HandleWelcome(session)
    <2>1. m.kind = "001" /\ Quiet
      BY <1>4, <1>21 DEF HandleWelcome, Handles
    <2>2. PICK r : r = [h EXCEPT !.nick = m.nick, !.timer = TRUE]
      OBVIOUS
    <2>3. /\ r.queue = h.queue /\ r.nick = m.nick /\ r.names = h.names /\ r.rejoin = h.rejoin
          /\ r.todo = h.todo /\ r.pass = h.pass /\ r.manual = h.manual /\ r.auto = h.auto
      BY <2>2 DEF ClientType
    <2>4. client'[session] = r
      BY <1>2, <1>4, <1>5, <1>21, <2>2 DEF HandleWelcome
    <2>5. UNCHANGED <<row, roster, inherited, byUser>>
      BY <1>21 DEF HandleWelcome, storage, ghosts
    <2>6. Silence(v, m)
      BY <2>1 DEF Silence, SaidBy
    <2>7. Becomes(v, m, k, r)
      BY <1>6, <1>8, <2>1, <2>3, <2>4, <2>6 DEF Becomes, Silence, AnsweredBy, NickAfter, NamesAfter
    <2>8. Stored(v, m)
      BY <1>8, <1>13, <2>1, <2>5 DEF Stored, RowsAfter, RosterAfter
    <2>9. Settles(v, m)
      BY <1>13, <2>5, <2>6, SilenceSettles
    <2> QED
      BY <1>10, <2>1, <2>7, <2>8, <2>9
  <1>22. CASE HandleEndOfMotd(session)
    <2>1. m.kind = "376" /\ Quiet
      BY <1>4, <1>22 DEF HandleEndOfMotd, Handles
    <2>2. PICK r : r = Triggered(h)
      OBVIOUS
    <2>3. /\ r.queue = h.queue /\ r.nick = h.nick /\ r.names = h.names /\ r.rejoin = h.rejoin
          /\ r.todo = h.todo /\ r.pass \in {h.pass, "go"} /\ r.manual = h.manual /\ r.auto = h.auto
      BY <2>2 DEF ClientType, Triggered
    <2>4. client'[session] = r
      BY <1>2, <1>5, <1>22, <2>2 DEF HandleEndOfMotd
    <2>5. UNCHANGED <<row, roster, inherited, byUser>>
      BY <1>22 DEF HandleEndOfMotd, storage, ghosts
    <2>6. Silence(v, m)
      BY <2>1 DEF Silence, SaidBy
    <2>7. Becomes(v, m, k, r)
      BY <1>6, <1>8, <2>1, <2>3, <2>4, <2>6 DEF Becomes, Silence, AnsweredBy, NickAfter, NamesAfter
    <2>8. Stored(v, m)
      BY <1>8, <1>13, <2>1, <2>5 DEF Stored, RowsAfter, RosterAfter
    <2>9. Settles(v, m)
      BY <1>13, <2>5, <2>6, SilenceSettles
    <2> QED
      BY <1>10, <2>1, <2>7, <2>8, <2>9
  <1>23. CASE OnConnect(session)
    <2>1. m.kind = "connected" /\ Quiet
      BY <1>4, <1>23 DEF OnConnect, Handles
    <2>2. PICK r : r = [h EXCEPT !.phase = "on"]
      OBVIOUS
    <2>3. /\ r.queue = h.queue /\ r.nick = h.nick /\ r.names = h.names /\ r.rejoin = h.rejoin
          /\ r.todo = h.todo /\ r.pass = h.pass /\ r.manual = h.manual /\ r.auto = h.auto
      BY <2>2 DEF ClientType
    <2>4. client'[session] = r
      BY <1>2, <1>5, <1>23, <2>2 DEF OnConnect
    <2>5. UNCHANGED <<row, inherited, byUser>> /\ roster' = [c \in Channels |-> Nobody]
      BY <1>2, <1>23 DEF OnConnect, ghosts, ClearNetworkChannelUsers
    <2>6. Silence(v, m)
      BY <2>1 DEF Silence, SaidBy
    <2>7. Becomes(v, m, k, r)
      BY <1>6, <1>8, <2>1, <2>3, <2>4, <2>6 DEF Becomes, Silence, AnsweredBy, NickAfter, NamesAfter
    <2>8. Stored(v, m)
      BY <1>8, <1>13, <2>1, <2>5 DEF Stored, RowsAfter, RosterAfter
    <2>9. Settles(v, m)
      BY <1>13, <2>5, <2>6, SilenceSettles
    <2> QED
      BY <1>10, <2>1, <2>7, <2>8, <2>9
  <1>24. CASE FinishDisconnect(session)
    BY <1>4, <1>9, <1>24 DEF FinishDisconnect, Handles
  <1>25. ASSUME client' = [client EXCEPT ![session] = h], m.kind \in {"part", "kick", "quit", "mode", "refused"}
         PROVE  Becomes(v, m, k, h)
    <2>1. client'[session] = h
      BY <1>11, <1>25
    <2>2. \A c \in Channels : SaidBy(v, m, c) # "in"
      BY <1>25 DEF SaidBy
    <2> QED
      BY <1>6, <1>8, <1>25, <2>1, <2>2 DEF Becomes, AnsweredBy, NickAfter, NamesAfter
  <1>26. CASE HandleQuit(session)
    <2>1. m.kind = "quit" /\ Quiet /\ client' = [client EXCEPT ![session] = h]
      BY <1>4, <1>5, <1>26 DEF HandleQuit, Handles
    <2>2. /\ UNCHANGED <<row, inherited, byUser>>
          /\ roster' = [c \in Channels |-> [roster[c] EXCEPT ![m.nick] = "out"]]
      BY <1>4, <1>26 DEF HandleQuit, ghosts
    <2>3. Silence(v, m)
      BY <2>1 DEF Silence, SaidBy
    <2>4. Stored(v, m)
      BY <1>8, <1>13, <2>1, <2>2 DEF Stored, RowsAfter, RosterAfter
    <2>5. Settles(v, m)
      BY <1>13, <2>2, <2>3, SilenceSettles
    <2> QED
      BY <1>10, <1>25, <2>1, <2>4, <2>5
  <1>27. CASE HandleMode(session)
    <2>1. m.kind = "mode" /\ Quiet /\ client' = [client EXCEPT ![session] = h]
      BY <1>4, <1>5, <1>27 DEF HandleMode, Handles
    <2>2. /\ UNCHANGED <<row, inherited, byUser>>
          /\ roster' = IF roster[m.chan][m.nick] = "out" THEN roster
                       ELSE [roster EXCEPT ![m.chan][m.nick] = m.arg]
      BY <1>4, <1>27 DEF HandleMode, ghosts
    <2>3. Silence(v, m)
      BY <2>1 DEF Silence, SaidBy
    <2>4. Stored(v, m)
      BY <1>8, <1>13, <2>1, <2>2 DEF Stored, RowsAfter, RosterAfter
    <2>5. Settles(v, m)
      BY <1>13, <2>2, <2>3, SilenceSettles
    <2> QED
      BY <1>10, <1>25, <2>1, <2>4, <2>5
  <1>28. CASE HandlePart(session) \/ HandleKick(session)
    <2>1. m.kind \in {"part", "kick"} /\ Quiet /\ client' = [client EXCEPT ![session] = h]
      BY <1>4, <1>5, <1>28 DEF HandlePart, HandleKick, Handles
    <2>2. PICK c \in Channels : c = m.chan
      BY <1>9, <2>1
    <2>3. roster' = IF c \in Rows THEN [roster EXCEPT ![c][m.nick] = "out"] ELSE roster
      BY <1>4, <1>28, <2>2 DEF HandlePart, HandleKick, RemoveChannelUser
    <2>4. CASE Ours(v, m.nick)
      <3>1. UpdateChannelIsOpen(c, FALSE) /\ Settle(c)
        BY <1>4, <1>14, <1>28, <2>2, <2>4 DEF HandlePart, HandleKick
      <3>2. SaidBy(v, m, c) = "out" /\ \A d \in Channels : d # c => SaidBy(v, m, d) = "nothing"
        BY <2>1, <2>2, <2>4 DEF SaidBy
      <3>3. Settles(v, m) /\ Rows' = Rows
        BY <3>1, <3>2, OutSettles
      <3>4. Stored(v, m)
        BY <1>8, <2>1, <2>2, <2>3, <3>3 DEF Stored, RowsAfter, RosterAfter
      <3> QED
        BY <1>10, <1>25, <2>1, <3>3, <3>4
    <2>5. CASE ~Ours(v, m.nick)
      <3>1. UNCHANGED <<row, inherited, byUser>>
        BY <1>4, <1>14, <1>28, <2>5 DEF HandlePart, HandleKick, ghosts
      <3>2. Silence(v, m)
        BY <2>1, <2>5 DEF SaidBy, Silence
      <3>3. Settles(v, m)
        BY <1>13, <3>1, <3>2, SilenceSettles
      <3>4. Stored(v, m)
        BY <1>8, <1>13, <2>1, <2>2, <2>3, <3>1 DEF Stored, RowsAfter, RosterAfter
      <3> QED
        BY <1>10, <1>25, <2>1, <3>3, <3>4
    <2> QED
      BY <2>4, <2>5
  <1>29. CASE HandleJoinError(session)
    <2>1. m.kind = "refused" /\ Quiet /\ client' = [client EXCEPT ![session] = h] /\ roster' = roster
      BY <1>4, <1>5, <1>29 DEF HandleJoinError, Handles
    <2>2. PICK c \in Channels : c = m.chan
      BY <1>9, <2>1
    <2>3. UpdateChannelIsOpen(c, FALSE) /\ Settle(c)
      BY <1>4, <1>29, <2>2 DEF HandleJoinError
    <2>4. SaidBy(v, m, c) = "out" /\ \A d \in Channels : d # c => SaidBy(v, m, d) = "nothing"
      BY <2>1, <2>2 DEF SaidBy
    <2>5. Settles(v, m) /\ Rows' = Rows
      BY <2>3, <2>4, OutSettles
    <2>6. Stored(v, m)
      BY <1>8, <2>1, <2>5 DEF Stored, RowsAfter, RosterAfter
    <2> QED
      BY <1>10, <1>25, <2>1, <2>5, <2>6
  <1>30. CASE HandleNick(session)
    <2>1. m.kind = "nick" /\ Quiet
      BY <1>4, <1>30 DEF HandleNick, Handles
    <2>2. PICK r : r = IF m.nick # h.nick THEN h ELSE [h EXCEPT !.nick = m.arg, !.manual = None]
      OBVIOUS
    <2>3. client'[session] = r
      BY <1>2, <1>4, <1>5, <1>30, <2>2 DEF HandleNick
    <2>4. /\ r.queue = h.queue /\ r.nick = (IF m.nick = h.nick THEN m.arg ELSE h.nick) /\ r.names = h.names
          /\ r.rejoin = h.rejoin /\ r.todo = h.todo /\ r.pass = h.pass
          /\ r.manual = (IF m.nick = h.nick THEN None ELSE h.manual) /\ r.auto = h.auto
      BY <2>2 DEF ClientType
    <2>5. UNCHANGED <<row, inherited, byUser>> /\ UpdateChannelUserNickname(m.nick, m.arg)
      BY <1>4, <1>30 DEF HandleNick, ghosts
    <2>6. Silence(v, m)
      BY <2>1 DEF Silence, SaidBy
    <2>7. Becomes(v, m, k, r)
      BY <1>6, <1>8, <2>1, <2>3, <2>4, <2>6 DEF Becomes, Silence, AnsweredBy, NickAfter, NamesAfter
    <2>8. Stored(v, m)
      BY <1>8, <1>13, <2>1, <2>5 DEF Stored, RowsAfter, RosterAfter, UpdateChannelUserNickname
    <2>9. Settles(v, m)
      BY <1>13, <2>5, <2>6, SilenceSettles
    <2> QED
      BY <1>10, <2>1, <2>7, <2>8, <2>9
  <1>31. CASE HandleNickInUse(session)
    <2>1. m.kind = "433" /\ Quiet
      BY <1>4, <1>31 DEF HandleNickInUse, Handles
    <2>2. PICK r : r = IF h.manual = m.nick THEN [h EXCEPT !.manual = None] ELSE h
      OBVIOUS
    <2>3. client'[session] = r
      BY <1>2, <1>4, <1>5, <1>31, <2>2 DEF HandleNickInUse
    <2>4. /\ r.queue = h.queue /\ r.nick = h.nick /\ r.names = h.names
          /\ r.rejoin = h.rejoin /\ r.todo = h.todo /\ r.pass = h.pass
          /\ r.manual = (IF h.manual = m.nick THEN None ELSE h.manual) /\ r.auto = h.auto
      BY <2>2 DEF ClientType
    <2>5. UNCHANGED <<row, roster, inherited, byUser>>
      BY <1>31 DEF HandleNickInUse, storage, ghosts
    <2>6. Silence(v, m)
      BY <2>1 DEF Silence, SaidBy
    <2>7. Becomes(v, m, k, r)
      BY <1>6, <1>8, <2>1, <2>3, <2>4, <2>6 DEF Becomes, Silence, AnsweredBy, NickAfter, NamesAfter
    <2>8. Stored(v, m)
      BY <1>8, <1>13, <2>1, <2>5 DEF Stored, RowsAfter, RosterAfter
    <2>9. Settles(v, m)
      BY <1>13, <2>5, <2>6, SilenceSettles
    <2> QED
      BY <1>10, <2>1, <2>7, <2>8, <2>9
  <1>32. CASE HandleNames(session)
    <2>1. m.kind = "353" /\ Quiet
      BY <1>4, <1>32 DEF HandleNames, Handles
    <2>2. PICK r : r = IF m.chan \in Rows THEN [h EXCEPT !.names = @ \union {m.chan}] ELSE h
      OBVIOUS
    <2>3. client'[session] = r
      BY <1>2, <1>4, <1>5, <1>32, <2>2 DEF HandleNames
    <2>4. /\ r.queue = h.queue /\ r.nick = h.nick
          /\ r.names = (IF m.chan \in Rows THEN h.names \union {m.chan} ELSE h.names)
          /\ r.rejoin = h.rejoin /\ r.todo = h.todo /\ r.pass = h.pass
          /\ r.manual = h.manual /\ r.auto = h.auto
      BY <2>2 DEF ClientType
    <2>5. UNCHANGED <<row, inherited, byUser>>
      BY <1>32 DEF HandleNames, ghosts
    <2>6. Silence(v, m)
      BY <2>1 DEF Silence, SaidBy
    <2>7. Becomes(v, m, k, r)
      BY <1>6, <1>8, <2>1, <2>3, <2>4, <2>6 DEF Becomes, Silence, AnsweredBy, NickAfter, NamesAfter
    <2>8. roster' = RosterAfter(v, m)
      <3>1. CASE m.chan \notin Rows
        BY <1>4, <1>8, <1>32, <2>1, <3>1 DEF HandleNames, RosterAfter
      <3>2. CASE m.chan \in Rows
        <4>1. PICK new, c : /\ c = m.chan
                            /\ new = [n \in Nicks |-> IF m.arg[n] # "out" THEN m.arg[n]
                                      ELSE IF c \in v.names THEN roster[c][n] ELSE "out"]
          OBVIOUS
        <4>2. PICK before : before = IF c \in client[session].names THEN roster[c] ELSE Nobody
          OBVIOUS
        <4>3. PICK told : told = [n \in Nicks |-> IF m.arg[n] = "out" THEN before[n] ELSE m.arg[n]]
          OBVIOUS
        <4>4. roster' = [roster EXCEPT ![c] = told]
          BY <1>4, <1>32, <3>2, <4>1, <4>2, <4>3 DEF HandleNames
        <4>5. told = new
          <5>1. v.names = client[session].names
            BY <1>3, <1>8
          <5>2. ASSUME NEW n \in Nicks
                PROVE  (IF c \in v.names THEN roster[c][n] ELSE "out") = before[n]
            BY <4>2, <5>1 DEF Nobody
          <5>3. \A n \in Nicks : new[n] = told[n]
            BY <4>1, <4>3, <5>2
          <5>4. new = [n \in Nicks |-> new[n]] /\ told = [n \in Nicks |-> told[n]]
            BY <4>1, <4>3
          <5> QED
            BY <5>3, <5>4, SameRoster
        <4> QED
          BY <1>8, <2>1, <3>2, <4>1, <4>4, <4>5 DEF RosterAfter
      <3> QED
        BY <3>1, <3>2
    <2>9. Stored(v, m)
      BY <1>8, <1>13, <2>1, <2>5, <2>8 DEF Stored, RowsAfter
    <2>10. Settles(v, m)
      BY <1>13, <2>5, <2>6, SilenceSettles
    <2> QED
      BY <1>10, <2>1, <2>7, <2>9, <2>10
  <1>33. CASE HandleEndOfNames(session)
    <2>1. m.kind = "366" /\ Quiet
      BY <1>4, <1>33 DEF HandleEndOfNames, Handles
    <2>2. PICK r : r = [h EXCEPT !.names = @ \ {m.chan}]
      OBVIOUS
    <2>3. client'[session] = r
      BY <1>2, <1>4, <1>5, <1>33, <2>2 DEF HandleEndOfNames
    <2>4. /\ r.queue = h.queue /\ r.nick = h.nick /\ r.names = h.names \ {m.chan}
          /\ r.rejoin = h.rejoin /\ r.todo = h.todo /\ r.pass = h.pass
          /\ r.manual = h.manual /\ r.auto = h.auto
      BY <2>2 DEF ClientType
    <2>5. UNCHANGED <<row, roster, inherited, byUser>>
      BY <1>33 DEF HandleEndOfNames, storage, ghosts
    <2>6. Silence(v, m)
      BY <2>1 DEF Silence, SaidBy
    <2>7. Becomes(v, m, k, r)
      BY <1>6, <1>8, <2>1, <2>3, <2>4, <2>6 DEF Becomes, Silence, AnsweredBy, NickAfter, NamesAfter
    <2>8. Stored(v, m)
      BY <1>8, <1>13, <2>1, <2>5 DEF Stored, RowsAfter, RosterAfter
    <2>9. Settles(v, m)
      BY <1>13, <2>5, <2>6, SilenceSettles
    <2> QED
      BY <1>10, <2>1, <2>7, <2>8, <2>9
  <1>34. CASE HandleJoin(session)
    <2>1. m.kind = "join" /\ Quiet
      BY <1>4, <1>34 DEF HandleJoin, Handles
    <2>2. PICK c \in Channels : c = m.chan
      BY <1>9, <2>1
    <2>3. PICK me \in BOOLEAN : me = Ours(v, m.nick)
      BY DEF Ours
    <2>4. PICK keys, auto :
             /\ keys = [h.keys EXCEPT ![c] = IF me THEN Nothing ELSE h.keys[c]]
             /\ auto = IF me /\ noImplicitNames THEN Append(h.auto, c) ELSE h.auto
      OBVIOUS
    <2>5. PICK r : r = [h EXCEPT !.keys = keys, !.auto = auto]
      OBVIOUS
    <2>6. client'[session] = r
      BY <1>2, <1>4, <1>5, <1>14, <1>34, <2>2, <2>3, <2>4, <2>5, Zenon DEF HandleJoin
    <2>7. /\ r.queue = h.queue /\ r.nick = h.nick /\ r.names = h.names /\ r.auto = auto
          /\ r.rejoin = h.rejoin /\ r.todo = h.todo /\ r.pass = h.pass /\ r.manual = h.manual
      <3>1. JoinedFields(h, r, auto)
        BY <2>5, JoinedClient
      <3> QED
        BY <3>1 DEF JoinedFields
    <2>8. roster' = [roster EXCEPT ![c][m.nick] = "plain"]
      BY <1>4, <1>34, <2>2, Zenon DEF HandleJoin
    <2>9. PICK open, key :
             /\ open = (row[c].open \/ me)
             /\ row' = [row EXCEPT ![c].exists = TRUE, ![c].open = open, ![c].key = key]
      <3>1. PICK key : key = IF me /\ client[session].keys[c] # Nothing THEN client[session].keys[c] ELSE row[c].key
        OBVIOUS
      <3>2. row' = [row EXCEPT ![c].exists = TRUE, ![c].open = row[c].open \/ me, ![c].key = key]
        BY <1>4, <1>12, <1>14, <1>34, <2>2, <2>3, <3>1, Zenon DEF HandleJoin, RowType
      <3> QED
        BY <3>2
    <2>10. /\ row'[c].exists = TRUE /\ row'[c].open = open
           /\ \A d \in Channels : d # c => row'[d] = row[d]
      BY <1>12, <2>9 DEF RowType
    <2>11. Rows' = Rows \union {c}
      BY <2>10 DEF Rows
    <2>12. Stored(v, m)
      BY <1>8, <2>1, <2>2, <2>8, <2>11 DEF Stored, RowsAfter, RosterAfter
    <2>13. \A d \in Channels : SaidBy(v, m, d) = IF me /\ d = c THEN "in" ELSE "nothing"
      BY <2>1, <2>2, <2>3 DEF SaidBy
    <2>14. Settles(v, m)
      <3>1. CASE me
        <4>1. inherited' = inherited \ {c} /\ byUser' = byUser \ {c}
          BY <1>4, <1>14, <1>34, <2>2, <2>3, <3>1 DEF HandleJoin, Settle
        <4>2. \A d \in Channels : d # c => (d \in inherited' <=> d \in inherited) /\ (d \in byUser' <=> d \in byUser)
          BY <4>1
        <4>3. row'[c].open = TRUE /\ c \notin inherited' /\ inherited' \subseteq Channels
          BY <1>12, <2>9, <2>10, <3>1, <4>1
        <4>4. SaidBy(v, m, c) = "in" /\ \A d \in Channels : d # c => SaidBy(v, m, d) = "nothing"
          BY <2>13, <3>1
        <4> HIDE <4>1
        <4> QED
          BY <2>10, <4>2, <4>3, <4>4 DEF Settles
      <3>2. CASE ~me
        <4>1. UNCHANGED <<inherited, byUser>>
          BY <1>4, <1>14, <1>34, <2>3, <3>2 DEF HandleJoin, ghosts
        <4>2. row'[c].open = row[c].open
          BY <1>12, <2>9, <2>10, <3>2 DEF RowType
        <4> QED
          <5>1. \A d \in Channels : SaidBy(v, m, d) = "nothing" /\ row'[d].open = row[d].open
            BY <2>10, <2>13, <3>2, <4>2
          <5>2. inherited' \subseteq Channels
            BY <1>12, <4>1
          <5> QED
            BY <4>1, <5>1, <5>2 DEF Settles
      <3> QED
        BY <3>1, <3>2
    <2>15. \A d \in Channels : Listed(d, k.auto) \/ (me /\ noImplicitNames /\ d = c) => Listed(d, auto)
      <3>1. h.auto \in Seq(Channels) /\ h.auto = k.auto
        BY <1>6 DEF ClientType
      <3>2. auto = h.auto \/ (auto = Append(h.auto, c) /\ me /\ noImplicitNames)
        BY <2>4
      <3>3. me /\ noImplicitNames => auto = Append(h.auto, c)
        BY <2>4
      <3>4. \A d \in Channels : Listed(d, h.auto) => Listed(d, Append(h.auto, c))
        BY <3>1, AppendProperties DEF Listed
      <3>5. Listed(c, Append(h.auto, c))
        BY <3>1, AppendProperties DEF Listed
      <3> QED
        BY <3>1, <3>2, <3>3, <3>4, <3>5
    <2>16. Becomes(v, m, k, r)
      <3>1. NickAfter(v, m) = k.nick /\ NamesAfter(v, m) = k.names /\ ~AnsweredBy(v, m, k.manual)
        BY <1>8, <2>1 DEF AnsweredBy, NickAfter, NamesAfter
      <3>2. \A d \in Channels : noImplicitNames /\ SaidBy(v, m, d) = "in" => Listed(d, auto)
        BY <2>13, <2>15
      <3>3. \A d \in Channels : Listed(d, k.auto) => Listed(d, auto)
        BY <2>15
      <3> QED
        BY <1>6, <2>6, <2>7, <3>1, <3>2, <3>3, Zenon DEF Becomes
    <2> QED
      BY <1>10, <2>1, <2>12, <2>14, <2>16, Zenon
  <1> QED
    BY <1>21, <1>22, <1>23, <1>24, <1>26, <1>27, <1>28, <1>29, <1>30, <1>31, <1>32, <1>33, <1>34 DEF Handle

(* Only the beginning of a session, and the end of its greeting, change a phase *)
(* back: what is up after any other step was up before it.                      *)
PhaseKept == \A g \in Sessions : client'[g].phase = client[g].phase

(* Lines told change no phase. *)
LEMMA TellKeepsPhase ==
    ASSUME LinkInv, NEW q, Tell(q)
    PROVE  PhaseKept
  <1>1. \A g \in Sessions : client[g] \in ClientType
    BY ClientFacts
  <1>2. client \in [Sessions -> ClientType]
    BY ClientFacts
  <1>3. PICK r : r = [client[session] EXCEPT !.queue = @ \o q]
    OBVIOUS
  <1>4. session \in Sessions => r.phase = client[session].phase
    BY <1>1, <1>3 DEF ClientType
  <1>5. client' = [client EXCEPT ![session] = r]
    BY <1>3 DEF Tell
  <1> QED
    BY <1>2, <1>4, <1>5 DEF PhaseKept

(* Nor does the answer to a NICK. *)
LEMMA AnswerNickKeepsPhase ==
    ASSUME LinkInv, NEW new, AnswerNick(new)
    PROVE  PhaseKept
  <1>1. CASE client' = client
    BY <1>1 DEF PhaseKept
  <1>2. ASSUME NEW q, Tell(q) PROVE PhaseKept
    BY <1>2, TellKeepsPhase
  <1> QED
    BY <1>1, <1>2 DEF AnswerNick

(* Nor does the answer to a JOIN. *)
LEMMA AnswerJoinKeepsPhase ==
    ASSUME LinkInv, NEW g \in Sessions, NEW k \in ClientType, k.phase = client[g].phase,
           NEW c, NEW key, AnswerJoin(g, k, c, key)
    PROVE  PhaseKept
  <1>1. client \in [Sessions -> ClientType]
    BY ClientFacts
  <1>2. PICK q : client' = [client EXCEPT ![g] = [k EXCEPT !.queue = @ \o q]]
    BY DEF AnswerJoin
  <1>3. PICK r : r = [k EXCEPT !.queue = @ \o q]
    OBVIOUS
  <1>4. r.phase = client[g].phase
    BY <1>3 DEF ClientType
  <1>5. client' = [client EXCEPT ![g] = r]
    BY <1>2, <1>3
  <1> QED
    BY <1>1, <1>4, <1>5 DEF PhaseKept

(* The server brings no session up. *)
LEMMA ServerKeepsUp ==
    ASSUME LinkInv, ServerStep, Up'
    PROVE  Up
  <1>1. UNCHANGED <<session, overlapped>>
    BY DEF ServerStep, Register, EndGreeting, AskPreferred, ForceJoin, Arrive, Remove, SetMode,
       QuitUser, RenameUser, ghosts
  <1>2. PhaseKept
    <2>1. ASSUME NEW q, Tell(q) PROVE PhaseKept
      BY <2>1, TellKeepsPhase
    <2>2. CASE client' = client
      BY <2>2 DEF PhaseKept
    <2>3. ASSUME NEW c \in Channels, NEW q, Seen(c, q) PROVE PhaseKept
      BY <2>1, <2>2, <2>3 DEF Seen
    <2>4. CASE Register
      BY <2>1, <2>4 DEF Register
    <2>5. CASE EndGreeting
      BY <2>1, <2>5 DEF EndGreeting
    <2>6. CASE AskPreferred
      BY <2>6, AnswerNickKeepsPhase DEF AskPreferred
    <2>7. ASSUME NEW c \in Channels, ForceJoin(c) PROVE PhaseKept
      BY <2>1, <2>7 DEF ForceJoin
    <2>8. ASSUME NEW c \in Channels, NEW n \in Nicks, Arrive(c, n) \/ Remove(c, n) \/ SetMode(c, n)
          PROVE  PhaseKept
      BY <2>3, <2>8 DEF Arrive, Remove, SetMode
    <2>9. ASSUME NEW n \in Nicks, QuitUser(n) PROVE PhaseKept
      BY <2>1, <2>2, <2>9 DEF QuitUser
    <2>10. ASSUME NEW n \in Nicks, NEW new \in Nicks, RenameUser(n, new) PROVE PhaseKept
      BY <2>1, <2>2, <2>10 DEF RenameUser
    <2> QED
      BY <2>4, <2>5, <2>6, <2>7, <2>8, <2>9, <2>10 DEF ServerStep
  <1> QED
    BY <1>1, <1>2, ClientFacts DEF PhaseKept, Up

(* Nor does the user, short of connecting. *)
LEMMA UserKeepsUp ==
    ASSUME LinkInv, UserStep, Up'
    PROVE  Up
  <1>1. UNCHANGED <<session, overlapped>>
    BY DEF UserStep, SignalQuit, RecordPendingJoinKey, SendNick, ChangeNick, LeaveChannel, SetChannelOpen,
       ToggleChannelAutoJoin, JoinChannelWithKey, ghosts
  <1>2. client \in [Sessions -> ClientType] /\ \A g \in Sessions : client[g] \in ClientType
    BY ClientFacts
  <1>3. session # 0 => session \in Sessions
    BY ClientFacts
  <1>4. session # 0
    BY <1>1 DEF Up
  <1>5. ASSUME PhaseKept PROVE Up
    BY <1>1, <1>3, <1>5 DEF PhaseKept, Up
  <1>6. ASSUME NEW g \in Sessions, NEW r \in ClientType, client' = [client EXCEPT ![g] = r],
               r.phase = client[g].phase
        PROVE  Up
    <2>1. PhaseKept
      BY <1>2, <1>6 DEF PhaseKept
    <2> QED
      BY <2>1, <1>5
  <1>7. CASE client' = client
    BY <1>5, <1>7 DEF PhaseKept
  <1>8. CASE SignalQuit
    BY <1>1, <1>8 DEF SignalQuit, Up
  <1>9. CASE RecordPendingJoinKey
    <2>1. PhaseKept
      BY <1>2, <1>9 DEF RecordPendingJoinKey, PhaseKept, ClientType
    <2> QED
      BY <2>1, <1>5
  <1>10. CASE SendNick
    <2>1. CASE AnswerNick(request.arg)
      BY <2>1, <1>5, AnswerNickKeepsPhase
    <2>2. ASSUME NEW x, client' = [client EXCEPT ![request.by].manual = x] PROVE PhaseKept
      BY <1>2, <2>2 DEF PhaseKept, ClientType
    <2>3. CASE client' = [client EXCEPT ![request.by].manual =
                     IF request.kind = "manual" THEN request.arg
                     ELSE IF @ = request.arg THEN None ELSE @]
      BY <2>2, <2>3, <1>5
    <2> QED
      BY <2>1, <2>3, <1>10 DEF SendNick
  <1>11. ASSUME NEW new \in {Me, Alt}, ChangeNick(new) PROVE Up
    <2>1. PhaseKept
      BY <1>2, <1>11 DEF ChangeNick, PhaseKept, ClientType
    <2> QED
      BY <2>1, <1>5
  <1>12. ASSUME NEW c \in Channels, LeaveChannel(c) PROVE Up
    <2>1. ASSUME NEW q, Tell(q) PROVE Up
      BY <2>1, <1>5, TellKeepsPhase
    <2> QED
      BY <2>1, <1>7, <1>12 DEF LeaveChannel, SetChannelOpen
  <1>13. ASSUME NEW c \in Channels, NEW open \in BOOLEAN, SetChannelOpen(c, open) PROVE Up
    BY <1>7, <1>13 DEF SetChannelOpen
  <1>14. ASSUME NEW c \in Channels, ToggleChannelAutoJoin(c) PROVE Up
    BY <1>7, <1>14 DEF ToggleChannelAutoJoin
  <1>15. ASSUME NEW c \in Channels, NEW key \in Keys, JoinChannelWithKey(c, key) PROVE Up
    <2>1. PhaseKept
      BY <1>2, <1>3, <1>4, <1>15, AnswerJoinKeepsPhase DEF JoinChannelWithKey
    <2> QED
      BY <2>1, <1>5
  <1> QED
    BY <1>8, <1>9, <1>10, <1>11, <1>12, <1>13, <1>14, <1>15 DEF UserStep

(* A callback turns a phase on only where the client is not abandoned. *)
LEMMA HandleKeepsUp ==
    ASSUME LinkInv, NEW g \in Sessions, Handle(g), Up'
    PROVE  Up
  <1>1. client[g].queue # <<>>
    BY DEF Handle, Handles, HandleWelcome, HandleEndOfMotd, OnConnect, FinishDisconnect, HandleJoin,
           HandlePart, HandleKick, HandleQuit, HandleMode, HandleNick, HandleNickInUse, HandleNames,
           HandleEndOfNames, HandleJoinError
  <1>2. UNCHANGED <<session, overlapped>>
    BY DEF Handle, HandleWelcome, HandleEndOfMotd, OnConnect, FinishDisconnect, HandleJoin,
           HandlePart, HandleKick, HandleQuit, HandleMode, HandleNick, HandleNickInUse, HandleNames,
           HandleEndOfNames, HandleJoinError, Settle, Quiet, ghosts
  <1>3. client \in [Sessions -> ClientType] /\ session # 0 /\ session \in Sessions
    BY <1>2, ClientFacts DEF Up
  <1>4. PICK h \in ClientType : h = Handled(g)
    BY <1>1, HandledFits
  <1>5. h.phase = client[g].phase
    BY <1>1, <1>4, HandledFits
  <1>6. ASSUME NEW r, client' = [client EXCEPT ![g] = r],
               r.phase = h.phase \/ r.phase = "off" \/ ~Abandoned(g)
        PROVE  Up
    <2>1. client[session].phase # "none"
      BY <1>3 DEF LinkInv, ClientsInv
    <2>2. client'[session] = IF session = g THEN r ELSE client[session]
      BY <1>3, <1>6
    <2>3. client[session].phase \in {"registering", "on", "quit", "off", "none"}
      BY <1>3 DEF ClientType, Phases
    <2> QED
      BY <1>2, <1>5, <1>6, <2>1, <2>2, <2>3 DEF Up, Abandoned
  <1>7. ASSUME NEW r, r.phase = h.phase, client' = [client EXCEPT ![g] = r] PROVE Up
    BY <1>6, <1>7
  <1>8. CASE HandlePart(g) \/ HandleKick(g) \/ HandleQuit(g) \/ HandleMode(g) \/ HandleJoinError(g)
    BY <1>4, <1>7, <1>8 DEF HandlePart, HandleKick, HandleQuit, HandleMode, HandleJoinError
  <1>9. CASE HandleWelcome(g)
    <2>1. PICK r : r = [h EXCEPT !.nick = Message(g).nick, !.timer = TRUE]
      OBVIOUS
    <2>2. r.phase = h.phase
      BY <2>1 DEF ClientType
    <2> QED
      BY <1>4, <1>7, <1>9, <2>1, <2>2 DEF HandleWelcome
  <1>10. CASE HandleEndOfMotd(g)
    <2>1. PICK r : r = Triggered(h)
      OBVIOUS
    <2>2. r.phase = h.phase
      BY <2>1 DEF ClientType, Triggered
    <2> QED
      BY <1>4, <1>7, <1>10, <2>1, <2>2 DEF HandleEndOfMotd
  <1>11. CASE OnConnect(g)
    BY <1>4, <1>6, <1>7, <1>11 DEF OnConnect
  <1>12. CASE FinishDisconnect(g)
    <2>1. PICK r : r = [NewClient EXCEPT !.phase = "off"]
      OBVIOUS
    <2>2. r.phase = "off"
      BY <2>1 DEF NewClient
    <2> QED
      BY <1>6, <1>12, <2>1, <2>2 DEF FinishDisconnect
  <1>13. CASE HandleJoin(g)
    <2>1. PICK keys, auto : client' = [client EXCEPT ![g] = [h EXCEPT !.keys = keys, !.auto = auto]]
      <3>1. PICK keys : keys = [h.keys EXCEPT ![Message(g).chan] =
                                   IF IsMe(g, Message(g).nick) THEN Nothing ELSE h.keys[Message(g).chan]]
        OBVIOUS
      <3>2. PICK auto : auto = IF IsMe(g, Message(g).nick) /\ noImplicitNames /\ ~Abandoned(g)
                                 THEN Append(h.auto, Message(g).chan) ELSE h.auto
        OBVIOUS
      <3>3. client' = [client EXCEPT ![g] = [h EXCEPT !.keys = keys, !.auto = auto]]
        BY <1>4, <1>13, <3>1, <3>2 DEF HandleJoin, ClientType
      <3> QED
        BY <3>3
    <2>2. PICK r : r = [h EXCEPT !.keys = keys, !.auto = auto]
      OBVIOUS
    <2>3. r.phase = h.phase
      BY <2>2 DEF ClientType
    <2> QED
      BY <1>7, <2>1, <2>2, <2>3
  <1>14. CASE HandleNick(g)
    <2>1. PICK r : r = [h EXCEPT !.nick = Message(g).arg, !.manual = None]
      OBVIOUS
    <2>2. r.phase = h.phase
      BY <2>1 DEF ClientType
    <2> QED
      BY <1>4, <1>7, <1>14, <2>1, <2>2 DEF HandleNick
  <1>15. CASE HandleNickInUse(g)
    <2>1. PICK r : r = [h EXCEPT !.manual = None]
      OBVIOUS
    <2>2. r.phase = h.phase
      BY <2>1 DEF ClientType
    <2> QED
      BY <1>4, <1>7, <1>15, <2>1, <2>2 DEF HandleNickInUse
  <1>16. CASE HandleNames(g)
    <2>1. PICK r : r = [h EXCEPT !.names = @ \union {Message(g).chan}]
      OBVIOUS
    <2>2. r.phase = h.phase
      BY <2>1 DEF ClientType
    <2> QED
      BY <1>4, <1>7, <1>16, <2>1, <2>2 DEF HandleNames
  <1>17. CASE HandleEndOfNames(g)
    <2>1. PICK r : r = [h EXCEPT !.names = @ \ {Message(g).chan}]
      OBVIOUS
    <2>2. r.phase = h.phase
      BY <2>1 DEF ClientType
    <2> QED
      BY <1>4, <1>7, <1>17, <2>1, <2>2 DEF HandleEndOfNames
  <1> QED
    BY <1>8, <1>9, <1>10, <1>11, <1>12, <1>13, <1>14, <1>15, <1>16, <1>17 DEF Handle

(* The workers change no phase. *)
LEMMA WorkersKeepUp ==
    ASSUME LinkInv, NEW g \in Sessions, Up',
           AutoJoinTimer(g) \/ DoAutoJoin(g) \/ AutoJoinNext(g) \/ AutomaticRequest(g)
    PROVE  Up
  <1>1. UNCHANGED <<session, overlapped>>
    BY DEF AutoJoinTimer, DoAutoJoin, AutoJoinNext, AutomaticRequest, Quiet, ghosts
  <1>2. client \in [Sessions -> ClientType] /\ client[g] \in ClientType
    BY ClientFacts
  <1>3. session \in Sessions
    BY <1>1, ClientFacts DEF Up
  <1>4. ASSUME PhaseKept PROVE Up
    BY <1>1, <1>3, <1>4 DEF PhaseKept, Up
  <1>5. CASE AutoJoinTimer(g)
    <2>1. PICK k : k = [client[g] EXCEPT !.timer = FALSE]
      OBVIOUS
    <2>2. k \in ClientType /\ k.phase = client[g].phase
      BY <1>2, <2>1 DEF ClientType
    <2>3. PICK r : r = Triggered(k)
      OBVIOUS
    <2>4. r.phase = client[g].phase
      BY <2>2, <2>3 DEF ClientType, Triggered
    <2>5. client' = [client EXCEPT ![g] = r]
      BY <1>5, <2>1, <2>3 DEF AutoJoinTimer
    <2>6. PhaseKept
      BY <1>2, <2>4, <2>5 DEF PhaseKept
    <2> QED
      BY <1>4, <2>6
  <1>6. CASE DoAutoJoin(g)
    <2>1. PhaseKept
      BY <1>2, <1>6 DEF DoAutoJoin, PhaseKept, ClientType
    <2> QED
      BY <1>4, <2>1
  <1>7. CASE AutoJoinNext(g)
    <2>1. CASE client' = [client EXCEPT ![g].pass = "done"]
      <3>1. PhaseKept
        BY <1>2, <2>1 DEF PhaseKept, ClientType
      <3> QED
        BY <1>4, <3>1
    <2>2. ASSUME NEW j, AnswerJoin(g, [client[g] EXCEPT !.todo = @ \ {j}], j.chan, j.key) PROVE Up
      <3>1. PICK k : k = [client[g] EXCEPT !.todo = @ \ {j}]
        OBVIOUS
      <3>2. k \in ClientType /\ k.phase = client[g].phase
        BY <1>2, <3>1 DEF ClientType
      <3>3. AnswerJoin(g, k, j.chan, j.key)
        BY <2>2, <3>1
      <3> QED
        BY <1>4, <3>2, <3>3, AnswerJoinKeepsPhase
    <2> QED
      BY <1>7, <2>1, <2>2 DEF AutoJoinNext
  <1>8. CASE AutomaticRequest(g)
    <2>1. PhaseKept
      <3>1. PICK auto, queue :
               /\ auto = Tail(client[g].auto)
               /\ queue = client[g].queue \o NamesReply(Head(client[g].auto), members[Head(client[g].auto)])
        BY Zenon
      <3>2. PICK r : r = [client[g] EXCEPT !.auto = auto, !.queue = queue]
        OBVIOUS
      <3>3. r.phase = client[g].phase
        BY <1>2, <3>2, AskedClient DEF PhaseAs
      <3>4. client' = [client EXCEPT ![g] = r]
        BY <1>8, <3>1, <3>2, Zenon DEF AutomaticRequest
      <3> QED
        BY <1>2, <3>3, <3>4 DEF PhaseKept
    <2> QED
      BY <1>4, <2>1
  <1> QED
    BY <1>5, <1>6, <1>7, <1>8

(* A new session: nothing said, nothing told, and the flags it found are an earlier *)
(* session's.                                                                      *)
LEMMA ConnectAgrees ==
    ASSUME LinkInv, NEW rejoin \in BOOLEAN, Connect(rejoin), Up'
    PROVE  \E e2, said2, ans2 : Agreed(e2, said2, ans2)'
  <1>1. PICK s : s = session + 1
    OBVIOUS
  <1>2. PICK k : k = [NewClient EXCEPT !.phase = "registering", !.rejoin = rejoin]
    OBVIOUS
  <1>3. /\ session < MaxSessions /\ session' = s /\ client' = [client EXCEPT ![s] = k]
        /\ session # 0 => client[session].phase = "off"
        /\ inherited' = {c \in Channels : row[c].open} /\ byUser' = {}
        /\ UNCHANGED <<row, roster, request, srvNick, srvReady, members, noImplicitNames>>
    BY <1>1, <1>2 DEF Connect, storage, server
  <1>4. /\ session \in 0..MaxSessions /\ MaxSessions \in Nat /\ client \in [Sessions -> ClientType]
        /\ row \in [Channels -> RowType] /\ roster \in [Channels -> Rosters]
    BY BoundsAssumption DEF LinkInv, TypeInv
  <1>5. s \in Sessions
    BY <1>1, <1>3, <1>4 DEF Sessions
  <1>6. client'[s] = k
    BY <1>3, <1>4, <1>5
  <1>7. k.queue = <<>> /\ k.nick = None /\ k.names = {} /\ k.pass = "armed" /\ k.todo = {} /\ k.manual = None
    BY <1>2 DEF NewClient
  <1>8. srvNick = None
    BY <1>3 DEF LinkInv, ServerInv
  <1>9. \A c \in Channels : ~In(c)'
    BY <1>3, <1>8 DEF In
  <1>10. PICK v : v = [nick |-> None, names |-> {}, rows |-> Rows, roster |-> roster]
    OBVIOUS
  <1>11. v \in View
    BY <1>4, <1>10 DEF View, Rows
  <1>12. Rows' = Rows
    BY <1>3 DEF Rows
  <1>13. PICK said : said = [c \in Channels |-> "nothing"]
    OBVIOUS
  <1>14. Leads(<<>>, v, v, said, {})
    BY <1>11, <1>13, NothingLeads
  <1>15. Leads(client[session].queue, ViewOf(client[session]), v, said, {})'
    BY <1>3, <1>6, <1>7, <1>10, <1>12, <1>14 DEF ViewOf
  <1>16. NickTold(v)'
    BY <1>3, <1>6, <1>7, <1>8 DEF NickTold
  <1>17. RosterTold(v, said)'
    BY <1>9, <1>10 DEF RosterTold, RosterComes
  <1>18. ManualTold({})'
    BY <1>3, <1>6, <1>7 DEF ManualTold, ManualComes
  <1>19. OpenTold(said)'
    <2>1. \A c \in Channels : said[c] = "nothing"
      BY <1>13
    <2>2. \A c \in Channels : c \in inherited' \/ row'[c].open = FALSE
      BY <1>3, <1>4 DEF RowType
    <2> QED
      BY <1>9, <2>1, <2>2 DEF OpenTold
  <1>20. RejoinTold(said)'
    BY <1>3, <1>6, <1>7, <1>9 DEF RejoinTold
  <1>21. Agreed(v, said, {})'
    BY <1>15, <1>16, <1>17, <1>18, <1>19, <1>20 DEF Agreed
  <1> QED
    BY <1>21

(* The agreement is inductive, given the link and the rows. *)
LEMMA NextAgree ==
    ASSUME LinkInv, RowsInv, AgreeInv, [Next]_vars
    PROVE  AgreeInv'
  <1>1. CASE UNCHANGED vars
    <2>1. UNCHANGED <<client, session, row, roster, request, srvNick, members, noImplicitNames,
                      inherited, byUser, overlapped>>
      BY <1>1 DEF vars, storage, server, ghosts
    <2>2. Up' => Up
      BY <2>1 DEF Up
    <2>3. ASSUME NEW e, NEW said, NEW ans, Agreed(e, said, ans) PROVE Agreed(e, said, ans)'
      BY <2>1, <2>3 DEF Agreed, NickTold, RosterTold, RosterComes, ManualTold, ManualComes, OpenTold, RejoinTold,
         In, ViewOf, Rows
    <2> QED
      BY <2>2, <2>3 DEF AgreeInv
  <1>2. CASE Next
    <2> SUFFICES ASSUME Up' PROVE \E e2, said2, ans2 : Agreed(e2, said2, ans2)'
      BY DEF AgreeInv
    <2>1. ASSUME NEW rejoin \in BOOLEAN, Connect(rejoin) PROVE \E e2, said2, ans2 : Agreed(e2, said2, ans2)'
      BY <2>1, ConnectAgrees
    <2>2. CASE Drop
      <3>1. PICK r : r = [client[session] EXCEPT !.phase = "off", !.nick = None, !.manual = None, !.auto = <<>>,
                             !.queue = Append(@, Line("disconnected", None, None, None))]
        OBVIOUS
      <3>2. session \in Sessions /\ client \in [Sessions -> ClientType] /\ client[session] \in ClientType
        BY <2>2, ClientFacts DEF Drop
      <3>3. r.phase = "off"
        BY <3>1, <3>2 DEF ClientType
      <3>4. client'[session] = r /\ session' = session
        BY <2>2, <3>1, <3>2 DEF Drop
      <3> QED
        BY <3>3, <3>4 DEF Up
    <2>3. CASE ServerStep
      <3>1. Up
        BY <2>3, ServerKeepsUp
      <3>2. PICK e, said, ans : Agreed(e, said, ans)
        BY <3>1 DEF AgreeInv
      <3> QED
        BY <2>3, <3>1, <3>2, ServerAgrees
    <2>4. CASE UserStep
      <3>1. Up
        BY <2>4, UserKeepsUp
      <3>2. PICK e, said, ans : Agreed(e, said, ans)
        BY <3>1 DEF AgreeInv
      <3> QED
        BY <2>4, <3>1, <3>2, UserAgrees
    <2>5. ASSUME NEW g \in Sessions, Handle(g) PROVE \E e2, said2, ans2 : Agreed(e2, said2, ans2)'
      <3>1. Up
        BY <2>5, HandleKeepsUp
      <3>2. PICK e, said, ans : Agreed(e, said, ans)
        BY <3>1 DEF AgreeInv
      <3>3. Busy(g)
        BY <2>5 DEF Busy, Handle, Handles, HandleWelcome, HandleEndOfMotd, OnConnect, FinishDisconnect,
           HandleJoin, HandlePart, HandleKick, HandleQuit, HandleMode, HandleNick, HandleNickInUse,
           HandleNames, HandleEndOfNames, HandleJoinError
      <3>4. Handle(session)
        BY <2>5, <3>1, <3>3, OnlyLive
      <3> QED
        BY <3>1, <3>2, <3>4, HandleAgrees
    <2>6. ASSUME NEW g \in Sessions,
                 AutoJoinTimer(g) \/ DoAutoJoin(g) \/ AutoJoinNext(g) \/ AutomaticRequest(g)
          PROVE  \E e2, said2, ans2 : Agreed(e2, said2, ans2)'
      <3>1. Up
        BY <2>6, WorkersKeepUp
      <3>2. PICK e, said, ans : Agreed(e, said, ans)
        BY <3>1 DEF AgreeInv
      <3> QED
        BY <2>6, <3>1, <3>2, WorkersAgree
    <2> QED
      BY <1>2, <2>1, <2>2, <2>3, <2>4, <2>5, <2>6 DEF Next
  <1> QED
    BY <1>1, <1>2

IInv == LinkInv /\ RowsInv /\ AgreeInv

(* The three together are an inductive invariant. *)
LEMMA Inductive == Spec => []IInv
  <1>1. Init => IInv
    <2>1. Init => AgreeInv
      BY DEF Init, AgreeInv, Up
    <2> QED
      BY <2>1, InitLink, InitRows DEF IInv
  <1>2. IInv /\ [Next]_vars => IInv'
    BY NextLink, NextRows, NextAgree DEF IInv
  <1> QED
    BY <1>1, <1>2, PTL DEF Spec

(* With no line left, what the lines lead to is what there is. *)
LEMMA EmptyLeads ==
    ASSUME NEW v, NEW e, NEW said, NEW ans, Leads(<<>>, v, e, said, ans)
    PROVE  e = v /\ (\A c \in Channels : said[c] = "nothing") /\ ans = {}
  <1>1. Len(<<>>) = 0 /\ ans \subseteq Nicks
    BY DEF Leads
  <1>2. PICK p : Path(p, <<>>, v, e, said, ans)
    BY DEF Leads
  <1>3. e = v
    BY <1>1, <1>2 DEF Path
  <1>4. \A c \in Channels : said[c] = "nothing"
    BY <1>1, <1>2 DEF Path, LastSaid
  <1>5. ans = {}
    BY <1>1, <1>2 DEF Path
  <1> QED
    BY <1>3, <1>4, <1>5

(* With every line handled, the end they lead to is here. *)
LEMMA SettledAgrees ==
    ASSUME IInv, Settled
    PROVE  \E e, said, ans :
              /\ e = ViewOf(client[session]) /\ (\A c \in Channels : said[c] = "nothing") /\ ans = {}
              /\ NickTold(e) /\ RosterTold(e, said) /\ ManualTold(ans) /\ OpenTold(said) /\ RejoinTold(said)
  <1>1. Up
    BY DEF Settled, IsOn, Up
  <1>2. PICK e, said, ans : Agreed(e, said, ans)
    BY <1>1 DEF IInv, AgreeInv
  <1>3. client[session].queue = <<>>
    BY DEF Settled, Drained
  <1>4. e = ViewOf(client[session]) /\ (\A c \in Channels : said[c] = "nothing") /\ ans = {}
    BY <1>2, <1>3, EmptyLeads DEF Agreed
  <1> QED
    BY <1>2, <1>4 DEF Agreed

(* With every line handled, the roster of each channel we are in is the server's: *)
(* joins, parts, kicks, quits, renames, modes and NAMES answers add up.           *)
THEOREM RosterAgreesAlways == Spec => []RosterAgrees
  <1>1. ASSUME IInv PROVE RosterAgrees
    <2> SUFFICES ASSUME Settled, NEW c \in Channels, In(c) PROVE roster[c] = members[c]
      BY DEF RosterAgrees
    <2>1. PICK e, said, ans :
              e = ViewOf(client[session]) /\ (\A d \in Channels : said[d] = "nothing") /\ RosterTold(e, said)
      BY <1>1, SettledAgrees
    <2>2. client[session].auto = <<>>
      BY DEF Settled
    <2>3. ~Listed(c, client[session].auto)
      BY <2>2 DEF Listed
    <2> QED
      BY <2>1, <2>3 DEF RosterTold, RosterComes, ViewOf
  <1> QED
    BY <1>1, Inductive, PTL

(* With every line handled, the client knows its nick. *)
THEOREM NickAgreesAlways == Spec => []NickAgrees
  <1>1. ASSUME IInv PROVE NickAgrees
    <2> SUFFICES ASSUME Settled PROVE client[session].nick = srvNick
      BY DEF NickAgrees
    <2>1. PICK e : e = ViewOf(client[session]) /\ NickTold(e)
      BY <1>1, SettledAgrees
    <2> QED
      BY <2>1 DEF NickTold, ViewOf, Settled
  <1> QED
    BY <1>1, Inductive, PTL

(* A manual nick change is remembered until its answer and no longer. *)
THEOREM ManualAnsweredAlways == Spec => []ManualAnswered
  <1>1. ASSUME IInv PROVE ManualAnswered
    <2> SUFFICES ASSUME Settled PROVE client[session].manual \in {None, srvNick}
      BY DEF ManualAnswered
    <2>1. ManualTold({})
      BY <1>1, SettledAgrees
    <2> QED
      BY <2>1 DEF ManualTold, ManualComes, Settled
  <1> QED
    BY <1>1, Inductive, PTL

(* With every line handled, a channel is open exactly where we are in it, but for *)
(* the panes the user has set and the flags of an earlier session.                *)
THEOREM OpenAgreesAlways == Spec => []OpenAgrees
  <1>1. ASSUME IInv PROVE OpenAgrees
    <2> SUFFICES ASSUME Settled, NEW c \in Channels, c \notin inherited \union byUser
                 PROVE  row[c].open = In(c)
      BY DEF OpenAgrees
    <2>1. PICK said : (\A d \in Channels : said[d] = "nothing") /\ OpenTold(said)
      BY <1>1, SettledAgrees
    <2>2. row[c].open <=> In(c)
      BY <2>1 DEF OpenTold
    <2>3. row[c].open \in BOOLEAN
      BY <1>1 DEF IInv, LinkInv, TypeInv, RowType
    <2> QED
      BY <2>2, <2>3 DEF In
  <1> QED
    BY <1>1, Inductive, PTL

(* After the auto-join of a reconnect, every channel that was open has been joined *)
(* again or closed by the server's refusal.                                        *)
THEOREM RejoinsOpenAlways == Spec => []RejoinsOpen
  <1>1. ASSUME IInv PROVE RejoinsOpen
    <2> SUFFICES ASSUME Settled, client[session].rejoin, client[session].pass = "done" PROVE inherited = {}
      BY DEF RejoinsOpen
    <2>1. PICK said : (\A d \in Channels : said[d] = "nothing") /\ RejoinTold(said)
      BY <1>1, SettledAgrees
    <2>2. inherited \subseteq Channels
      BY <1>1 DEF IInv, LinkInv, TypeInv
    <2> QED
      BY <2>1, <2>2 DEF RejoinTold
  <1> QED
    BY <1>1, Inductive, PTL
==============================================================================
