-------------------------- MODULE MigrationsProofs --------------------------
(***************************************************************************)
(* Theorems of Migrations, for any number of crashes.                       *)
(*                                                                          *)
(* The migrations are looked at once, as data: what a migration after the    *)
(* first may make and drop (Sound), and that what it needs is provided by an *)
(* earlier one (Provided).  The invariant then speaks of positions only.     *)
(***************************************************************************)
EXTENDS Migrations, TLAPS

------------------------------------------------------------------------------
(* What a fact brings with it: the tables of this layout their first columns, and *)
(* the one column that is looked at the other four.                               *)
Whole(f) ==
    {f} \union (IF f = "servers" THEN {"servers.network_id"} ELSE {})
        \union (IF f = "channels" THEN {"channels.network_id"} ELSE {})
        \union (IF f = "messages" THEN {"messages.network_id"} ELSE {})
        \union (IF f = "networks.sasl_enabled"
                THEN {"networks.sasl_mechanism", "networks.sasl_username", "networks.sasl_password",
                      "networks.sasl_external_cert"} ELSE {})

(* Columns that a new table has, and that an old one gets from a migration of their own. *)
LateColumns == LaterColumns \union {"plugin_configs.config", "plugin_configs.config_schema"}

FactsOf(mig) == UNION {mig.stmts[i].makes : i \in DOMAIN mig.stmts}

SoundStmt(stmt) ==
    /\ stmt.once = FALSE /\ stmt.drops \subseteq {"i:network_msgid"}
    /\ "i:network_msgid" \notin stmt.makes /\ "oldservers" \notin stmt.makes
    /\ stmt.needs \intersect (Backfills \union {"set:pm_target"}) = {}

(* A migration after the first. *)
Sound(mig) ==
    /\ \A i \in DOMAIN mig.stmts : SoundStmt(mig.stmts[i])
    /\ \A f \in mig.unless :
          /\ mig.unless = {f} /\ Whole(f) \subseteq FactsOf(mig)
          /\ FactsOf(mig) \subseteq Whole(f) \union Backfills \union LateColumns
    /\ mig = SASLFields \/ \A i \in DOMAIN mig.stmts : \A f \in mig.stmts[i].makes : Whole(f) \subseteq mig.stmts[i].makes
    /\ Len(mig.stmts) \in Nat \ {0} /\ DOMAIN mig.stmts = 1..Len(mig.stmts)

(* What is there when migration m has been passed. *)
Provided(m) ==
    IF Migrate[m].unless = {} THEN Facts(m) ELSE UNION {Whole(f) : f \in Migrate[m].unless}

------------------------------------------------------------------------------
(* The database of the old layout, before the statement s of the first migration. *)
OldAfter(s) ==
    {"channels", "messages"}
    \union (IF s > 1 THEN {"networks", "rows:networks"} ELSE {"oldservers", "rows:oldservers"})
    \union (IF s > 2 THEN {"servers", "rows:servers"} ELSE {"server_addresses", "rows:server_addresses"})
    \union (IF s > 3 THEN {"servers.network_id"} ELSE {"servers.server_id"})
    \union (IF s > 4 THEN {"channels.network_id"} ELSE {"channels.server_id"})
    \union (IF s > 5 THEN {"messages.network_id"} ELSE {"messages.server_id"})

TypeInv ==
    /\ at \in (1..Len(Migrate)) \X Nat
    /\ phase \in {"starting", "running", "failed", "down"} /\ crashes \in Nat
    /\ phase = "running" => at = <<1, 0>>
    /\ phase = "down" => crashes > 0
    /\ at[2] # 0 => at[2] \in 1..Len(Migrate[at[1]].stmts)

(* The old layout is there until the first statement of the first migration. *)
OldInv ==
    /\ "oldservers" \in db => db = OldLayout /\ at[1] = 1 /\ at[2] \in {0, 1} /\ phase # "running"
    /\ at[1] = 1 /\ at[2] # 0 => db = OldAfter(at[2])

Passed(m) == phase = "running" \/ (phase = "starting" /\ at[1] > m)
Reached(m, s) == Passed(m) \/ (phase = "starting" /\ at[1] = m /\ at[2] > s)

(* The statements of a migration that is always run have had their effect, and so *)
(* have those of the one that runs.                                               *)
DoneInv ==
    /\ \A m \in 2..Len(Migrate) : \A s \in DOMAIN Migrate[m].stmts :
          Reached(m, s) /\ (Migrate[m].unless = {} \/ ~Passed(m)) =>
              Migrate[m].stmts[s].makes \subseteq db /\ Migrate[m].stmts[s].drops \intersect db = {}

(* What holds of a database whose starts were never cut short. *)
UncutInv ==
    /\ phase # "failed"
    /\ ~(at[1] = 1 /\ at[2] # 0) /\ "oldservers" \notin db =>
          /\ \A f \in db : \/ Whole(f) \subseteq db
                           \/ phase = "starting" /\ Migrate[at[1]] = SASLFields /\ at[2] > 1
                              /\ f = "networks.sasl_enabled"
          /\ legacy => {"rows:networks", "rows:servers"} \subseteq db
    /\ \A m \in 2..Len(Migrate) : \A f \in Migrate[m].unless : Passed(m) => Whole(f) \subseteq db

IInv == TypeInv /\ OldInv /\ DoneInv /\ (crashes = 0 => UncutInv)

------------------------------------------------------------------------------
(* The migrations as data *)

(* What most of them make, and what they may need. *)
Plain(f)    == f \notin {"i:network_msgid", "oldservers", "servers", "channels", "messages", "networks.sasl_enabled"}
Needable(f) == f \notin Backfills \union {"set:pm_target"}

LEMMA PlainFacts == ASSUME NEW f, Plain(f) PROVE Whole(f) = {f}
  BY DEF Plain, Whole

(* A statement that makes facts with what they bring *)
GoodStmt(stmt) == SoundStmt(stmt) /\ \A f \in stmt.makes : Whole(f) \subseteq stmt.makes

LEMMA GoodStatement ==
    ASSUME NEW needs, \A f \in needs : Needable(f), NEW makes, "oldservers" \notin makes,
           "i:network_msgid" \notin makes, \A f \in makes : Whole(f) \subseteq makes,
           NEW drops \in SUBSET {"i:network_msgid"},
           NEW stmt, stmt = Statement(needs, makes, drops)
    PROVE  GoodStmt(stmt) /\ stmt.makes = makes
<1>1. stmt.needs = needs /\ stmt.makes = makes /\ stmt.drops = drops /\ stmt.once = FALSE
  BY DEF Statement
<1>2. needs \intersect (Backfills \union {"set:pm_target"}) = {}
  BY DEF Needable
<1>3. SoundStmt(stmt)
  BY <1>1, <1>2 DEF SoundStmt
<1> QED
  BY <1>1, <1>3 DEF GoodStmt

LEMMA PlainStatement ==
    ASSUME NEW needs, \A f \in needs : Needable(f), NEW makes, \A f \in makes : Plain(f),
           NEW drops \in SUBSET {"i:network_msgid"},
           NEW stmt, stmt = Statement(needs, makes, drops)
    PROVE  GoodStmt(stmt) /\ stmt.makes = makes
<1>1. \A f \in makes : Whole(f) \subseteq makes
  BY PlainFacts
<1>2. "oldservers" \notin makes /\ "i:network_msgid" \notin makes
  BY DEF Plain
<1> QED
  BY <1>1, <1>2, GoodStatement

LEMMA PlainMake ==
    ASSUME NEW makes, \A f \in makes : Plain(f), NEW stmt, stmt = Make(makes)
    PROVE  GoodStmt(stmt) /\ stmt.makes = makes
<1>1. (\A f \in {} : Needable(f)) /\ {} \in SUBSET {"i:network_msgid"}
  OBVIOUS
<1> QED
  BY <1>1, PlainStatement DEF Make

LEMMA PlainMakeOn ==
    ASSUME NEW needs, \A f \in needs : Needable(f), NEW makes, \A f \in makes : Plain(f),
           NEW stmt, stmt = MakeOn(needs, makes)
    PROVE  GoodStmt(stmt) /\ stmt.makes = makes
<1>1. {} \in SUBSET {"i:network_msgid"}
  OBVIOUS
<1> QED
  BY <1>1, PlainStatement DEF MakeOn

(* Migrations of such statements *)
Extra(f) == Whole(f) \union Backfills \union LateColumns

LEMMA SoundOne ==
    ASSUME NEW stmt, GoodStmt(stmt)
    PROVE  /\ Sound(Always(<<stmt>>))
           /\ \A f : Whole(f) \subseteq stmt.makes /\ stmt.makes \subseteq Extra(f) => Sound(Unless(f, <<stmt>>))
  BY DEF Always, Unless, Sound, FactsOf, GoodStmt, Extra

LEMMA SoundTwo ==
    ASSUME NEW a, GoodStmt(a), NEW b, GoodStmt(b)
    PROVE  /\ Sound(Always(<<a, b>>))
           /\ \A f : Whole(f) \subseteq a.makes /\ a.makes \union b.makes \subseteq Extra(f) => Sound(Unless(f, <<a, b>>))
  BY DEF Always, Unless, Sound, FactsOf, GoodStmt, Extra

LEMMA SoundThree ==
    ASSUME NEW a, GoodStmt(a), NEW b, GoodStmt(b), NEW c, GoodStmt(c)
    PROVE  Sound(Always(<<a, b, c>>))
  BY DEF Always, Sound, FactsOf, GoodStmt, Extra

LEMMA SoundColumn ==
    ASSUME NEW t, Needable(t), NEW c, Plain(c)
    PROVE  Sound(Column(t, c))
<1>1. PICK stmt : stmt = MakeOn({t}, {c})
  OBVIOUS
<1>2. GoodStmt(stmt) /\ stmt.makes = {c}
  BY <1>1, PlainMakeOn
<1> QED
  BY <1>1, <1>2, SoundOne, PlainFacts DEF Column, Extra

LEMMA SoundTable ==
    ASSUME NEW t, Plain(t)
    PROVE  /\ Sound(Table(t)) /\ Sound(Always(<<Make({t})>>)) /\ Sound(Unless(t, <<Make({t})>>))
           /\ Sound(NewTable(t, {}))
<1>1. PICK stmt : stmt = Make({t})
  OBVIOUS
<1>2. GoodStmt(stmt) /\ stmt.makes = {t}
  BY <1>1, PlainMake
<1>3. Sound(Always(<<stmt>>)) /\ Sound(Unless(t, <<stmt>>))
  BY <1>2, SoundOne, PlainFacts DEF Extra
<1>4. {t} \union {} = {t}
  OBVIOUS
<1> QED
  BY <1>1, <1>3, <1>4 DEF Table, NewTable

(* A new table with its columns *)
LEMMA SoundNewTable ==
    ASSUME NEW t, t \notin {"i:network_msgid", "oldservers"}, NEW cols, \A f \in cols : Plain(f),
           Whole(t) \subseteq {t} \union cols, cols \subseteq Whole(t) \union LateColumns
    PROVE  Sound(NewTable(t, cols))
<1>1. PICK makes : makes = {t} \union cols
  OBVIOUS
<1>2. PICK stmt : stmt = Make(makes)
  OBVIOUS
<1>3. \A f \in makes : Whole(f) \subseteq makes
  BY <1>1, PlainFacts
<1>4. (\A f \in {} : Needable(f)) /\ {} \in SUBSET {"i:network_msgid"}
  OBVIOUS
<1>5. "oldservers" \notin makes /\ "i:network_msgid" \notin makes
  BY <1>1 DEF Plain
<1>6. GoodStmt(stmt) /\ stmt.makes = makes
  BY <1>2, <1>3, <1>4, <1>5, GoodStatement DEF Make
<1>7. Whole(t) \subseteq makes /\ makes \subseteq Extra(t)
  BY <1>1 DEF Extra, Whole
<1> QED
  BY <1>1, <1>2, <1>6, <1>7, SoundOne DEF NewTable

LEMMA SoundBaseTables == \A i \in 1..6 : Sound(BaseTables[i])
<1>1. Sound(NewTable("networks", {}))
  BY SoundTable DEF Plain
<1>2. Sound(NewTable("servers", {"servers.network_id"}))
  BY SoundNewTable DEF Plain, Whole
<1>3. Sound(NewTable("channels", {"channels.network_id", "channels.topic", "channels.modes", "channels.updated_at"}))
  BY SoundNewTable DEF Plain, Whole, LateColumns, LaterColumns
<1>4. Sound(NewTable("channel_users", {}))
  BY SoundTable DEF Plain
<1>5. Sound(NewTable("messages", {"messages.network_id", "messages.pm_target"}))
  BY SoundNewTable DEF Plain, Whole, LateColumns, LaterColumns
<1>6. Sound(Always(<<MakeOn({"messages.network_id"}, {"i:messages_time"}), Make({"i:messages_timestamp"}),
                     MakeOn({"servers.network_id"}, {"i:servers_order"})>>))
  <2>1. PICK a, b, c : /\ a = MakeOn({"messages.network_id"}, {"i:messages_time"})
                       /\ b = Make({"i:messages_timestamp"})
                       /\ c = MakeOn({"servers.network_id"}, {"i:servers_order"})
    OBVIOUS
  <2>2. GoodStmt(a) /\ GoodStmt(b) /\ GoodStmt(c)
    BY <2>1, PlainMake, PlainMakeOn DEF Plain, Needable, Backfills
  <2> QED
    BY <2>1, <2>2, SoundThree
<1> QED
  BY <1>1, <1>2, <1>3, <1>4, <1>5, <1>6 DEF BaseTables

LEMMA SASLShape ==
    /\ SASLFields.unless = {"networks.sasl_enabled"} /\ DOMAIN SASLFields.stmts = 1..5 /\ Len(SASLFields.stmts) = 5
    /\ FactsOf(SASLFields) = Whole("networks.sasl_enabled")
    /\ \A i \in 1..5 : SoundStmt(SASLFields.stmts[i]) /\ SASLFields.stmts[i].needs = {"networks"}
    /\ \A i \in 1..5 : \A f \in SASLFields.stmts[i].makes :
          Whole(f) = {f} \/ (f = "networks.sasl_enabled" /\ i = 1)
    /\ SASLFields.stmts[1].makes = {"networks.sasl_enabled"}
<1>1. SASLFields.unless = {"networks.sasl_enabled"} /\ DOMAIN SASLFields.stmts = 1..5 /\ Len(SASLFields.stmts) = 5
  BY DEF SASLFields, Unless
<1>2. ASSUME NEW i \in 1..5
      PROVE  /\ SASLFields.stmts[i].needs = {"networks"} /\ SASLFields.stmts[i].makes = {SASLColumns[i]}
             /\ SASLFields.stmts[i].drops = {} /\ SASLFields.stmts[i].once = FALSE
  BY DEF SASLFields, Unless, MakeOn, Statement
<1>3. /\ SASLColumns[1] = "networks.sasl_enabled" /\ SASLColumns[2] = "networks.sasl_mechanism"
      /\ SASLColumns[3] = "networks.sasl_username" /\ SASLColumns[4] = "networks.sasl_password"
      /\ SASLColumns[5] = "networks.sasl_external_cert"
  BY DEF SASLColumns
<1>4. \A i \in 1..5 : SoundStmt(SASLFields.stmts[i])
  <2>1. ASSUME NEW i \in 1..5
        PROVE  SASLColumns[i] # "i:network_msgid" /\ SASLColumns[i] # "oldservers"
    <3>1. i = 1 \/ i = 2 \/ i = 3 \/ i = 4 \/ i = 5
      OBVIOUS
    <3> QED
      BY <1>3, <3>1
  <2>2. {"networks"} \intersect (Backfills \union {"set:pm_target"}) = {}
    BY DEF Backfills
  <2>3. ASSUME NEW i \in 1..5 PROVE SoundStmt(SASLFields.stmts[i])
    <3>1. "i:network_msgid" \notin {SASLColumns[i]} /\ "oldservers" \notin {SASLColumns[i]}
      BY <2>1
    <3> QED
      BY <1>2, <2>2, <3>1 DEF SoundStmt
  <2> QED
    BY <2>3
<1>5. FactsOf(SASLFields) = {SASLColumns[1], SASLColumns[2], SASLColumns[3], SASLColumns[4], SASLColumns[5]}
  <2>1. ASSUME NEW f
        PROVE  f \in FactsOf(SASLFields) <=> \E i \in 1..5 : f = SASLColumns[i]
    <3>1. f \in FactsOf(SASLFields) <=> \E i \in 1..5 : f \in SASLFields.stmts[i].makes
      BY <1>1 DEF FactsOf
    <3> QED
      BY <3>1, <1>2
  <2> QED
    BY <2>1
<1>6. FactsOf(SASLFields) = Whole("networks.sasl_enabled")
  BY <1>3, <1>5 DEF Whole
<1>7. \A i \in 2..5 : Whole(SASLColumns[i]) = {SASLColumns[i]}
  BY <1>3, PlainFacts DEF Plain
<1> QED
  BY <1>1, <1>2, <1>3, <1>4, <1>6, <1>7

LEMMA SoundSASL == Sound(SASLFields)
  BY SASLShape DEF Sound

LEMMA SoundChannelInfo == \A i \in 1..4 : Sound(ChannelInfo[i])
<1>1. Sound(Column("channels", "channels.topic")) /\ Sound(Column("channels", "channels.modes"))
  BY SoundColumn DEF Plain, Needable, Backfills
<1>2. Sound(Unless("channels.updated_at", <<MakeOn({"channels"}, {"channels.updated_at"}), Make({"set:updated_at"})>>))
  <2>1. PICK a, b : a = MakeOn({"channels"}, {"channels.updated_at"}) /\ b = Make({"set:updated_at"})
    OBVIOUS
  <2>2. GoodStmt(a) /\ a.makes = {"channels.updated_at"} /\ GoodStmt(b) /\ b.makes = {"set:updated_at"}
    BY <2>1, PlainMake, PlainMakeOn DEF Plain, Needable, Backfills
  <2>3. Whole("channels.updated_at") = {"channels.updated_at"}
    BY PlainFacts DEF Plain
  <2> QED
    BY <2>1, <2>2, <2>3, SoundTwo DEF Extra, Backfills
<1>3. Sound(Table("channel_users"))
  BY SoundTable DEF Plain
<1> QED
  BY <1>1, <1>2, <1>3 DEF ChannelInfo

LEMMA SoundNetworkColumns == \A i \in 1..6 : Sound(NetworkColumns[i])
<1>1. /\ Sound(Column("networks", "networks.auto_connect")) /\ Sound(Column("networks", "networks.identify_as_bot"))
      /\ Sound(Column("networks", "networks.color")) /\ Sound(Column("networks", "networks.icon_path"))
      /\ Sound(Column("networks", "networks.sort_order"))
  BY SoundColumn DEF Plain, Needable, Backfills
<1>2. Sound(Always(<<Make({"set:sort_order"})>>))
  BY SoundTable DEF Plain
<1> QED
  BY <1>1, <1>2 DEF NetworkColumns

LEMMA SoundChannelColumns == \A i \in 1..2 : Sound(ChannelColumns[i])
  BY SoundColumn DEF ChannelColumns, Plain, Needable, Backfills

LEMMA SoundConversations == Sound(PrivateMessageConversations)
<1>1. PICK a, b : a = Make({"conversations"}) /\ b = MakeOn({"messages.network_id"}, {"set:conversations"})
  OBVIOUS
<1>2. GoodStmt(a) /\ a.makes = {"conversations"} /\ GoodStmt(b) /\ b.makes = {"set:conversations"}
  BY <1>1, PlainMake, PlainMakeOn DEF Plain, Needable, Backfills
<1>3. Whole("conversations") = {"conversations"}
  BY PlainFacts DEF Plain
<1> QED
  BY <1>1, <1>2, <1>3, SoundTwo DEF PrivateMessageConversations, Extra, Backfills

LEMMA SoundPluginConfigs == \A i \in 1..4 : Sound(PluginConfigs[i])
<1>1. Sound(Unless("plugin_configs", <<Make({"plugin_configs", "plugin_configs.config", "plugin_configs.config_schema"})>>))
  <2>1. PICK a : a = Make({"plugin_configs", "plugin_configs.config", "plugin_configs.config_schema"})
    OBVIOUS
  <2>2. GoodStmt(a) /\ a.makes = {"plugin_configs", "plugin_configs.config", "plugin_configs.config_schema"}
    BY <2>1, PlainMake DEF Plain
  <2>3. Whole("plugin_configs") = {"plugin_configs"}
    BY PlainFacts DEF Plain
  <2> QED
    BY <2>1, <2>2, <2>3, SoundOne DEF Extra, LateColumns
<1>2. Sound(Column("plugin_configs", "plugin_configs.config")) /\ Sound(Column("plugin_configs", "plugin_configs.config_schema"))
  BY SoundColumn DEF Plain, Needable, Backfills
<1>3. Sound(Always(<<Make({"set:plugin_blobs"})>>))
  BY SoundTable DEF Plain
<1> QED
  BY <1>1, <1>2, <1>3 DEF PluginConfigs

LEMMA SoundFTS5 == \A i \in 1..2 : Sound(FTS5[i])
<1>1. Sound(Unless("messages_fts", <<Make({"messages_fts"}), Make({"set:messages_fts"})>>))
  <2>1. PICK a, b : a = Make({"messages_fts"}) /\ b = Make({"set:messages_fts"})
    OBVIOUS
  <2>2. GoodStmt(a) /\ a.makes = {"messages_fts"} /\ GoodStmt(b) /\ b.makes = {"set:messages_fts"}
    BY <2>1, PlainMake DEF Plain
  <2>3. Whole("messages_fts") = {"messages_fts"}
    BY PlainFacts DEF Plain
  <2> QED
    BY <2>1, <2>2, <2>3, SoundTwo DEF Extra, Backfills
<1>2. Sound(Always(<<Make({"i:messages_ai"}), Make({"i:messages_ad"}), Make({"i:messages_au"})>>))
  <2>1. PICK a, b, c : a = Make({"i:messages_ai"}) /\ b = Make({"i:messages_ad"}) /\ c = Make({"i:messages_au"})
    OBVIOUS
  <2>2. GoodStmt(a) /\ GoodStmt(b) /\ GoodStmt(c)
    BY <2>1, PlainMake DEF Plain
  <2> QED
    BY <2>1, <2>2, SoundThree
<1> QED
  BY <1>1, <1>2 DEF FTS5

LEMMA SoundPinnedMessages == \A i \in 1..2 : Sound(PinnedMessages[i])
<1>1. Sound(Unless("pinned_messages", <<Make({"pinned_messages"})>>)) /\ Sound(Always(<<Make({"i:pinned"})>>))
  BY SoundTable DEF Plain
<1> QED
  BY <1>1 DEF PinnedMessages

LEMMA SoundPMTarget == \A i \in 1..2 : Sound(PMTarget[i])
<1>1. Sound(Column("messages", "messages.pm_target"))
  BY SoundColumn DEF Plain, Needable, Backfills
<1>2. Sound(Always(<<MakeOn({"messages.network_id"}, {"i:pm_target"}), Make({"set:pm_target"})>>))
  <2>1. PICK a, b : a = MakeOn({"messages.network_id"}, {"i:pm_target"}) /\ b = Make({"set:pm_target"})
    OBVIOUS
  <2>2. GoodStmt(a) /\ GoodStmt(b)
    BY <2>1, PlainMake, PlainMakeOn DEF Plain, Needable, Backfills
  <2> QED
    BY <2>1, <2>2, SoundTwo
<1> QED
  BY <1>1, <1>2 DEF PMTarget

LEMMA SoundMessageColumns == \A i \in 1..5 : Sound(MessageColumns[i])
<1>1. /\ Sound(Column("messages", "messages.msgid")) /\ Sound(Column("messages", "messages.reply_msgid"))
      /\ Sound(Column("messages", "messages.channel_context"))
  BY SoundColumn DEF Plain, Needable, Backfills
<1>2. Sound(Always(<<Statement({}, {}, {"i:network_msgid"}), MakeOn({"messages.msgid"}, {"i:conv_msgid"})>>))
  <2>1. PICK a, b : a = Statement({}, {}, {"i:network_msgid"}) /\ b = MakeOn({"messages.msgid"}, {"i:conv_msgid"})
    OBVIOUS
  <2>2. GoodStmt(a)
    <3>1. (\A f \in {} : Needable(f)) /\ (\A f \in {} : Plain(f)) /\ {"i:network_msgid"} \in SUBSET {"i:network_msgid"}
      OBVIOUS
    <3> QED
      BY <2>1, <3>1, PlainStatement
  <2>3. GoodStmt(b)
    BY <2>1, PlainMakeOn DEF Plain, Needable, Backfills
  <2> QED
    BY <2>1, <2>2, <2>3, SoundTwo
<1>3. Sound(Always(<<Make({"set:timestamps"})>>))
  BY SoundTable DEF Plain
<1> QED
  BY <1>1, <1>2, <1>3 DEF MessageColumns

LEMMA SoundTables ==
    ASSUME NEW t, Plain(t), NEW i, Plain(i)
    PROVE  Sound(Always(<<Make({t}), Make({i})>>))
<1>1. PICK a, b : a = Make({t}) /\ b = Make({i})
  OBVIOUS
<1>2. GoodStmt(a) /\ GoodStmt(b)
  BY <1>1, PlainMake
<1> QED
  BY <1>1, <1>2, SoundTwo

LEMMA SoundLaterTables == \A i \in 1..10 : Sound(LaterTables[i])
<1>1. /\ Sound(Table("settings")) /\ Sound(Table("sts_policies")) /\ Sound(Table("monitored_nicks"))
      /\ Sound(Table("script_state")) /\ Sound(Table("link_previews")) /\ Sound(Table("activity_ignored_senders"))
  BY SoundTable DEF Plain
<1>2. Sound(Always(<<Make({"activity_items"}), Make({"i:activity"})>>))
  BY SoundTables DEF Plain
<1>3. Sound(Always(<<Make({"file_transfers"}), Make({"i:file_transfers"})>>))
  BY SoundTables DEF Plain
<1>4. Sound(Column("activity_items", "activity_items.trusted")) /\ Sound(Column("activity_items", "activity_items.expires_at"))
  BY SoundColumn DEF Plain, Needable, Backfills
<1> QED
  BY <1>1, <1>2, <1>3, <1>4 DEF LaterTables

------------------------------------------------------------------------------
(* Where they are *)

Joins(u, s, t, S) ==
    /\ u \in Seq(S) /\ Len(u) = Len(s) + Len(t)
    /\ \A i \in 1..Len(s) : u[i] = s[i]
    /\ \A i \in 1..Len(t) : u[Len(s) + i] = t[i]

LEMMA Joined == ASSUME NEW S, NEW s \in Seq(S), NEW t \in Seq(S) PROVE Joins(s \o t, s, t, S)
  BY DEF Joins

LEMMA Lengths ==
    /\ Len(BaseTables) = 6 /\ Len(ChannelInfo) = 4 /\ Len(NetworkColumns) = 6 /\ Len(ChannelColumns) = 2
    /\ Len(PluginConfigs) = 4 /\ Len(FTS5) = 2 /\ Len(PinnedMessages) = 2 /\ Len(PMTarget) = 2
    /\ Len(MessageColumns) = 5 /\ Len(LaterTables) = 10
  BY DEF BaseTables, ChannelInfo, NetworkColumns, ChannelColumns, PluginConfigs, FTS5, PinnedMessages, PMTarget,
         MessageColumns, LaterTables

InBlock(block, n) == {block[i] : i \in 1..n}

LEMMA Blocks ==
    /\ BaseTables \in Seq(InBlock(BaseTables, 6)) /\ ChannelInfo \in Seq(InBlock(ChannelInfo, 4))
    /\ NetworkColumns \in Seq(InBlock(NetworkColumns, 6)) /\ ChannelColumns \in Seq(InBlock(ChannelColumns, 2))
    /\ PluginConfigs \in Seq(InBlock(PluginConfigs, 4)) /\ FTS5 \in Seq(InBlock(FTS5, 2))
    /\ PinnedMessages \in Seq(InBlock(PinnedMessages, 2)) /\ PMTarget \in Seq(InBlock(PMTarget, 2))
    /\ MessageColumns \in Seq(InBlock(MessageColumns, 5)) /\ LaterTables \in Seq(InBlock(LaterTables, 10))
  BY DEF InBlock, BaseTables, ChannelInfo, NetworkColumns, ChannelColumns, PluginConfigs, FTS5, PinnedMessages, PMTarget,
         MessageColumns, LaterTables

(* All of them *)
Elements ==
    InBlock(BaseTables, 6) \union InBlock(ChannelInfo, 4) \union InBlock(NetworkColumns, 6)
    \union InBlock(ChannelColumns, 2) \union InBlock(PluginConfigs, 4) \union InBlock(FTS5, 2)
    \union InBlock(PinnedMessages, 2) \union InBlock(PMTarget, 2) \union InBlock(MessageColumns, 5)
    \union InBlock(LaterTables, 10) \union {RefactorTables, SASLFields, PrivateMessageConversations}

LEMMA WiderSeq == ASSUME NEW S, NEW T, S \subseteq T, NEW s \in Seq(S) PROVE s \in Seq(T)
  OBVIOUS

LEMMA OneElement == ASSUME NEW S, NEW e \in S PROVE <<e>> \in Seq(S) /\ Len(<<e>>) = 1 /\ <<e>>[1] = e
  OBVIOUS

(* u begins with the n elements of s; after the first o, it has the k of t. *)
Starts(u, s, n)  == \A i \in 1..n : u[i] = s[i]
Has(u, o, t, k) == \A i \in 1..k : u[o + i] = t[i]

Sized(s, n) == s \in Seq(Elements) /\ Len(s) = n

LEMMA Extended ==
    ASSUME NEW s, NEW n \in Nat, Sized(s, n), NEW t, NEW k \in Nat, Sized(t, k), NEW u, u = s \o t
    PROVE  Sized(u, n + k) /\ Starts(u, s, n) /\ Has(u, n, t, k)
<1>1. s \in Seq(Elements) /\ t \in Seq(Elements) /\ Len(s) = n /\ Len(t) = k
  BY DEF Sized
<1> HIDE DEF Elements
<1>2. Joins(u, s, t, Elements)
  BY <1>1, Joined
<1> QED
  BY <1>1, <1>2 DEF Joins, Sized, Starts, Has

LEMMA StartsOn ==
    ASSUME NEW u, NEW s, NEW n \in Nat, Starts(u, s, n), NEW v, NEW m \in Nat, m <= n, Starts(s, v, m)
    PROVE  Starts(u, v, m)
  BY DEF Starts

LEMMA HasOn ==
    ASSUME NEW u, NEW s, NEW n \in Nat, Starts(u, s, n), NEW o \in Nat, NEW t, NEW k \in Nat, o + k <= n, Has(s, o, t, k)
    PROVE  Has(u, o, t, k)
<1>1. ASSUME NEW i \in 1..k PROVE u[o + i] = t[i]
  <2>1. o + i \in 1..n
    OBVIOUS
  <2> QED
    BY <2>1 DEF Starts, Has
<1> QED
  BY <1>1 DEF Has

LEMMA Segments ==
    /\ Sized(Migrate, 46)
    /\ Has(Migrate, 0, <<RefactorTables>>, 1)
    /\ Has(Migrate, 1, BaseTables, 6)
    /\ Has(Migrate, 7, <<SASLFields>>, 1)
    /\ Has(Migrate, 8, ChannelInfo, 4)
    /\ Has(Migrate, 12, NetworkColumns, 6)
    /\ Has(Migrate, 18, ChannelColumns, 2)
    /\ Has(Migrate, 20, <<PrivateMessageConversations>>, 1)
    /\ Has(Migrate, 21, PluginConfigs, 4)
    /\ Has(Migrate, 25, FTS5, 2)
    /\ Has(Migrate, 27, PinnedMessages, 2)
    /\ Has(Migrate, 29, PMTarget, 2)
    /\ Has(Migrate, 31, MessageColumns, 5)
    /\ Has(Migrate, 36, LaterTables, 10)
<1>1. /\ BaseTables \in Seq(Elements) /\ ChannelInfo \in Seq(Elements) /\ NetworkColumns \in Seq(Elements)
      /\ ChannelColumns \in Seq(Elements) /\ PluginConfigs \in Seq(Elements) /\ FTS5 \in Seq(Elements)
      /\ PinnedMessages \in Seq(Elements) /\ PMTarget \in Seq(Elements) /\ MessageColumns \in Seq(Elements)
      /\ LaterTables \in Seq(Elements)
  <2>1. BaseTables \in Seq(Elements)
    <3>1. InBlock(BaseTables, 6) \subseteq Elements
      BY DEF Elements
    <3> QED
      BY <3>1, Blocks, WiderSeq
  <2>2. ChannelInfo \in Seq(Elements)
    <3>1. InBlock(ChannelInfo, 4) \subseteq Elements
      BY DEF Elements
    <3> QED
      BY <3>1, Blocks, WiderSeq
  <2>3. NetworkColumns \in Seq(Elements)
    <3>1. InBlock(NetworkColumns, 6) \subseteq Elements
      BY DEF Elements
    <3> QED
      BY <3>1, Blocks, WiderSeq
  <2>4. ChannelColumns \in Seq(Elements)
    <3>1. InBlock(ChannelColumns, 2) \subseteq Elements
      BY DEF Elements
    <3> QED
      BY <3>1, Blocks, WiderSeq
  <2>5. PluginConfigs \in Seq(Elements)
    <3>1. InBlock(PluginConfigs, 4) \subseteq Elements
      BY DEF Elements
    <3> QED
      BY <3>1, Blocks, WiderSeq
  <2>6. FTS5 \in Seq(Elements)
    <3>1. InBlock(FTS5, 2) \subseteq Elements
      BY DEF Elements
    <3> QED
      BY <3>1, Blocks, WiderSeq
  <2>7. PinnedMessages \in Seq(Elements)
    <3>1. InBlock(PinnedMessages, 2) \subseteq Elements
      BY DEF Elements
    <3> QED
      BY <3>1, Blocks, WiderSeq
  <2>8. PMTarget \in Seq(Elements)
    <3>1. InBlock(PMTarget, 2) \subseteq Elements
      BY DEF Elements
    <3> QED
      BY <3>1, Blocks, WiderSeq
  <2>9. MessageColumns \in Seq(Elements)
    <3>1. InBlock(MessageColumns, 5) \subseteq Elements
      BY DEF Elements
    <3> QED
      BY <3>1, Blocks, WiderSeq
  <2>10. LaterTables \in Seq(Elements)
    <3>1. InBlock(LaterTables, 10) \subseteq Elements
      BY DEF Elements
    <3> QED
      BY <3>1, Blocks, WiderSeq
  <2> QED
    BY <2>1, <2>2, <2>3, <2>4, <2>5, <2>6, <2>7, <2>8, <2>9, <2>10
<1>2. RefactorTables \in Elements /\ SASLFields \in Elements /\ PrivateMessageConversations \in Elements
  BY DEF Elements
<1> HIDE DEF Elements
<1>3. PICK s0 : s0 = <<RefactorTables>>
  OBVIOUS
<1>4. Sized(s0, 1)
  BY <1>3, <1>2, OneElement DEF Sized
<1>5. PICK s1 : s1 = s0 \o BaseTables
  OBVIOUS
<1>6. Sized(s1, 7) /\ Starts(s1, s0, 1) /\ Has(s1, 1, BaseTables, 6)
  <2>1. PICK o, k : o = 1 /\ k = 6 /\ o \in Nat /\ k \in Nat /\ o + k = 7
    OBVIOUS
  <2>2. o \in Nat /\ k \in Nat /\ Sized(s0, o) /\ Sized(BaseTables, k)
    BY <1>4, <1>1, <2>1, Lengths DEF Sized
  <2>3. Sized(s1, o + k) /\ Starts(s1, s0, o) /\ Has(s1, o, BaseTables, k)
    BY <1>5, <2>2, Extended
  <2> QED
    BY <2>1, <2>3
<1>7. PICK s2 : s2 = s1 \o <<SASLFields>>
  OBVIOUS
<1>8. Sized(s2, 8) /\ Starts(s2, s1, 7) /\ Has(s2, 7, <<SASLFields>>, 1)
  <2>1. 7 \in Nat /\ 1 \in Nat /\ 7 + 1 = 8
    OBVIOUS
  <2>2. Sized(<<SASLFields>>, 1)
    BY <1>2, OneElement DEF Sized
  <2>3. Sized(s2, 7 + 1) /\ Starts(s2, s1, 7) /\ Has(s2, 7, <<SASLFields>>, 1)
    BY <1>7, <1>6, <2>1, <2>2, Extended
  <2> QED
    BY <2>1, <2>3
<1>9. PICK s3 : s3 = s2 \o ChannelInfo
  OBVIOUS
<1>10. Sized(s3, 12) /\ Starts(s3, s2, 8) /\ Has(s3, 8, ChannelInfo, 4)
  <2>1. PICK o, k : o = 8 /\ k = 4 /\ o \in Nat /\ k \in Nat /\ o + k = 12
    OBVIOUS
  <2>2. o \in Nat /\ k \in Nat /\ Sized(s2, o) /\ Sized(ChannelInfo, k)
    BY <1>8, <1>1, <2>1, Lengths DEF Sized
  <2>3. Sized(s3, o + k) /\ Starts(s3, s2, o) /\ Has(s3, o, ChannelInfo, k)
    BY <1>9, <2>2, Extended
  <2> QED
    BY <2>1, <2>3
<1>11. PICK s4 : s4 = s3 \o NetworkColumns
  OBVIOUS
<1>12. Sized(s4, 18) /\ Starts(s4, s3, 12) /\ Has(s4, 12, NetworkColumns, 6)
  <2>1. PICK o, k : o = 12 /\ k = 6 /\ o \in Nat /\ k \in Nat /\ o + k = 18
    OBVIOUS
  <2>2. o \in Nat /\ k \in Nat /\ Sized(s3, o) /\ Sized(NetworkColumns, k)
    BY <1>10, <1>1, <2>1, Lengths DEF Sized
  <2>3. Sized(s4, o + k) /\ Starts(s4, s3, o) /\ Has(s4, o, NetworkColumns, k)
    BY <1>11, <2>2, Extended
  <2> QED
    BY <2>1, <2>3
<1>13. PICK s5 : s5 = s4 \o ChannelColumns
  OBVIOUS
<1>14. Sized(s5, 20) /\ Starts(s5, s4, 18) /\ Has(s5, 18, ChannelColumns, 2)
  <2>1. PICK o, k : o = 18 /\ k = 2 /\ o \in Nat /\ k \in Nat /\ o + k = 20
    OBVIOUS
  <2>2. o \in Nat /\ k \in Nat /\ Sized(s4, o) /\ Sized(ChannelColumns, k)
    BY <1>12, <1>1, <2>1, Lengths DEF Sized
  <2>3. Sized(s5, o + k) /\ Starts(s5, s4, o) /\ Has(s5, o, ChannelColumns, k)
    BY <1>13, <2>2, Extended
  <2> QED
    BY <2>1, <2>3
<1>15. PICK s6 : s6 = s5 \o <<PrivateMessageConversations>>
  OBVIOUS
<1>16. Sized(s6, 21) /\ Starts(s6, s5, 20) /\ Has(s6, 20, <<PrivateMessageConversations>>, 1)
  <2>1. 20 \in Nat /\ 1 \in Nat /\ 20 + 1 = 21
    OBVIOUS
  <2>2. Sized(<<PrivateMessageConversations>>, 1)
    BY <1>2, OneElement DEF Sized
  <2>3. Sized(s6, 20 + 1) /\ Starts(s6, s5, 20) /\ Has(s6, 20, <<PrivateMessageConversations>>, 1)
    BY <1>15, <1>14, <2>1, <2>2, Extended
  <2> QED
    BY <2>1, <2>3
<1>17. PICK s7 : s7 = s6 \o PluginConfigs
  OBVIOUS
<1>18. Sized(s7, 25) /\ Starts(s7, s6, 21) /\ Has(s7, 21, PluginConfigs, 4)
  <2>1. PICK o, k : o = 21 /\ k = 4 /\ o \in Nat /\ k \in Nat /\ o + k = 25
    OBVIOUS
  <2>2. o \in Nat /\ k \in Nat /\ Sized(s6, o) /\ Sized(PluginConfigs, k)
    BY <1>16, <1>1, <2>1, Lengths DEF Sized
  <2>3. Sized(s7, o + k) /\ Starts(s7, s6, o) /\ Has(s7, o, PluginConfigs, k)
    BY <1>17, <2>2, Extended
  <2> QED
    BY <2>1, <2>3
<1>19. PICK s8 : s8 = s7 \o FTS5
  OBVIOUS
<1>20. Sized(s8, 27) /\ Starts(s8, s7, 25) /\ Has(s8, 25, FTS5, 2)
  <2>1. PICK o, k : o = 25 /\ k = 2 /\ o \in Nat /\ k \in Nat /\ o + k = 27
    OBVIOUS
  <2>2. o \in Nat /\ k \in Nat /\ Sized(s7, o) /\ Sized(FTS5, k)
    BY <1>18, <1>1, <2>1, Lengths DEF Sized
  <2>3. Sized(s8, o + k) /\ Starts(s8, s7, o) /\ Has(s8, o, FTS5, k)
    BY <1>19, <2>2, Extended
  <2> QED
    BY <2>1, <2>3
<1>21. PICK s9 : s9 = s8 \o PinnedMessages
  OBVIOUS
<1>22. Sized(s9, 29) /\ Starts(s9, s8, 27) /\ Has(s9, 27, PinnedMessages, 2)
  <2>1. PICK o, k : o = 27 /\ k = 2 /\ o \in Nat /\ k \in Nat /\ o + k = 29
    OBVIOUS
  <2>2. o \in Nat /\ k \in Nat /\ Sized(s8, o) /\ Sized(PinnedMessages, k)
    BY <1>20, <1>1, <2>1, Lengths DEF Sized
  <2>3. Sized(s9, o + k) /\ Starts(s9, s8, o) /\ Has(s9, o, PinnedMessages, k)
    BY <1>21, <2>2, Extended
  <2> QED
    BY <2>1, <2>3
<1>23. PICK s10 : s10 = s9 \o PMTarget
  OBVIOUS
<1>24. Sized(s10, 31) /\ Starts(s10, s9, 29) /\ Has(s10, 29, PMTarget, 2)
  <2>1. PICK o, k : o = 29 /\ k = 2 /\ o \in Nat /\ k \in Nat /\ o + k = 31
    OBVIOUS
  <2>2. o \in Nat /\ k \in Nat /\ Sized(s9, o) /\ Sized(PMTarget, k)
    BY <1>22, <1>1, <2>1, Lengths DEF Sized
  <2>3. Sized(s10, o + k) /\ Starts(s10, s9, o) /\ Has(s10, o, PMTarget, k)
    BY <1>23, <2>2, Extended
  <2> QED
    BY <2>1, <2>3
<1>25. PICK s11 : s11 = s10 \o MessageColumns
  OBVIOUS
<1>26. Sized(s11, 36) /\ Starts(s11, s10, 31) /\ Has(s11, 31, MessageColumns, 5)
  <2>1. PICK o, k : o = 31 /\ k = 5 /\ o \in Nat /\ k \in Nat /\ o + k = 36
    OBVIOUS
  <2>2. o \in Nat /\ k \in Nat /\ Sized(s10, o) /\ Sized(MessageColumns, k)
    BY <1>24, <1>1, <2>1, Lengths DEF Sized
  <2>3. Sized(s11, o + k) /\ Starts(s11, s10, o) /\ Has(s11, o, MessageColumns, k)
    BY <1>25, <2>2, Extended
  <2> QED
    BY <2>1, <2>3
<1>27. PICK s12 : s12 = s11 \o LaterTables
  OBVIOUS
<1>28. Sized(s12, 46) /\ Starts(s12, s11, 36) /\ Has(s12, 36, LaterTables, 10)
  <2>1. PICK o, k : o = 36 /\ k = 10 /\ o \in Nat /\ k \in Nat /\ o + k = 46
    OBVIOUS
  <2>2. o \in Nat /\ k \in Nat /\ Sized(s11, o) /\ Sized(LaterTables, k)
    BY <1>26, <1>1, <2>1, Lengths DEF Sized
  <2>3. Sized(s12, o + k) /\ Starts(s12, s11, o) /\ Has(s12, o, LaterTables, k)
    BY <1>27, <2>2, Extended
  <2> QED
    BY <2>1, <2>3
<1>29. Migrate = s12
  BY <1>3, <1>5, <1>7, <1>9, <1>11, <1>13, <1>15, <1>17, <1>19, <1>21, <1>23, <1>25, <1>27, Zenon DEF Migrate
<1>30. Starts(s12, s10, 31)
  BY <1>28, <1>26, StartsOn
<1>31. Starts(s12, s9, 29)
  BY <1>30, <1>24, StartsOn
<1>32. Starts(s12, s8, 27)
  BY <1>31, <1>22, StartsOn
<1>33. Starts(s12, s7, 25)
  BY <1>32, <1>20, StartsOn
<1>34. Starts(s12, s6, 21)
  BY <1>33, <1>18, StartsOn
<1>35. Starts(s12, s5, 20)
  BY <1>34, <1>16, StartsOn
<1>36. Starts(s12, s4, 18)
  BY <1>35, <1>14, StartsOn
<1>37. Starts(s12, s3, 12)
  BY <1>36, <1>12, StartsOn
<1>38. Starts(s12, s2, 8)
  BY <1>37, <1>10, StartsOn
<1>39. Starts(s12, s1, 7)
  BY <1>38, <1>8, StartsOn
<1>40. Starts(s12, s0, 1)
  BY <1>39, <1>6, StartsOn
<1>41. Has(s12, 0, <<RefactorTables>>, 1)
  BY <1>40, <1>3 DEF Starts, Has
<1>42. Has(s12, 1, BaseTables, 6)
  BY <1>39, <1>6, HasOn
<1>43. Has(s12, 7, <<SASLFields>>, 1)
  BY <1>38, <1>8, HasOn
<1>44. Has(s12, 8, ChannelInfo, 4)
  BY <1>37, <1>10, HasOn
<1>45. Has(s12, 12, NetworkColumns, 6)
  BY <1>36, <1>12, HasOn
<1>46. Has(s12, 18, ChannelColumns, 2)
  BY <1>35, <1>14, HasOn
<1>47. Has(s12, 20, <<PrivateMessageConversations>>, 1)
  BY <1>34, <1>16, HasOn
<1>48. Has(s12, 21, PluginConfigs, 4)
  BY <1>33, <1>18, HasOn
<1>49. Has(s12, 25, FTS5, 2)
  BY <1>32, <1>20, HasOn
<1>50. Has(s12, 27, PinnedMessages, 2)
  BY <1>31, <1>22, HasOn
<1>51. Has(s12, 29, PMTarget, 2)
  BY <1>30, <1>24, HasOn
<1>52. Has(s12, 31, MessageColumns, 5)
  BY <1>28, <1>26, HasOn
<1> QED
  BY <1>29, <1>28, <1>41, <1>42, <1>43, <1>44, <1>45, <1>46, <1>47, <1>48, <1>49, <1>50, <1>51, <1>52

LEMMA LengthMigrate == Len(Migrate) = 46
  BY Segments DEF Sized

LEMMA SegmentSound ==
    ASSUME NEW o \in Nat, NEW block, NEW l \in Nat, Has(Migrate, o, block, l), \A i \in 1..l : Sound(block[i])
    PROVE  \A m \in (o + 1)..(o + l) : Sound(Migrate[m])
<1>1. ASSUME NEW m \in (o + 1)..(o + l) PROVE Sound(Migrate[m])
  <2>1. m - o \in 1..l /\ o + (m - o) = m
    OBVIOUS
  <2> QED
    BY <2>1 DEF Has
<1> QED
  BY <1>1

LEMMA EverySound == \A m \in 2..Len(Migrate) : Sound(Migrate[m])
<1>1. \A m \in 2..7 : Sound(Migrate[m])
  <2>1. \A m \in (1 + 1)..(1 + 6) : Sound(Migrate[m])
    BY Segments, SoundBaseTables, SegmentSound
  <2> QED
    BY <2>1
<1>2. \A m \in 8..8 : Sound(Migrate[m])
  BY Segments, SoundSASL DEF Has
<1>3. \A m \in 9..12 : Sound(Migrate[m])
  <2>1. \A m \in (8 + 1)..(8 + 4) : Sound(Migrate[m])
    BY Segments, SoundChannelInfo, SegmentSound
  <2> QED
    BY <2>1
<1>4. \A m \in 13..18 : Sound(Migrate[m])
  <2>1. \A m \in (12 + 1)..(12 + 6) : Sound(Migrate[m])
    BY Segments, SoundNetworkColumns, SegmentSound
  <2> QED
    BY <2>1
<1>5. \A m \in 19..20 : Sound(Migrate[m])
  <2>1. \A m \in (18 + 1)..(18 + 2) : Sound(Migrate[m])
    BY Segments, SoundChannelColumns, SegmentSound
  <2> QED
    BY <2>1
<1>6. \A m \in 21..21 : Sound(Migrate[m])
  BY Segments, SoundConversations DEF Has
<1>7. \A m \in 22..25 : Sound(Migrate[m])
  <2>1. \A m \in (21 + 1)..(21 + 4) : Sound(Migrate[m])
    BY Segments, SoundPluginConfigs, SegmentSound
  <2> QED
    BY <2>1
<1>8. \A m \in 26..27 : Sound(Migrate[m])
  <2>1. \A m \in (25 + 1)..(25 + 2) : Sound(Migrate[m])
    BY Segments, SoundFTS5, SegmentSound
  <2> QED
    BY <2>1
<1>9. \A m \in 28..29 : Sound(Migrate[m])
  <2>1. \A m \in (27 + 1)..(27 + 2) : Sound(Migrate[m])
    BY Segments, SoundPinnedMessages, SegmentSound
  <2> QED
    BY <2>1
<1>10. \A m \in 30..31 : Sound(Migrate[m])
  <2>1. \A m \in (29 + 1)..(29 + 2) : Sound(Migrate[m])
    BY Segments, SoundPMTarget, SegmentSound
  <2> QED
    BY <2>1
<1>11. \A m \in 32..36 : Sound(Migrate[m])
  <2>1. \A m \in (31 + 1)..(31 + 5) : Sound(Migrate[m])
    BY Segments, SoundMessageColumns, SegmentSound
  <2> QED
    BY <2>1
<1>12. \A m \in 37..46 : Sound(Migrate[m])
  <2>1. \A m \in (36 + 1)..(36 + 10) : Sound(Migrate[m])
    BY Segments, SoundLaterTables, SegmentSound
  <2> QED
    BY <2>1
<1>13. ASSUME NEW m \in 2..46 PROVE Sound(Migrate[m])
  <2>1. m \in 2..7 \/ m \in 8..8 \/ m \in 9..12 \/ m \in 13..18 \/ m \in 19..20 \/ m \in 21..21
        \/ m \in 22..25 \/ m \in 26..27 \/ m \in 28..29 \/ m \in 30..31 \/ m \in 32..36 \/ m \in 37..46
    OBVIOUS
  <2> QED
    BY <2>1, <1>1, <1>2, <1>3, <1>4, <1>5, <1>6, <1>7, <1>8, <1>9, <1>10, <1>11, <1>12
<1> QED
  BY <1>13, LengthMigrate

(* What they need, and who provides it *)
Needs(mig) == UNION {mig.stmts[i].needs : i \in DOMAIN mig.stmts}

LEMMA Fields ==
    /\ \A F : Make(F).needs = {} /\ Make(F).makes = F
    /\ \A N, F : MakeOn(N, F).needs = N /\ MakeOn(N, F).makes = F
    /\ \A N, F, D : Statement(N, F, D).needs = N /\ Statement(N, F, D).makes = F /\ Statement(N, F, D).drops = D
  BY DEF Make, MakeOn, Statement

LEMMA OfOne ==
    ASSUME NEW a
    PROVE  /\ Needs(Always(<<a>>)) = a.needs /\ FactsOf(Always(<<a>>)) = a.makes
           /\ \A f : Needs(Unless(f, <<a>>)) = a.needs
  BY DEF Needs, FactsOf, Always, Unless

LEMMA OfTwo ==
    ASSUME NEW a, NEW b
    PROVE  /\ Needs(Always(<<a, b>>)) = a.needs \union b.needs /\ FactsOf(Always(<<a, b>>)) = a.makes \union b.makes
           /\ \A f : Needs(Unless(f, <<a, b>>)) = a.needs \union b.needs
  BY DEF Needs, FactsOf, Always, Unless

LEMMA OfThree ==
    ASSUME NEW a, NEW b, NEW c
    PROVE  /\ Needs(Always(<<a, b, c>>)) = a.needs \union b.needs \union c.needs
           /\ FactsOf(Always(<<a, b, c>>)) = a.makes \union b.makes \union c.makes
  BY DEF Needs, FactsOf, Always

LEMMA NeedsSimple ==
    /\ \A t, c : Needs(Column(t, c)) = {t}
    /\ \A t, cols : Needs(NewTable(t, cols)) = {}
    /\ \A t : Needs(Table(t)) = {}
    /\ \A F : Needs(Always(<<Make(F)>>)) = {} /\ \A f : Needs(Unless(f, <<Make(F)>>)) = {}
    /\ \A F, G : Needs(Always(<<Make(F), Make(G)>>)) = {} /\ \A f : Needs(Unless(f, <<Make(F), Make(G)>>)) = {}
    /\ \A F, G, H : Needs(Always(<<Make(F), Make(G), Make(H)>>)) = {}
<1>1. \A t, c : Needs(Column(t, c)) = {t}
  BY OfOne, Fields DEF Column
<1>2. \A F : Needs(Always(<<Make(F)>>)) = {} /\ \A f : Needs(Unless(f, <<Make(F)>>)) = {}
  BY OfOne, Fields
<1>3. \A F, G : Needs(Always(<<Make(F), Make(G)>>)) = {} /\ \A f : Needs(Unless(f, <<Make(F), Make(G)>>)) = {}
  BY OfTwo, Fields
<1>4. \A F, G, H : Needs(Always(<<Make(F), Make(G), Make(H)>>)) = {}
  BY OfThree, Fields
<1> QED
  BY <1>1, <1>2, <1>3, <1>4 DEF NewTable, Table

LEMMA NeedsInBlocks ==
    /\ \A i \in 1..5 : Needs(BaseTables[i]) = {}
    /\ Needs(BaseTables[6]) = {"messages.network_id", "servers.network_id"}
    /\ Needs(SASLFields) = {"networks"}
    /\ \A i \in 1..4 : Needs(ChannelInfo[i]) \subseteq {"channels"}
    /\ \A i \in 1..6 : Needs(NetworkColumns[i]) \subseteq {"networks"}
    /\ \A i \in 1..2 : Needs(ChannelColumns[i]) \subseteq {"channels"}
    /\ Needs(PrivateMessageConversations) = {"messages.network_id"}
    /\ Needs(PluginConfigs[1]) = {} /\ \A i \in 2..4 : Needs(PluginConfigs[i]) \subseteq {"plugin_configs"}
    /\ \A i \in 1..2 : Needs(FTS5[i]) = {} /\ Needs(PinnedMessages[i]) = {}
    /\ \A i \in 1..2 : Needs(PMTarget[i]) \subseteq {"messages", "messages.network_id"}
    /\ Needs(MessageColumns[1]) = {"messages"} /\ \A i \in 2..5 : Needs(MessageColumns[i]) \subseteq {"messages", "messages.msgid"}
    /\ \A i \in 1..6 : Needs(LaterTables[i]) = {}
    /\ \A i \in 7..10 : Needs(LaterTables[i]) \subseteq {"activity_items"}
<1>1. (\A i \in 1..5 : Needs(BaseTables[i]) = {}) /\ Needs(BaseTables[6]) = {"messages.network_id", "servers.network_id"}
  <2>1. \A i \in 1..5 : Needs(BaseTables[i]) = {}
    BY NeedsSimple DEF BaseTables
  <2>2. Needs(BaseTables[6]) = {"messages.network_id"} \union {} \union {"servers.network_id"}
    BY OfThree, Fields DEF BaseTables
  <2> QED
    BY <2>1, <2>2
<1>2. Needs(SASLFields) = {"networks"}
  BY SASLShape DEF Needs
<1>3. \A i \in 1..4 : Needs(ChannelInfo[i]) \subseteq {"channels"}
  <2>1. Needs(ChannelInfo[3]) = {"channels"} \union {}
    BY OfTwo, Fields DEF ChannelInfo
  <2>2. Needs(ChannelInfo[1]) = {"channels"} /\ Needs(ChannelInfo[2]) = {"channels"} /\ Needs(ChannelInfo[4]) = {}
    BY NeedsSimple DEF ChannelInfo
  <2> QED
    BY <2>1, <2>2
<1>4. \A i \in 1..6 : Needs(NetworkColumns[i]) \subseteq {"networks"}
  BY NeedsSimple DEF NetworkColumns
<1>5. \A i \in 1..2 : Needs(ChannelColumns[i]) \subseteq {"channels"}
  BY NeedsSimple DEF ChannelColumns
<1>6. Needs(PrivateMessageConversations) = {"messages.network_id"}
  <2>1. Needs(PrivateMessageConversations) = {} \union {"messages.network_id"}
    BY OfTwo, Fields DEF PrivateMessageConversations
  <2> QED
    BY <2>1
<1>7. Needs(PluginConfigs[1]) = {} /\ \A i \in 2..4 : Needs(PluginConfigs[i]) \subseteq {"plugin_configs"}
  BY NeedsSimple DEF PluginConfigs
<1>8. \A i \in 1..2 : Needs(FTS5[i]) = {} /\ Needs(PinnedMessages[i]) = {}
  <2>1. Needs(FTS5[1]) = {} /\ Needs(FTS5[2]) = {}
    BY NeedsSimple DEF FTS5
  <2>2. Needs(PinnedMessages[1]) = {} /\ Needs(PinnedMessages[2]) = {}
    BY NeedsSimple DEF PinnedMessages
  <2> QED
    BY <2>1, <2>2
<1>9. \A i \in 1..2 : Needs(PMTarget[i]) \subseteq {"messages", "messages.network_id"}
  <2>1. Needs(PMTarget[1]) = {"messages"}
    BY NeedsSimple DEF PMTarget
  <2>2. Needs(PMTarget[2]) = {"messages.network_id"} \union {}
    BY OfTwo, Fields DEF PMTarget
  <2> QED
    BY <2>1, <2>2
<1>10. /\ Needs(MessageColumns[1]) = {"messages"}
       /\ \A i \in 2..5 : Needs(MessageColumns[i]) \subseteq {"messages", "messages.msgid"}
  <2>1. /\ Needs(MessageColumns[1]) = {"messages"} /\ Needs(MessageColumns[3]) = {"messages"}
        /\ Needs(MessageColumns[4]) = {"messages"} /\ Needs(MessageColumns[5]) = {}
    BY NeedsSimple DEF MessageColumns
  <2>2. Needs(MessageColumns[2]) = {} \union {"messages.msgid"}
    BY OfTwo, Fields DEF MessageColumns
  <2> QED
    BY <2>1, <2>2
<1>11. (\A i \in 1..6 : Needs(LaterTables[i]) = {}) /\ \A i \in 7..10 : Needs(LaterTables[i]) \subseteq {"activity_items"}
  <2>1. /\ Needs(LaterTables[1]) = {} /\ Needs(LaterTables[2]) = {} /\ Needs(LaterTables[3]) = {}
        /\ Needs(LaterTables[4]) = {} /\ Needs(LaterTables[5]) = {} /\ Needs(LaterTables[6]) = {}
    BY NeedsSimple DEF LaterTables
  <2>2. /\ Needs(LaterTables[7]) = {"activity_items"} /\ Needs(LaterTables[8]) = {"activity_items"}
        /\ Needs(LaterTables[9]) = {} /\ Needs(LaterTables[10]) = {}
    BY NeedsSimple DEF LaterTables
  <2> QED
    BY <2>1, <2>2
<1> QED
  BY <1>1, <1>2, <1>3, <1>4, <1>5, <1>6, <1>7, <1>8, <1>9, <1>10, <1>11

LEMMA Providers ==
    /\ "networks" \in Provided(2) /\ "servers.network_id" \in Provided(3) /\ "channels" \in Provided(4)
    /\ {"messages", "messages.network_id"} \subseteq Provided(6) /\ "plugin_configs" \in Provided(22)
    /\ "messages.msgid" \in Provided(32) /\ "activity_items" \in Provided(42)
<1>1. ASSUME NEW m, NEW f, NEW stmts, Migrate[m] = Unless(f, stmts) PROVE Provided(m) = Whole(f)
  BY <1>1 DEF Provided, Unless
<1>2. /\ Migrate[2] = NewTable("networks", {})
      /\ Migrate[3] = NewTable("servers", {"servers.network_id"})
      /\ Migrate[4] = NewTable("channels", {"channels.network_id", "channels.topic", "channels.modes", "channels.updated_at"})
      /\ Migrate[6] = NewTable("messages", {"messages.network_id", "messages.pm_target"})
  <2>1. /\ Migrate[1 + 1] = BaseTables[1] /\ Migrate[1 + 2] = BaseTables[2] /\ Migrate[1 + 3] = BaseTables[3]
        /\ Migrate[1 + 5] = BaseTables[5]
    BY Segments DEF Has
  <2> QED
    BY <2>1 DEF BaseTables
<1>3. Migrate[22] = Unless("plugin_configs", <<Make({"plugin_configs", "plugin_configs.config", "plugin_configs.config_schema"})>>)
  <2>1. Migrate[21 + 1] = PluginConfigs[1]
    BY Segments DEF Has
  <2> QED
    BY <2>1 DEF PluginConfigs
<1>4. Migrate[32] = Column("messages", "messages.msgid")
  <2>1. Migrate[31 + 1] = MessageColumns[1]
    BY Segments DEF Has
  <2> QED
    BY <2>1 DEF MessageColumns
<1>5. Migrate[42] = Always(<<Make({"activity_items"}), Make({"i:activity"})>>)
  <2>1. Migrate[36 + 6] = LaterTables[6]
    BY Segments DEF Has
  <2> QED
    BY <2>1 DEF LaterTables
<1>6. Provided(42) = {"activity_items"} \union {"i:activity"}
  <2>1. Migrate[42].unless = {} /\ Facts(42) = FactsOf(Migrate[42])
    BY <1>5 DEF Always, Facts, FactsOf
  <2> QED
    BY <1>5, <2>1, OfTwo, Fields DEF Provided
<1>7. /\ Provided(2) = Whole("networks") /\ Provided(3) = Whole("servers") /\ Provided(4) = Whole("channels")
      /\ Provided(6) = Whole("messages")
  BY <1>1, <1>2 DEF NewTable
<1>8. Provided(22) = Whole("plugin_configs") /\ Provided(32) = Whole("messages.msgid")
  BY <1>1, <1>3, <1>4 DEF Column
<1> QED
  BY <1>6, <1>7, <1>8 DEF Whole

(* Every migration finds what it needs provided by an earlier one. *)
Earlier(m, f) == \E j \in 2..(m - 1) : f \in Provided(j)

LEMMA EveryProvided == \A m \in 2..Len(Migrate) : \A f \in Needs(Migrate[m]) : Earlier(m, f)
<1>1. ASSUME NEW m \in 2..46, NEW j \in 2..46, j < m, NEW f \in Provided(j) PROVE Earlier(m, f)
  BY <1>1 DEF Earlier
<1> DEFINE Met(m) == \A f \in Needs(Migrate[m]) : Earlier(m, f)
<1>2. \A m \in 2..6 : Met(m)
  <2>1. Has(Migrate, 1, BaseTables, 6)
    BY Segments
  <2>2. \A i \in 1..5 : Needs(BaseTables[i]) \subseteq {}
    BY NeedsInBlocks
  <2>3. ASSUME NEW m \in 2..6 PROVE Met(m)
    <3>1. m - 1 \in 1..5 /\ m - 1 \in 1..6 /\ 1 + (m - 1) = m
      OBVIOUS
    <3>2. Needs(Migrate[m]) \subseteq {}
      BY <2>1, <2>2, <3>1 DEF Has
    <3> QED
      BY <3>2
  <2> QED
    BY <2>3
<1>3. Met(7)
  <2>1. Migrate[1 + 6] = BaseTables[6]
    BY Segments DEF Has
  <2>2. Needs(Migrate[7]) = {"messages.network_id", "servers.network_id"}
    BY <2>1, NeedsInBlocks
  <2>3. Earlier(7, "messages.network_id") /\ Earlier(7, "servers.network_id")
    BY <1>1, Providers
  <2> QED
    BY <2>2, <2>3
<1>4. Met(8)
  <2>1. Migrate[7 + 1] = SASLFields
    BY Segments DEF Has
  <2>2. Needs(Migrate[8]) = {"networks"}
    BY <2>1, NeedsInBlocks
  <2>3. Earlier(8, "networks")
    BY <1>1, Providers
  <2> QED
    BY <2>2, <2>3
<1>5. \A m \in 9..12 : Met(m)
  <2>1. Has(Migrate, 8, ChannelInfo, 4)
    BY Segments
  <2>2. \A i \in 1..4 : Needs(ChannelInfo[i]) \subseteq {"channels"}
    BY NeedsInBlocks
  <2>3. ASSUME NEW m \in 9..12 PROVE Met(m)
    <3>1. m - 8 \in 1..4 /\ m - 8 \in 1..4 /\ 8 + (m - 8) = m
      OBVIOUS
    <3>2. Needs(Migrate[m]) \subseteq {"channels"}
      BY <2>1, <2>2, <3>1 DEF Has
    <3>3. Earlier(m, "channels")
      BY <1>1, Providers
    <3> QED
      BY <3>2, <3>3
  <2> QED
    BY <2>3
<1>6. \A m \in 13..18 : Met(m)
  <2>1. Has(Migrate, 12, NetworkColumns, 6)
    BY Segments
  <2>2. \A i \in 1..6 : Needs(NetworkColumns[i]) \subseteq {"networks"}
    BY NeedsInBlocks
  <2>3. ASSUME NEW m \in 13..18 PROVE Met(m)
    <3>1. m - 12 \in 1..6 /\ m - 12 \in 1..6 /\ 12 + (m - 12) = m
      OBVIOUS
    <3>2. Needs(Migrate[m]) \subseteq {"networks"}
      BY <2>1, <2>2, <3>1 DEF Has
    <3>3. Earlier(m, "networks")
      BY <1>1, Providers
    <3> QED
      BY <3>2, <3>3
  <2> QED
    BY <2>3
<1>7. \A m \in 19..20 : Met(m)
  <2>1. Has(Migrate, 18, ChannelColumns, 2)
    BY Segments
  <2>2. \A i \in 1..2 : Needs(ChannelColumns[i]) \subseteq {"channels"}
    BY NeedsInBlocks
  <2>3. ASSUME NEW m \in 19..20 PROVE Met(m)
    <3>1. m - 18 \in 1..2 /\ m - 18 \in 1..2 /\ 18 + (m - 18) = m
      OBVIOUS
    <3>2. Needs(Migrate[m]) \subseteq {"channels"}
      BY <2>1, <2>2, <3>1 DEF Has
    <3>3. Earlier(m, "channels")
      BY <1>1, Providers
    <3> QED
      BY <3>2, <3>3
  <2> QED
    BY <2>3
<1>8. Met(21)
  <2>1. Migrate[20 + 1] = PrivateMessageConversations
    BY Segments DEF Has
  <2>2. Needs(Migrate[21]) = {"messages.network_id"}
    BY <2>1, NeedsInBlocks
  <2>3. Earlier(21, "messages.network_id")
    BY <1>1, Providers
  <2> QED
    BY <2>2, <2>3
<1>9. Met(22)
  <2>1. Migrate[21 + 1] = PluginConfigs[1]
    BY Segments DEF Has
  <2>2. Needs(Migrate[22]) = {}
    BY <2>1, NeedsInBlocks
  <2> QED
    BY <2>2
<1>10. \A m \in 23..25 : Met(m)
  <2>1. Has(Migrate, 21, PluginConfigs, 4)
    BY Segments
  <2>2. \A i \in 2..4 : Needs(PluginConfigs[i]) \subseteq {"plugin_configs"}
    BY NeedsInBlocks
  <2>3. ASSUME NEW m \in 23..25 PROVE Met(m)
    <3>1. m - 21 \in 2..4 /\ m - 21 \in 1..4 /\ 21 + (m - 21) = m
      OBVIOUS
    <3>2. Needs(Migrate[m]) \subseteq {"plugin_configs"}
      BY <2>1, <2>2, <3>1 DEF Has
    <3>3. Earlier(m, "plugin_configs")
      BY <1>1, Providers
    <3> QED
      BY <3>2, <3>3
  <2> QED
    BY <2>3
<1>11. \A m \in 26..27 : Met(m)
  <2>1. Has(Migrate, 25, FTS5, 2)
    BY Segments
  <2>2. \A i \in 1..2 : Needs(FTS5[i]) \subseteq {}
    BY NeedsInBlocks
  <2>3. ASSUME NEW m \in 26..27 PROVE Met(m)
    <3>1. m - 25 \in 1..2 /\ m - 25 \in 1..2 /\ 25 + (m - 25) = m
      OBVIOUS
    <3>2. Needs(Migrate[m]) \subseteq {}
      BY <2>1, <2>2, <3>1 DEF Has
    <3> QED
      BY <3>2
  <2> QED
    BY <2>3
<1>12. \A m \in 28..29 : Met(m)
  <2>1. Has(Migrate, 27, PinnedMessages, 2)
    BY Segments
  <2>2. \A i \in 1..2 : Needs(PinnedMessages[i]) \subseteq {}
    BY NeedsInBlocks
  <2>3. ASSUME NEW m \in 28..29 PROVE Met(m)
    <3>1. m - 27 \in 1..2 /\ m - 27 \in 1..2 /\ 27 + (m - 27) = m
      OBVIOUS
    <3>2. Needs(Migrate[m]) \subseteq {}
      BY <2>1, <2>2, <3>1 DEF Has
    <3> QED
      BY <3>2
  <2> QED
    BY <2>3
<1>13. \A m \in 30..31 : Met(m)
  <2>1. Has(Migrate, 29, PMTarget, 2)
    BY Segments
  <2>2. \A i \in 1..2 : Needs(PMTarget[i]) \subseteq {"messages", "messages.network_id"}
    BY NeedsInBlocks
  <2>3. ASSUME NEW m \in 30..31 PROVE Met(m)
    <3>1. m - 29 \in 1..2 /\ m - 29 \in 1..2 /\ 29 + (m - 29) = m
      OBVIOUS
    <3>2. Needs(Migrate[m]) \subseteq {"messages", "messages.network_id"}
      BY <2>1, <2>2, <3>1 DEF Has
    <3>3. Earlier(m, "messages") /\ Earlier(m, "messages.network_id")
      BY <1>1, Providers
    <3> QED
      BY <3>2, <3>3
  <2> QED
    BY <2>3
<1>14. Met(32)
  <2>1. Migrate[31 + 1] = MessageColumns[1]
    BY Segments DEF Has
  <2>2. Needs(Migrate[32]) = {"messages"}
    BY <2>1, NeedsInBlocks
  <2>3. Earlier(32, "messages")
    BY <1>1, Providers
  <2> QED
    BY <2>2, <2>3
<1>15. \A m \in 33..36 : Met(m)
  <2>1. Has(Migrate, 31, MessageColumns, 5)
    BY Segments
  <2>2. \A i \in 2..5 : Needs(MessageColumns[i]) \subseteq {"messages", "messages.msgid"}
    BY NeedsInBlocks
  <2>3. ASSUME NEW m \in 33..36 PROVE Met(m)
    <3>1. m - 31 \in 2..5 /\ m - 31 \in 1..5 /\ 31 + (m - 31) = m
      OBVIOUS
    <3>2. Needs(Migrate[m]) \subseteq {"messages", "messages.msgid"}
      BY <2>1, <2>2, <3>1 DEF Has
    <3>3. Earlier(m, "messages") /\ Earlier(m, "messages.msgid")
      BY <1>1, Providers
    <3> QED
      BY <3>2, <3>3
  <2> QED
    BY <2>3
<1>16. \A m \in 37..42 : Met(m)
  <2>1. Has(Migrate, 36, LaterTables, 10)
    BY Segments
  <2>2. \A i \in 1..6 : Needs(LaterTables[i]) \subseteq {}
    BY NeedsInBlocks
  <2>3. ASSUME NEW m \in 37..42 PROVE Met(m)
    <3>1. m - 36 \in 1..6 /\ m - 36 \in 1..10 /\ 36 + (m - 36) = m
      OBVIOUS
    <3>2. Needs(Migrate[m]) \subseteq {}
      BY <2>1, <2>2, <3>1 DEF Has
    <3> QED
      BY <3>2
  <2> QED
    BY <2>3
<1>17. \A m \in 43..46 : Met(m)
  <2>1. Has(Migrate, 36, LaterTables, 10)
    BY Segments
  <2>2. \A i \in 7..10 : Needs(LaterTables[i]) \subseteq {"activity_items"}
    BY NeedsInBlocks
  <2>3. ASSUME NEW m \in 43..46 PROVE Met(m)
    <3>1. m - 36 \in 7..10 /\ m - 36 \in 1..10 /\ 36 + (m - 36) = m
      OBVIOUS
    <3>2. Needs(Migrate[m]) \subseteq {"activity_items"}
      BY <2>1, <2>2, <3>1 DEF Has
    <3>3. Earlier(m, "activity_items")
      BY <1>1, Providers
    <3> QED
      BY <3>2, <3>3
  <2> QED
    BY <2>3
<1> HIDE DEF Met
<1>18. ASSUME NEW m \in 2..46 PROVE Met(m)
  <2>1. \/ m \in 2..6 \/ m \in 7..7 \/ m \in 8..8 \/ m \in 9..12 \/ m \in 13..18 \/ m \in 19..20 \/ m \in 21..21 \/ m \in 22..22
        \/ m \in 23..25 \/ m \in 26..27 \/ m \in 28..29 \/ m \in 30..31 \/ m \in 32..32 \/ m \in 33..36 \/ m \in 37..42 \/ m \in 43..46
    OBVIOUS
  <2> QED
    BY <2>1, <1>2, <1>3, <1>4, <1>5, <1>6, <1>7, <1>8, <1>9, <1>10, <1>11, <1>12, <1>13, <1>14, <1>15, <1>16, <1>17
<1> QED
  BY <1>18, LengthMigrate DEF Met

------------------------------------------------------------------------------
(* What the properties ask of the migrations *)

AlwaysMakes(f) == \E m \in 2..Len(Migrate) : Migrate[m].unless = {} /\ f \in Facts(m)
AlwaysDrops(f) == \E m \in 2..Len(Migrate) : Migrate[m].unless = {} /\ \E s \in DOMAIN Migrate[m].stmts : f \in Migrate[m].stmts[s].drops

LEMMA FactsAt == \A m : Facts(m) = FactsOf(Migrate[m])
  BY DEF Facts, FactsOf

LEMMA AlwaysOf ==
    ASSUME NEW m \in 2..46, NEW stmts, Migrate[m] = Always(stmts), NEW f \in FactsOf(Migrate[m])
    PROVE  AlwaysMakes(f)
  BY LengthMigrate, FactsAt DEF Always, AlwaysMakes

LEMMA RetriedMakes ==
    \A f \in {"set:pm_target", "set:sort_order", "set:plugin_blobs", "set:timestamps",
               "i:messages_ai", "i:messages_ad", "i:messages_au", "i:conv_msgid"} : AlwaysMakes(f)
<1>1. AlwaysMakes("set:pm_target")
  <2>1. Migrate[29 + 2] = PMTarget[2]
    BY Segments DEF Has
  <2>2. Migrate[31] = Always(<<MakeOn({"messages.network_id"}, {"i:pm_target"}), Make({"set:pm_target"})>>)
    BY <2>1 DEF PMTarget
  <2>3. FactsOf(Migrate[31]) = {"i:pm_target"} \union {"set:pm_target"}
    BY <2>2, OfTwo, Fields
  <2> QED
    BY <2>2, <2>3, AlwaysOf
<1>2. AlwaysMakes("set:sort_order")
  <2>1. Migrate[12 + 6] = NetworkColumns[6]
    BY Segments DEF Has
  <2>2. Migrate[18] = Always(<<Make({"set:sort_order"})>>)
    BY <2>1 DEF NetworkColumns
  <2>3. FactsOf(Migrate[18]) = {"set:sort_order"}
    BY <2>2, OfOne, Fields
  <2> QED
    BY <2>2, <2>3, AlwaysOf
<1>3. AlwaysMakes("set:plugin_blobs")
  <2>1. Migrate[21 + 4] = PluginConfigs[4]
    BY Segments DEF Has
  <2>2. Migrate[25] = Always(<<Make({"set:plugin_blobs"})>>)
    BY <2>1 DEF PluginConfigs
  <2>3. FactsOf(Migrate[25]) = {"set:plugin_blobs"}
    BY <2>2, OfOne, Fields
  <2> QED
    BY <2>2, <2>3, AlwaysOf
<1>4. AlwaysMakes("set:timestamps")
  <2>1. Migrate[31 + 5] = MessageColumns[5]
    BY Segments DEF Has
  <2>2. Migrate[36] = Always(<<Make({"set:timestamps"})>>)
    BY <2>1 DEF MessageColumns
  <2>3. FactsOf(Migrate[36]) = {"set:timestamps"}
    BY <2>2, OfOne, Fields
  <2> QED
    BY <2>2, <2>3, AlwaysOf
<1>5. AlwaysMakes("i:messages_ai") /\ AlwaysMakes("i:messages_ad") /\ AlwaysMakes("i:messages_au")
  <2>1. Migrate[25 + 2] = FTS5[2]
    BY Segments DEF Has
  <2>2. Migrate[27] = Always(<<Make({"i:messages_ai"}), Make({"i:messages_ad"}), Make({"i:messages_au"})>>)
    BY <2>1 DEF FTS5
  <2>3. FactsOf(Migrate[27]) = {"i:messages_ai"} \union {"i:messages_ad"} \union {"i:messages_au"}
    BY <2>2, OfThree, Fields
  <2>4. /\ "i:messages_ai" \in FactsOf(Migrate[27]) /\ "i:messages_ad" \in FactsOf(Migrate[27])
        /\ "i:messages_au" \in FactsOf(Migrate[27])
    BY <2>3
  <2> QED
    BY <2>2, <2>4, AlwaysOf
<1>6. AlwaysMakes("i:conv_msgid")
  <2>1. Migrate[31 + 2] = MessageColumns[2]
    BY Segments DEF Has
  <2>2. Migrate[33] = Always(<<Statement({}, {}, {"i:network_msgid"}), MakeOn({"messages.msgid"}, {"i:conv_msgid"})>>)
    BY <2>1 DEF MessageColumns
  <2>3. FactsOf(Migrate[33]) = {} \union {"i:conv_msgid"}
    BY <2>2, OfTwo, Fields
  <2> QED
    BY <2>2, <2>3, AlwaysOf
<1> QED
  BY <1>1, <1>2, <1>3, <1>4, <1>5, <1>6

LEMMA RetriedDrops == AlwaysDrops("i:network_msgid")
<1>1. Migrate[31 + 2] = MessageColumns[2]
  BY Segments DEF Has
<1>2. PICK a, b : /\ a = Statement({}, {}, {"i:network_msgid"})
                  /\ Migrate[33] = Always(<<a, b>>)
  <2>1. Migrate[33] = Always(<<Statement({}, {}, {"i:network_msgid"}), MakeOn({"messages.msgid"}, {"i:conv_msgid"})>>)
    BY <1>1 DEF MessageColumns
  <2> QED
    BY <2>1
<1>3. a.drops = {"i:network_msgid"}
  BY <1>2, Fields
<1>4. Migrate[33].unless = {} /\ DOMAIN Migrate[33].stmts = 1..2 /\ Migrate[33].stmts[1] = a
  BY <1>2 DEF Always
<1>5. 33 \in 2..Len(Migrate)
  BY LengthMigrate
<1>6. 1 \in DOMAIN Migrate[33].stmts /\ "i:network_msgid" \in Migrate[33].stmts[1].drops
  BY <1>3, <1>4
<1> QED
  BY <1>4, <1>5, <1>6 DEF AlwaysDrops

(* A late column is what a migration of its own is about. *)
LEMMA LateProvided == \A f \in LateColumns : \E m \in 2..Len(Migrate) : f \in Provided(m)
<1>1. \A m \in 2..46 : \A f, stmts : Migrate[m] = Unless(f, stmts) => \E k \in 2..Len(Migrate) : f \in Provided(k)
  <2>1. ASSUME NEW m \in 2..46, NEW f, NEW stmts, Migrate[m] = Unless(f, stmts)
        PROVE  \E k \in 2..Len(Migrate) : f \in Provided(k)
    <3>1. Migrate[m].unless = {f}
      BY <2>1 DEF Unless
    <3>2. f \in Provided(m)
      BY <3>1 DEF Provided, Whole
    <3> QED
      BY <3>2, LengthMigrate
  <2> QED
    BY <2>1
<1>2. /\ Migrate[8 + 1] = ChannelInfo[1] /\ Migrate[8 + 2] = ChannelInfo[2] /\ Migrate[8 + 3] = ChannelInfo[3]
      /\ Migrate[29 + 1] = PMTarget[1] /\ Migrate[21 + 2] = PluginConfigs[2] /\ Migrate[21 + 3] = PluginConfigs[3]
  BY Segments DEF Has
<1>3. /\ Migrate[9] = Column("channels", "channels.topic") /\ Migrate[10] = Column("channels", "channels.modes")
      /\ Migrate[11] = Unless("channels.updated_at", <<MakeOn({"channels"}, {"channels.updated_at"}), Make({"set:updated_at"})>>)
  BY <1>2 DEF ChannelInfo
<1>4. Migrate[30] = Column("messages", "messages.pm_target")
  BY <1>2 DEF PMTarget
<1>5. /\ Migrate[23] = Column("plugin_configs", "plugin_configs.config")
      /\ Migrate[24] = Column("plugin_configs", "plugin_configs.config_schema")
  BY <1>2 DEF PluginConfigs
<1>6. \A f \in LateColumns :
            f = "channels.topic" \/ f = "channels.modes" \/ f = "channels.updated_at" \/ f = "messages.pm_target"
             \/ f = "plugin_configs.config" \/ f = "plugin_configs.config_schema"
  BY DEF LateColumns, LaterColumns
<1> DEFINE Late(f) == \E m \in 2..Len(Migrate) : f \in Provided(m)
<1>7. \A m \in 2..46 : \A t, f : Migrate[m] = Column(t, f) => Late(f)
  BY <1>1 DEF Column
<1>8. Late("channels.updated_at")
  BY <1>1, <1>3
<1> HIDE DEF Late
<1>9. Late("channels.topic") /\ Late("channels.modes") /\ Late("messages.pm_target")
  BY <1>3, <1>4, <1>7
<1>10. Late("plugin_configs.config") /\ Late("plugin_configs.config_schema")
  BY <1>5, <1>7
<1>11. \A f \in LateColumns : Late(f)
  BY <1>6, <1>8, <1>9, <1>10
<1> QED
  BY <1>11 DEF Late

(* The schema of this version is what the migrations provide. *)
LEMMA SchemaProvided == \A f \in Schema : \E m \in 2..Len(Migrate) : f \in Provided(m)
<1>1. ASSUME NEW f \in Schema PROVE \E m \in 2..Len(Migrate) : f \in Provided(m)
  <2>1. PICK m \in 2..Len(Migrate) : f \in FactsOf(Migrate[m])
    <3>1. \E m \in 2..Len(Migrate) : f \in Facts(m)
      BY DEF Schema, FactsFrom
    <3> QED
      BY <3>1, FactsAt
  <2>2. f \notin Backfills
    BY DEF Schema
  <2>3. Sound(Migrate[m])
    BY EverySound
  <2>4. CASE Migrate[m].unless = {}
    BY <2>1, <2>4, FactsAt DEF Provided
  <2>5. CASE Migrate[m].unless # {}
    <3>1. PICK g \in Migrate[m].unless : f \in Whole(g) \union LateColumns
      BY <2>1, <2>2, <2>3, <2>5 DEF Sound
    <3>2. CASE f \in Whole(g)
      BY <2>5, <3>1, <3>2 DEF Provided
    <3> QED
      BY <3>1, <3>2, LateProvided
  <2> QED
    BY <2>4, <2>5
<1> QED
  BY <1>1

LEMMA SchemaKept == "i:network_msgid" \notin Schema /\ \A m \in 2..Len(Migrate) : Needs(Migrate[m]) \subseteq Schema
<1>1. "i:network_msgid" \notin Schema
  <2>1. ASSUME NEW m \in 2..Len(Migrate) PROVE "i:network_msgid" \notin Facts(m)
    BY EverySound, FactsAt DEF Sound, SoundStmt, FactsOf
  <2> QED
    BY <2>1 DEF Schema, FactsFrom
<1>2. ASSUME NEW m \in 2..Len(Migrate), NEW f \in Needs(Migrate[m]) PROVE f \in Schema
  <2>1. PICK j \in 2..(m - 1) : f \in Provided(j)
    BY EveryProvided DEF Earlier
  <2>2. j \in 2..Len(Migrate)
    BY LengthMigrate
  <2>3. f \in Facts(j)
    <3>1. Sound(Migrate[j])
      BY <2>2, EverySound
    <3> QED
      BY <2>1, <3>1, FactsAt DEF Provided, Sound
  <2>4. f \notin Backfills \union {"set:pm_target"}
    <3>1. Sound(Migrate[m])
      BY EverySound
    <3>2. PICK i \in DOMAIN Migrate[m].stmts : f \in Migrate[m].stmts[i].needs
      BY DEF Needs
    <3>3. SoundStmt(Migrate[m].stmts[i])
      BY <3>1 DEF Sound
    <3> QED
      BY <3>2, <3>3 DEF SoundStmt
  <2> QED
    BY <2>2, <2>3, <2>4 DEF Schema, FactsFrom
<1> QED
  BY <1>1, <1>2

LEMMA SettingsInSchema == "settings" \in Schema
<1>1. Migrate[36 + 1] = LaterTables[1]
  BY Segments DEF Has
<1>2. Migrate[37] = Always(<<Make({"settings"})>>)
  BY <1>1 DEF LaterTables, Table
<1>3. "settings" \in Facts(37)
  BY <1>2, OfOne, Fields, FactsAt
<1>4. 37 \in 2..Len(Migrate)
  BY LengthMigrate
<1>5. "settings" \notin Backfills \union {"set:pm_target"}
  BY DEF Backfills
<1> QED
  BY <1>3, <1>4, <1>5 DEF Schema, FactsFrom

------------------------------------------------------------------------------
(* The first migration *)

LEMMA RefactorShape ==
    /\ Migrate[1] = RefactorTables /\ Migrate[1].unless = {"networks", "servers"}
    /\ Len(Migrate[1].stmts) = 6 /\ DOMAIN Migrate[1].stmts = 1..6
<1>1. Migrate[1] = RefactorTables
  <2>1. Migrate[0 + 1] = <<RefactorTables>>[1]
    BY Segments DEF Has
  <2> QED
    BY <2>1
<1> QED
  BY <1>1 DEF RefactorTables

LEMMA OldStatements ==
    /\ \A s \in 1..5 : /\ RefactorTables.stmts[s].once = TRUE
                       /\ RefactorTables.stmts[s].drops = RefactorTables.stmts[s].needs
    /\ RefactorTables.stmts[1].needs = {"oldservers", "rows:oldservers"}
    /\ RefactorTables.stmts[1].makes = {"networks", "rows:networks"}
    /\ RefactorTables.stmts[2].needs = {"server_addresses", "rows:server_addresses"}
    /\ RefactorTables.stmts[2].makes = {"servers", "rows:servers"}
    /\ RefactorTables.stmts[3].needs = {"servers.server_id"} /\ RefactorTables.stmts[3].makes = {"servers.network_id"}
    /\ RefactorTables.stmts[4].needs = {"channels.server_id"} /\ RefactorTables.stmts[4].makes = {"channels.network_id"}
    /\ RefactorTables.stmts[5].needs = {"messages.server_id"} /\ RefactorTables.stmts[5].makes = {"messages.network_id"}
    /\ RefactorTables.stmts[6].needs = {} /\ RefactorTables.stmts[6].drops = {} /\ RefactorTables.stmts[6].once = FALSE
    /\ RefactorTables.stmts[6].makes = {"i:messages_time", "i:servers_order"}
<1>1. \A from, to : /\ Rename(from, to, {}).needs = from /\ Rename(from, to, {}).drops = from
                    /\ Rename(from, to, {}).makes = to /\ Rename(from, to, {}).once = TRUE
  BY DEF Rename, Statement
<1>2. \A F : Make(F).needs = {} /\ Make(F).makes = F /\ Make(F).drops = {} /\ Make(F).once = FALSE
  BY DEF Make, Statement
<1>3. /\ RefactorTables.stmts[1] = Rename({"oldservers", "rows:oldservers"}, {"networks", "rows:networks"}, {})
      /\ RefactorTables.stmts[2] = Rename({"server_addresses", "rows:server_addresses"}, {"servers", "rows:servers"}, {})
      /\ RefactorTables.stmts[3] = Rename({"servers.server_id"}, {"servers.network_id"}, {})
      /\ RefactorTables.stmts[4] = Rename({"channels.server_id"}, {"channels.network_id"}, {})
      /\ RefactorTables.stmts[5] = Rename({"messages.server_id"}, {"messages.network_id"}, {})
      /\ RefactorTables.stmts[6] = Make({"i:messages_time", "i:servers_order"})
  BY DEF RefactorTables
<1>4. \A s \in 1..5 : s = 1 \/ s = 2 \/ s = 3 \/ s = 4 \/ s = 5
  OBVIOUS
<1>5. ASSUME NEW s \in 1..5
      PROVE  RefactorTables.stmts[s].once = TRUE /\ RefactorTables.stmts[s].drops = RefactorTables.stmts[s].needs
  <2>1. \E from, to : RefactorTables.stmts[s] = Rename(from, to, {})
    BY <1>3, <1>4
  <2> QED
    BY <1>1, <2>1
<1> QED
  BY <1>1, <1>2, <1>3, <1>5

(* What a statement leaves. *)
After(stmt) == (db \ stmt.drops) \union stmt.makes

(* The database that the old layout has become when it is done *)
NewLayout == OldAfter(6) \union {"i:messages_time", "i:servers_order"}

(* The statements of the first migration succeed, one after the other. *)
LEMMA OldStep ==
    ASSUME NEW s \in 1..6, db = OldAfter(s)
    PROVE  /\ ~Fails(RefactorTables.stmts[s])
           /\ s < 6 => After(RefactorTables.stmts[s]) = OldAfter(s + 1)
           /\ s = 6 => After(RefactorTables.stmts[s]) = NewLayout
<1>1. CASE s = 1
  BY <1>1, OldStatements DEF OldAfter, After, Fails
<1>2. CASE s = 2
  BY <1>2, OldStatements DEF OldAfter, After, Fails
<1>3. CASE s = 3
  BY <1>3, OldStatements DEF OldAfter, After, Fails
<1>4. CASE s = 4
  BY <1>4, OldStatements DEF OldAfter, After, Fails
<1>5. CASE s = 5
  BY <1>5, OldStatements DEF OldAfter, After, Fails
<1>6. CASE s = 6
  BY <1>6, OldStatements DEF NewLayout, OldAfter, After, Fails
<1> QED
  BY <1>1, <1>2, <1>3, <1>4, <1>5, <1>6

LEMMA OldFirst == OldAfter(1) = OldLayout /\ \A s \in 2..6 : "oldservers" \notin OldAfter(s)
  BY DEF OldAfter, OldLayout

(* None of it is of this version. *)
LEMMA OldHasNoSettings == \A s \in Nat : "settings" \notin OldAfter(s)
  BY DEF OldAfter

LEMMA NewLayoutWhole ==
    /\ "oldservers" \notin NewLayout /\ {"rows:networks", "rows:servers"} \subseteq NewLayout
    /\ \A f \in NewLayout : Whole(f) \subseteq NewLayout
<1>1. NewLayout = {"channels", "messages", "networks", "rows:networks", "servers", "rows:servers", "servers.network_id",
                   "channels.network_id", "messages.network_id", "i:messages_time", "i:servers_order"}
  BY DEF NewLayout, OldAfter
<1> QED
  BY <1>1 DEF Whole

------------------------------------------------------------------------------
(* The databases of earlier versions *)

(* What a migration makes, it makes whole. *)
LEMMA WholeFacts ==
    ASSUME NEW m \in 2..Len(Migrate), NEW f \in Facts(m)
    PROVE  Whole(f) \subseteq Facts(m)
<1>1. Sound(Migrate[m]) /\ Facts(m) = FactsOf(Migrate[m])
  BY EverySound, FactsAt
<1>2. PICK i \in DOMAIN Migrate[m].stmts : f \in Migrate[m].stmts[i].makes
  BY <1>1 DEF FactsOf
<1>3. CASE Migrate[m] = SASLFields
  BY <1>1, <1>2, <1>3, SASLShape
<1>4. CASE Migrate[m] # SASLFields
  <2>1. Whole(f) \subseteq Migrate[m].stmts[i].makes
    BY <1>1, <1>2, <1>4 DEF Sound
  <2> QED
    BY <1>1, <2>1 DEF FactsOf
<1> QED
  BY <1>3, <1>4

LEMMA FactsNotOld ==
    ASSUME NEW m \in 2..Len(Migrate)
    PROVE  "oldservers" \notin Facts(m) /\ "i:network_msgid" \notin Facts(m)
<1>1. Sound(Migrate[m]) /\ Facts(m) = FactsOf(Migrate[m])
  BY EverySound, FactsAt
<1> QED
  BY <1>1 DEF Sound, SoundStmt, FactsOf

LEMMA LeftWhole ==
    ASSUME NEW k \in 7..Len(Migrate)
    PROVE  /\ "oldservers" \notin LeftBy(k) /\ {"rows:networks", "rows:servers"} \subseteq LeftBy(k)
           /\ \A f \in LeftBy(k) : Whole(f) \subseteq LeftBy(k)
<1> DEFINE Missing == LaterColumns \union {"channel_users"}
<1> DEFINE Rest    == {"rows:networks", "rows:servers", "i:network_msgid"}
<1>1. (\A m \in 2..7 : m \in 2..Len(Migrate)) /\ \A m \in 8..k : m \in 2..Len(Migrate)
  BY LengthMigrate
<1>2. LeftBy(k) = (FactsFrom(2, 7) \ Missing) \union Rest \union FactsFrom(8, k)
  BY DEF LeftBy
<1>3. "oldservers" \notin LeftBy(k)
  <2>1. "oldservers" \notin FactsFrom(2, 7) /\ "oldservers" \notin FactsFrom(8, k)
    BY <1>1, FactsNotOld DEF FactsFrom
  <2> QED
    BY <1>2, <2>1
<1>4. ASSUME NEW f \in FactsFrom(2, 7) \ Missing PROVE Whole(f) \subseteq FactsFrom(2, 7) \ Missing
  <2>1. PICK m \in 2..7 : f \in Facts(m)
    BY DEF FactsFrom
  <2>2. Whole(f) \subseteq FactsFrom(2, 7)
    BY <1>1, <2>1, WholeFacts DEF FactsFrom
  <2>3. Whole(f) \intersect Missing = {}
    BY DEF Whole, LaterColumns
  <2> QED
    BY <2>2, <2>3
<1>5. ASSUME NEW f \in FactsFrom(8, k) PROVE Whole(f) \subseteq FactsFrom(8, k)
  <2>1. PICK m \in 8..k : f \in Facts(m)
    BY DEF FactsFrom
  <2> QED
    BY <1>1, <2>1, WholeFacts DEF FactsFrom
<1>6. ASSUME NEW f \in Rest PROVE Whole(f) \subseteq Rest
  BY DEF Whole
<1> HIDE DEF Missing
<1>7. \A f \in LeftBy(k) : Whole(f) \subseteq LeftBy(k)
  BY <1>2, <1>4, <1>5, <1>6
<1> QED
  BY <1>2, <1>3, <1>7

------------------------------------------------------------------------------
(* The invariant *)

LEMMA InitInv == Init => IInv
<1> SUFFICES ASSUME Init PROVE IInv
  OBVIOUS
<1>1. Len(Migrate) = 46 /\ at = <<1, 0>> /\ phase = "starting" /\ crashes = 0
  BY LengthMigrate DEF Init
<1>2. TypeInv
  BY <1>1 DEF TypeInv
<1>3. db = OldLayout \/ ("oldservers" \notin db /\ (\A f \in db : Whole(f) \subseteq db)
                         /\ (legacy => {"rows:networks", "rows:servers"} \subseteq db))
  <2>1. CASE legacy
    <3>1. db = OldLayout \/ \E k \in 7..Len(Migrate) : db = LeftBy(k)
      BY <2>1 DEF Init
    <3> QED
      BY <3>1, LeftWhole
  <2>2. CASE ~legacy
    BY <2>2 DEF Init
  <2> QED
    BY <2>1, <2>2
<1>4. OldInv
  BY <1>1, <1>3 DEF OldInv
<1>5. \A m \in 2..Len(Migrate) : ~Passed(m) /\ \A s : ~Reached(m, s)
  BY <1>1 DEF Passed, Reached
<1>6. DoneInv
  BY <1>5 DEF DoneInv
<1>7. UncutInv
  <2>1. "oldservers" \in OldLayout
    BY DEF OldLayout
  <2> QED
    BY <1>1, <1>3, <1>5, <2>1 DEF UncutInv
<1> QED
  BY <1>2, <1>4, <1>6, <1>7 DEF IInv

(* Where a step goes on to *)
Bounds(m, s) == m \in 1..47 /\ s \in Nat /\ (m < 47 /\ s # 0 => s \in 1..Len(Migrate[m].stmts))

LEMMA Going ==
    ASSUME TypeInv, NEW m, NEW s, Bounds(m, s), Go(m, s), UNCHANGED crashes
    PROVE  /\ TypeInv' /\ phase' \in {"starting", "running"}
           /\ m < 47 => at' = <<m, s>> /\ phase' = "starting"
           /\ m = 47 => at' = <<1, 0>> /\ phase' = "running"
           /\ \A k \in 2..46 : /\ Passed(k)' <=> k < m
                               /\ \A r \in Nat : Reached(k, r)' <=> k < m \/ (k = m /\ s > r)
<1>1. Len(Migrate) = 46
  BY LengthMigrate
<1>2. CASE m < 47
  <2>1. at' = <<m, s>> /\ phase' = "starting" /\ m \in 1..46 /\ s \in Nat
    BY <1>1, <1>2 DEF Go, Bounds
  <2>2. TypeInv'
    BY <1>1, <1>2, <2>1 DEF TypeInv, Bounds
  <2>3. ASSUME NEW k \in 2..46
        PROVE  (Passed(k)' <=> k < m) /\ \A r \in Nat : Reached(k, r)' <=> k < m \/ (k = m /\ s > r)
    BY <2>1 DEF Passed, Reached
  <2> QED
    BY <1>2, <2>1, <2>2, <2>3
<1>3. CASE m = 47
  <2>1. at' = <<1, 0>> /\ phase' = "running"
    BY <1>1, <1>3 DEF Go
  <2>2. TypeInv'
    BY <1>1, <2>1 DEF TypeInv
  <2>3. ASSUME NEW k \in 2..46
        PROVE  (Passed(k)' <=> k < m) /\ \A r \in Nat : Reached(k, r)' <=> k < m \/ (k = m /\ s > r)
    BY <1>3, <2>1 DEF Passed, Reached
  <2> QED
    BY <1>3, <2>1, <2>2, <2>3
<1> QED
  BY <1>2, <1>3 DEF Bounds

(* Where a start is *)
LEMMA Here ==
    ASSUME TypeInv, phase = "starting"
    PROVE  /\ at[1] \in 1..46 /\ at[2] \in Nat /\ at = <<at[1], at[2]>>
           /\ at[2] # 0 => at[2] \in 1..Len(Migrate[at[1]].stmts)
           /\ \A k \in 2..46 : /\ Passed(k) <=> k < at[1]
                               /\ \A r \in Nat : Reached(k, r) <=> k < at[1] \/ (k = at[1] /\ at[2] > r)
<1>1. at[1] \in 1..46 /\ at[2] \in Nat /\ at = <<at[1], at[2]>>
  BY LengthMigrate DEF TypeInv
<1>2. \A k \in 2..46 : Passed(k) <=> k < at[1]
  BY <1>1 DEF Passed
<1>3. ASSUME NEW k \in 2..46, NEW r \in Nat PROVE Reached(k, r) <=> k < at[1] \/ (k = at[1] /\ at[2] > r)
  BY <1>2 DEF Reached
<1> QED
  BY <1>1, <1>2, <1>3 DEF TypeInv

LEMMA Statements ==
    ASSUME NEW m \in 2..46
    PROVE  /\ Sound(Migrate[m]) /\ Len(Migrate[m].stmts) \in Nat \ {0}
           /\ DOMAIN Migrate[m].stmts = 1..Len(Migrate[m].stmts)
           /\ \A s \in DOMAIN Migrate[m].stmts : s \in Nat /\ s > 0 /\ SoundStmt(Migrate[m].stmts[s])
<1>1. Sound(Migrate[m])
  BY EverySound, LengthMigrate
<1>2. /\ Len(Migrate[m].stmts) \in Nat \ {0} /\ DOMAIN Migrate[m].stmts = 1..Len(Migrate[m].stmts)
      /\ \A s \in DOMAIN Migrate[m].stmts : SoundStmt(Migrate[m].stmts[s])
  BY <1>1 DEF Sound
<1>3. ASSUME NEW s \in DOMAIN Migrate[m].stmts PROVE s \in Nat /\ s > 0
  BY <1>2
<1> QED
  BY <1>1, <1>2, <1>3

(* A migration that is not needed is passed, and what it would provide is there. *)
LEMMA SkipInv ==
    ASSUME IInv, phase = "starting", at[2] = 0, UNCHANGED <<db, crashes, legacy>>,
           Current.unless \intersect db # {}, Go(at[1] + 1, 0)
    PROVE  IInv'
<1> DEFINE m == at[1]
<1>1. TypeInv /\ OldInv /\ DoneInv /\ (crashes = 0 => UncutInv)
  BY DEF IInv
<1>2. /\ m \in 1..46
      /\ \A k \in 2..46 : (Passed(k) <=> k < m) /\ \A r \in Nat : Reached(k, r) <=> k < m \/ (k = m /\ at[2] > r)
  BY <1>1, Here
<1>3. Bounds(m + 1, 0)
  BY <1>2 DEF Bounds
<1>4. /\ TypeInv' /\ phase' \in {"starting", "running"} /\ at' \in {<<m + 1, 0>>, <<1, 0>>}
      /\ phase' = "starting" => at' = <<m + 1, 0>>
      /\ \A k \in 2..46 : (Passed(k)' <=> k < m + 1) /\ \A r \in Nat : Reached(k, r)' <=> k < m + 1 \/ (k = m + 1 /\ 0 > r)
  BY <1>1, <1>2, <1>3, Going
<1>5. "oldservers" \notin db
  <2>1. CASE m = 1
    <3>1. Current.unless \intersect OldLayout = {}
      BY <2>1, RefactorShape DEF Current, OldLayout
    <3> QED
      BY <1>1, <3>1 DEF OldInv
  <2> QED
    BY <1>1, <2>1 DEF OldInv
<1>6. OldInv'
  BY <1>2, <1>4, <1>5 DEF OldInv
<1>7. DoneInv'
  <2>1. ASSUME NEW k \in 2..46, NEW r \in DOMAIN Migrate[k].stmts, Reached(k, r)', Migrate[k].unless = {} \/ ~Passed(k)'
        PROVE  Migrate[k].stmts[r].makes \subseteq db /\ Migrate[k].stmts[r].drops \intersect db = {}
    <3>1. r \in Nat /\ r > 0
      BY Statements
    <3>2. k < m + 1 /\ Migrate[k].unless = {}
      BY <1>2, <1>4, <2>1, <3>1
    <3>3. k # m
      BY <3>2 DEF Current
    <3>4. Reached(k, r)
      BY <1>2, <3>1, <3>2, <3>3
    <3> QED
      BY <1>1, <3>2, <3>4, LengthMigrate DEF DoneInv
  <2> QED
    BY <2>1, LengthMigrate DEF DoneInv
<1>8. crashes = 0 => UncutInv'
  <2> SUFFICES ASSUME crashes = 0 PROVE UncutInv'
    OBVIOUS
  <2>1. (\A f \in db : Whole(f) \subseteq db) /\ (legacy => {"rows:networks", "rows:servers"} \subseteq db)
    BY <1>1, <1>5 DEF UncutInv
  <2>2. ASSUME NEW k \in 2..46, NEW f \in Migrate[k].unless, Passed(k)' PROVE Whole(f) \subseteq db
    <3>1. CASE k = m
      <4>1. Sound(Migrate[k])
        BY Statements
      <4>2. Migrate[k].unless = {f}
        BY <4>1 DEF Sound
      <4> QED
        BY <2>1, <3>1, <4>2 DEF Current
    <3>2. CASE k # m
      <4>1. Passed(k)
        BY <1>2, <1>4, <2>2, <3>2
      <4> QED
        BY <1>1, <4>1, LengthMigrate DEF UncutInv
    <3> QED
      BY <3>1, <3>2
  <2> QED
    BY <1>4, <2>1, <2>2, LengthMigrate DEF UncutInv
<1> QED
  BY <1>4, <1>6, <1>7, <1>8 DEF IInv

(* On a database without the old layout, the first migration has nothing to do. *)
LEMMA NotOldInv ==
    ASSUME IInv, phase = "starting", at[1] = 1, at[2] = 0, UNCHANGED <<db, crashes, legacy>>,
           "oldservers" \notin db, Go(2, 0)
    PROVE  IInv'
<1>1. TypeInv /\ OldInv /\ DoneInv /\ (crashes = 0 => UncutInv)
  BY DEF IInv
<1>2. Bounds(2, 0)
  BY DEF Bounds
<1>3. /\ TypeInv' /\ phase' = "starting" /\ at' = <<2, 0>>
      /\ \A k \in 2..46 : (Passed(k)' <=> k < 2) /\ \A r \in Nat : Reached(k, r)' <=> k < 2 \/ (k = 2 /\ 0 > r)
  BY <1>1, <1>2, Going
<1>4. OldInv'
  BY <1>3 DEF OldInv
<1>5. \A k \in 2..46 : ~Passed(k)' /\ \A r \in DOMAIN Migrate[k].stmts : ~Reached(k, r)'
  <2>1. ASSUME NEW k \in 2..46, NEW r \in DOMAIN Migrate[k].stmts PROVE ~Reached(k, r)'
    <3>1. r \in Nat /\ r > 0
      BY Statements
    <3>2. ~(k < 2) /\ ~(0 > r)
      BY <3>1
    <3> QED
      BY <1>3, <3>1, <3>2
  <2> QED
    BY <1>3, <2>1
<1>6. DoneInv'
  BY <1>5, LengthMigrate DEF DoneInv
<1>7. crashes = 0 => UncutInv'
  BY <1>1, <1>3, <1>5, LengthMigrate DEF UncutInv
<1> QED
  BY <1>3, <1>4, <1>6, <1>7 DEF IInv

(* A migration begins. *)
LEMMA BeginInv ==
    ASSUME IInv, phase = "starting", at[2] = 0, UNCHANGED <<db, crashes, legacy>>,
           at[1] = 1 => "oldservers" \in db, Go(at[1], 1)
    PROVE  IInv'
<1> DEFINE m == at[1]
<1>1. TypeInv /\ OldInv /\ DoneInv /\ (crashes = 0 => UncutInv)
  BY DEF IInv
<1>2. /\ m \in 1..46
      /\ \A k \in 2..46 : (Passed(k) <=> k < m) /\ \A r \in Nat : Reached(k, r) <=> k < m \/ (k = m /\ at[2] > r)
  BY <1>1, Here
<1>3. Bounds(m, 1)
  <2>1. CASE m = 1
    BY <2>1, RefactorShape DEF Bounds
  <2>2. CASE m \in 2..46
    <3>1. Len(Migrate[m].stmts) \in Nat \ {0}
      BY <2>2, Statements
    <3>2. \A n \in Nat \ {0} : 1 \in 1..n
      OBVIOUS
    <3> QED
      BY <2>2, <3>1, <3>2 DEF Bounds
  <2> QED
    BY <1>2, <2>1, <2>2
<1>4. /\ TypeInv' /\ phase' = "starting" /\ at' = <<m, 1>>
      /\ \A k \in 2..46 : (Passed(k)' <=> k < m) /\ \A r \in Nat : Reached(k, r)' <=> k < m \/ (k = m /\ 1 > r)
  BY <1>1, <1>2, <1>3, Going
<1>5. OldInv'
  BY <1>1, <1>4, OldFirst DEF OldInv
<1>6. \A k \in 2..46 : (Passed(k)' <=> Passed(k)) /\ \A r \in DOMAIN Migrate[k].stmts : Reached(k, r)' <=> Reached(k, r)
  <2>1. ASSUME NEW k \in 2..46, NEW r \in DOMAIN Migrate[k].stmts PROVE Reached(k, r)' <=> Reached(k, r)
    <3>1. r \in Nat /\ r > 0
      BY Statements
    <3> QED
      BY <1>2, <1>4, <3>1
  <2> QED
    BY <1>2, <1>4, <2>1
<1>7. DoneInv'
  <2>1. db' = db /\ 2..Len(Migrate) = 2..46
    BY LengthMigrate
  <2> QED
    BY <1>1, <1>6, <2>1 DEF DoneInv
<1>8. crashes = 0 => UncutInv'
  <2> SUFFICES ASSUME crashes = 0 PROVE UncutInv'
    OBVIOUS
  <2>1. ASSUME "oldservers" \notin db
        PROVE  (\A f \in db : Whole(f) \subseteq db) /\ (legacy => {"rows:networks", "rows:servers"} \subseteq db)
    BY <1>1, <2>1 DEF UncutInv
  <2>2. ASSUME NEW k \in 2..46, NEW f \in Migrate[k].unless, Passed(k)' PROVE Whole(f) \subseteq db
    BY <1>1, <1>6, <2>2, LengthMigrate DEF UncutInv
  <2> QED
    BY <1>4, <2>1, <2>2, LengthMigrate DEF UncutInv
<1> QED
  BY <1>4, <1>5, <1>7, <1>8 DEF IInv

LEMMA LookInv == IInv /\ Look => IInv'
<1> SUFFICES ASSUME IInv, Look PROVE IInv'
  OBVIOUS
<1>1. phase = "starting" /\ at[2] = 0 /\ UNCHANGED <<db, crashes, legacy>>
  BY DEF Look
<1>2. CASE Current.unless \intersect db # {}
  BY <1>1, <1>2, SkipInv DEF Look
<1>3. CASE Current.unless \intersect db = {} /\ at[1] = 1 /\ "oldservers" \notin db
  BY <1>1, <1>3, NotOldInv DEF Look
<1>4. CASE Current.unless \intersect db = {} /\ (at[1] = 1 => "oldservers" \in db)
  BY <1>1, <1>4, BeginInv DEF Look
<1> QED
  BY <1>2, <1>3, <1>4

(* The first migration runs to its end. *)
LEMMA ExecuteOldInv == IInv /\ Execute /\ at[1] = 1 => IInv'
<1> SUFFICES ASSUME IInv, Execute, at[1] = 1 PROVE IInv'
  OBVIOUS
<1> DEFINE s == at[2]
<1>1. TypeInv /\ OldInv /\ phase = "starting" /\ s # 0 /\ UNCHANGED <<crashes, legacy>>
  BY DEF IInv, Execute
<1>2. s \in 1..6 /\ db = OldAfter(s)
  BY <1>1, Here, RefactorShape DEF OldInv
<1>3. ~Fails(Migrate[1].stmts[s]) /\ db' = After(Migrate[1].stmts[s]) /\ Onward
  <2>1. ~Fails(Migrate[1].stmts[s])
    BY <1>2, OldStep, RefactorShape
  <2> QED
    BY <2>1 DEF Execute, Current, After
<1>4. CASE s < 6
  <2>1. Go(1, s + 1) /\ db' = OldAfter(s + 1) /\ s + 1 \in 2..6
    BY <1>2, <1>3, <1>4, OldStep, RefactorShape DEF Onward, Current
  <2>2. Bounds(1, s + 1)
    BY <2>1, RefactorShape DEF Bounds
  <2>3. /\ TypeInv' /\ phase' = "starting" /\ at' = <<1, s + 1>>
        /\ \A k \in 2..46 : ~Passed(k)' /\ \A r \in Nat : ~Reached(k, r)'
    BY <1>1, <2>1, <2>2, Going
  <2>4. OldInv'
    BY <2>1, <2>3, OldFirst DEF OldInv
  <2>5. DoneInv'
    <3>1. \A k \in 2..46 : \A r \in DOMAIN Migrate[k].stmts : r \in Nat
      BY Statements
    <3> QED
      BY <2>3, <3>1, LengthMigrate DEF DoneInv
  <2>6. UncutInv'
    BY <2>1, <2>3, LengthMigrate DEF UncutInv
  <2> QED
    BY <2>3, <2>4, <2>5, <2>6 DEF IInv
<1>5. CASE s = 6
  <2>1. Go(2, 0) /\ db' = NewLayout
    BY <1>2, <1>3, <1>5, OldStep, RefactorShape DEF Onward, Current
  <2>2. Bounds(2, 0)
    BY DEF Bounds
  <2>3. /\ TypeInv' /\ phase' = "starting" /\ at' = <<2, 0>>
        /\ \A k \in 2..46 : ~Passed(k)' /\ \A r \in Nat : Reached(k, r)' <=> k < 2 \/ (k = 2 /\ 0 > r)
    BY <1>1, <2>1, <2>2, Going
  <2>4. OldInv'
    BY <2>1, <2>3, NewLayoutWhole DEF OldInv
  <2>5. DoneInv'
    <3>1. ASSUME NEW k \in 2..46, NEW r \in DOMAIN Migrate[k].stmts PROVE ~Reached(k, r)'
      <4>1. r \in Nat /\ r > 0
        BY Statements
      <4>2. ~(k < 2) /\ ~(0 > r)
        BY <4>1
      <4> QED
        BY <2>3, <4>1, <4>2
    <3> QED
      BY <3>1, LengthMigrate DEF DoneInv
  <2>6. UncutInv'
    BY <2>1, <2>3, NewLayoutWhole, LengthMigrate DEF UncutInv
  <2> QED
    BY <2>3, <2>4, <2>5, <2>6 DEF IInv
<1> QED
  BY <1>2, <1>4, <1>5

(* Where no start was cut short, a statement finds what it needs. *)
LEMMA NeedsMet ==
    ASSUME IInv, phase = "starting", at[1] # 1, at[2] # 0, crashes = 0
    PROVE  ~Fails(Current.stmts[at[2]])
<1> DEFINE m == at[1]
<1> DEFINE s == at[2]
<1>1. TypeInv /\ DoneInv /\ UncutInv
  BY DEF IInv
<1>2. m \in 2..46 /\ s \in 1..Len(Migrate[m].stmts) /\ \A k \in 2..46 : Passed(k) <=> k < m
  BY <1>1, Here
<1>3. s \in DOMAIN Migrate[m].stmts /\ SoundStmt(Migrate[m].stmts[s])
  BY <1>2, Statements
<1>4. ASSUME NEW f \in Migrate[m].stmts[s].needs PROVE f \in db
  <2>1. f \in Needs(Migrate[m])
    BY <1>3 DEF Needs
  <2>2. PICK j \in 2..(m - 1) : f \in Provided(j)
    BY <1>2, <2>1, EveryProvided, LengthMigrate DEF Earlier
  <2>3. j \in 2..46 /\ Passed(j)
    <3>1. m \in 2..46
      BY <1>2
    <3>2. j \in 2..46 /\ j < m
      BY <3>1
    <3> QED
      BY <1>2, <3>2
  <2>4. CASE Migrate[j].unless = {}
    <3>1. PICK r \in DOMAIN Migrate[j].stmts : f \in Migrate[j].stmts[r].makes
      BY <2>2, <2>4 DEF Provided, Facts
    <3>2. Reached(j, r)
      BY <2>3 DEF Reached
    <3> QED
      BY <1>1, <2>3, <2>4, <3>1, <3>2, LengthMigrate DEF DoneInv
  <2>5. CASE Migrate[j].unless # {}
    <3>1. PICK g \in Migrate[j].unless : f \in Whole(g)
      BY <2>2, <2>5 DEF Provided
    <3> QED
      BY <1>1, <2>3, <3>1, LengthMigrate DEF UncutInv
  <2> QED
    BY <2>4, <2>5
<1> QED
  BY <1>3, <1>4 DEF Fails, Current, SoundStmt

LEMMA ExecuteFailsInv ==
    ASSUME IInv, Execute, at[1] # 1, Fails(Current.stmts[at[2]])
    PROVE  IInv'
<1>1. TypeInv /\ OldInv /\ phase = "starting" /\ at[2] # 0 /\ UNCHANGED <<crashes, legacy>>
  BY DEF IInv, Execute
<1>2. phase' = "failed" /\ UNCHANGED <<db, at>>
  BY DEF Execute
<1>3. crashes # 0
  BY <1>1, NeedsMet
<1>4. TypeInv'
  BY <1>1, <1>2 DEF TypeInv
<1>5. OldInv'
  BY <1>1, <1>2 DEF OldInv
<1>6. DoneInv'
  BY <1>2 DEF DoneInv, Passed, Reached
<1> QED
  BY <1>1, <1>3, <1>4, <1>5, <1>6 DEF IInv

(* Where a statement of a later migration leads *)
Leads(m, s, l) ==
    /\ TypeInv' /\ phase' \in {"starting", "running"}
    /\ at'[1] # 1 \/ at'[2] = 0
    /\ s < l => phase' = "starting" /\ at' = <<m, s + 1>>
    /\ \A k \in 2..46 : /\ Passed(k)' <=> Passed(k) \/ (k = m /\ s = l)
                        /\ \A r \in DOMAIN Migrate[k].stmts : Reached(k, r)' <=> Reached(k, r) \/ (k = m /\ r = s)

LEMMA ExecuteGoes ==
    ASSUME IInv, phase = "starting", NEW m \in 2..46, NEW l, l = Len(Migrate[m].stmts), NEW s \in 1..l,
           at[1] = m, at[2] = s, Onward, UNCHANGED crashes
    PROVE  Leads(m, s, l)
<1>1. TypeInv /\ l \in Nat \ {0} /\ DOMAIN Migrate[m].stmts = 1..l
  BY Statements DEF IInv
<1>2. \A k \in 2..46 : Passed(k) <=> k < m
  BY <1>1, Here
<1>3. \A k \in 2..46 : \A r \in Nat : Reached(k, r) <=> k < m \/ (k = m /\ s > r)
  BY <1>1, Here
<1>4. \A k \in 2..46 : \A r \in DOMAIN Migrate[k].stmts : r \in Nat /\ r > 0
  BY Statements
<1>5. CASE s < l
  <2>1. Go(m, s + 1)
    BY <1>5 DEF Onward, Current
  <2>2. Bounds(m, s + 1)
    <3>1. s + 1 \in 1..l /\ m \in 1..47 /\ s + 1 \in Nat
      BY <1>1, <1>5
    <3> QED
      BY <3>1 DEF Bounds
  <2>3. m < 47 /\ m # 47
    OBVIOUS
  <2>4. /\ TypeInv' /\ phase' = "starting" /\ at' = <<m, s + 1>>
        /\ \A k \in 2..46 : (Passed(k)' <=> k < m) /\ \A r \in Nat : Reached(k, r)' <=> k < m \/ (k = m /\ s + 1 > r)
    BY <1>1, <2>1, <2>2, <2>3, Going
  <2>5. s # l
    BY <1>1, <1>5
  <2>6. \A k \in 2..46 : Passed(k)' <=> Passed(k) \/ (k = m /\ s = l)
    BY <1>2, <2>4, <2>5
  <2>7. \A r \in Nat : s + 1 > r <=> s > r \/ r = s
    BY <1>1
  <2>8. \A k \in 2..46 : \A r \in DOMAIN Migrate[k].stmts : Reached(k, r)' <=> Reached(k, r) \/ (k = m /\ r = s)
    BY <1>3, <1>4, <2>4, <2>7
  <2>9. at'[1] # 1
    BY <2>4
  <2> QED
    BY <2>4, <2>6, <2>8, <2>9 DEF Leads
<1>6. CASE s = l
  <2>1. Go(m + 1, 0)
    BY <1>1, <1>6 DEF Onward, Current
  <2>2. Bounds(m + 1, 0)
    BY DEF Bounds
  <2>3. m + 1 < 47 \/ m + 1 = 47
    OBVIOUS
  <2>4. /\ TypeInv' /\ phase' \in {"starting", "running"} /\ at' \in {<<m + 1, 0>>, <<1, 0>>}
        /\ \A k \in 2..46 : (Passed(k)' <=> k < m + 1) /\ \A r \in Nat : Reached(k, r)' <=> k < m + 1 \/ (k = m + 1 /\ 0 > r)
    BY <1>1, <2>1, <2>2, <2>3, Going
  <2>5. \A k \in 2..46 : k < m + 1 <=> k < m \/ k = m
    OBVIOUS
  <2>6. \A k \in 2..46 : Passed(k)' <=> Passed(k) \/ (k = m /\ s = l)
    BY <1>2, <1>6, <2>4, <2>5
  <2>7. \A r \in Nat : r > 0 => ~(0 > r)
    OBVIOUS
  <2>8. \A r \in 1..l : s > r \/ r = s
    BY <1>1, <1>6
  <2>9. \A k \in 2..46 : \A r \in DOMAIN Migrate[k].stmts : k = m => s > r \/ r = s
    BY <1>1, <2>8
  <2>10. \A k \in 2..46 : \A r \in DOMAIN Migrate[k].stmts : Reached(k, r)' <=> Reached(k, r) \/ (k = m /\ r = s)
    BY <1>3, <1>4, <2>4, <2>5, <2>7, <2>9
  <2>11. ~(s < l)
    BY <1>1, <1>6
  <2>12. at'[2] = 0
    BY <2>4
  <2> QED
    BY <2>4, <2>6, <2>10, <2>11, <2>12 DEF Leads
<1>7. s < l \/ s = l
  BY <1>1
<1> QED
  BY <1>5, <1>6, <1>7

(* A statement of a later migration, that succeeds *)
LEMMA ExecuteNewInv ==
    ASSUME IInv, Execute, at[1] # 1, ~Fails(Current.stmts[at[2]])
    PROVE  IInv'
<1>1. TypeInv /\ OldInv /\ DoneInv /\ (crashes = 0 => UncutInv)
  BY DEF IInv
<1>2. phase = "starting" /\ at[2] # 0 /\ UNCHANGED <<crashes, legacy>>
  BY DEF Execute
<1>3. PICK m, s, l, stmt : m = at[1] /\ s = at[2] /\ l = Len(Migrate[m].stmts) /\ stmt = Migrate[m].stmts[s]
  OBVIOUS
<1>4. m \in 2..46 /\ s \in 1..l
  BY <1>1, <1>2, <1>3, Here
<1>5. /\ l \in Nat \ {0} /\ DOMAIN Migrate[m].stmts = 1..l /\ Sound(Migrate[m]) /\ SoundStmt(stmt)
  BY <1>3, <1>4, Statements
<1>6. db' = (db \ stmt.drops) \union stmt.makes /\ Onward
  BY <1>3 DEF Execute, Current
<1>7. /\ stmt.drops \subseteq {"i:network_msgid"} /\ "i:network_msgid" \notin stmt.makes /\ "oldservers" \notin stmt.makes
  BY <1>5 DEF SoundStmt
<1>8. \A f \in db : f = "i:network_msgid" \/ f \in db'
  <2>1. ASSUME NEW f \in db, f # "i:network_msgid" PROVE f \in db'
    <3>1. f \notin stmt.drops
      <4>1. stmt.drops \subseteq {"i:network_msgid"}
        BY <1>7
      <4> QED
        BY <2>1, <4>1
    <3> QED
      BY <1>6, <3>1
  <2> QED
    BY <2>1
<1>9. /\ TypeInv' /\ phase' \in {"starting", "running"} /\ (at'[1] # 1 \/ at'[2] = 0)
      /\ s < l => phase' = "starting" /\ at' = <<m, s + 1>>
      /\ \A k \in 2..46 : /\ Passed(k)' <=> Passed(k) \/ (k = m /\ s = l)
                          /\ \A r \in DOMAIN Migrate[k].stmts : Reached(k, r)' <=> Reached(k, r) \/ (k = m /\ r = s)
  <2>1. phase = "starting" /\ at[1] = m /\ at[2] = s /\ l = Len(Migrate[m].stmts) /\ Onward /\ UNCHANGED crashes
    BY <1>2, <1>3, <1>6
  <2>2. Leads(m, s, l)
    BY <1>4, <2>1, ExecuteGoes
  <2> QED
    BY <2>2 DEF Leads
<1>10. "oldservers" \notin db /\ "oldservers" \notin db'
  BY <1>1, <1>6, <1>7 DEF OldInv
<1>11. OldInv'
  BY <1>9, <1>10 DEF OldInv
<1>12. ASSUME NEW k \in 2..46, NEW r \in DOMAIN Migrate[k].stmts, Reached(k, r), Migrate[k].unless = {} \/ ~Passed(k)
       PROVE  Migrate[k].stmts[r].makes \subseteq db' /\ Migrate[k].stmts[r].drops \intersect db' = {}
  <2>1. Migrate[k].stmts[r].makes \subseteq db /\ Migrate[k].stmts[r].drops \intersect db = {}
    BY <1>1, <1>12, LengthMigrate DEF DoneInv
  <2>2. /\ "i:network_msgid" \notin Migrate[k].stmts[r].makes
        /\ Migrate[k].stmts[r].drops \subseteq {"i:network_msgid"}
    <3>1. SoundStmt(Migrate[k].stmts[r])
      BY Statements
    <3> QED
      BY <3>1 DEF SoundStmt
  <2> QED
    BY <1>6, <1>7, <1>8, <2>1, <2>2
<1>13. stmt.makes \subseteq db' /\ stmt.drops \intersect db' = {}
  BY <1>6, <1>7
<1>14. DoneInv'
  <2>1. ASSUME NEW k \in 2..46, NEW r \in DOMAIN Migrate[k].stmts, Reached(k, r)', Migrate[k].unless = {} \/ ~Passed(k)'
        PROVE  Migrate[k].stmts[r].makes \subseteq db' /\ Migrate[k].stmts[r].drops \intersect db' = {}
    <3>1. CASE Reached(k, r)
      <4>1. Migrate[k].unless = {} \/ ~Passed(k)
        BY <1>9, <2>1
      <4> QED
        BY <1>12, <3>1, <4>1
    <3>2. CASE k = m /\ r = s
      BY <1>3, <1>13, <3>2
    <3> QED
      BY <1>9, <2>1, <3>1, <3>2
  <2> QED
    BY <2>1, LengthMigrate DEF DoneInv
<1>15. s = l => Facts(m) \subseteq db'
  <2>1. ASSUME s = l, NEW r \in 1..l PROVE Migrate[m].stmts[r].makes \subseteq db'
    <3>1. CASE r = s
      BY <1>3, <1>13, <3>1
    <3>2. CASE r # s
      <4>1. at[2] > r
        BY <1>3, <1>5, <2>1, <3>2
      <4>2. Reached(m, r) /\ ~Passed(m)
        <5>1. m \in Nat /\ ~(m > m)
          BY <1>4
        <5> QED
          BY <1>2, <1>3, <4>1, <5>1 DEF Reached, Passed
      <4> QED
        BY <1>4, <1>5, <1>12, <4>2
    <3> QED
      BY <3>1, <3>2
  <2> QED
    BY <1>5, <2>1 DEF Facts
<1>16. crashes = 0 => UncutInv'
  <2> SUFFICES ASSUME crashes = 0 PROVE UncutInv'
    OBVIOUS
  <2> DEFINE Cut(f) == Migrate[m] = SASLFields /\ f = "networks.sasl_enabled"
  <2>1. /\ \A f \in db : Whole(f) \subseteq db \/ (Cut(f) /\ s > 1)
        /\ legacy => {"rows:networks", "rows:servers"} \subseteq db
    BY <1>1, <1>3, <1>4, <1>10 DEF UncutInv
  <2>2. \A f : "i:network_msgid" \in Whole(f) => f = "i:network_msgid"
    BY DEF Whole
  <2>3. ASSUME NEW f \in db' PROVE Whole(f) \subseteq db' \/ (Cut(f) /\ s < l)
    <3>1. CASE f \in db /\ Whole(f) \subseteq db
      BY <1>8, <2>2, <3>1
    <3>2. CASE Cut(f)
      <4>1. Whole(f) = Facts(m)
        BY <3>2, SASLShape, FactsAt
      <4>2. s < l \/ s = l
        BY <1>4, <1>5
      <4> QED
        BY <1>15, <3>2, <4>1, <4>2
    <3>3. CASE f \in stmt.makes /\ ~Cut(f)
      <4>1. CASE Migrate[m] = SASLFields
        <5>1. s \in 1..5 /\ stmt = SASLFields.stmts[s]
          BY <1>3, <1>4, <4>1, SASLShape
        <5>2. Whole(f) = {f}
          BY <3>3, <4>1, <5>1, SASLShape
        <5> QED
          BY <5>2
      <4>2. CASE Migrate[m] # SASLFields
        <5>1. s \in DOMAIN Migrate[m].stmts
          BY <1>4, <1>5
        <5>2. Whole(f) \subseteq stmt.makes
          BY <1>3, <1>5, <3>3, <4>2, <5>1 DEF Sound
        <5> QED
          BY <1>13, <5>2
      <4> QED
        BY <4>1, <4>2
    <3>4. f \in db \/ f \in stmt.makes
      BY <1>6
    <3> QED
      BY <2>1, <3>1, <3>2, <3>3, <3>4
  <2>4. s < l => phase' = "starting" /\ at'[1] = m /\ at'[2] > 1
    <3>1. s + 1 > 1
      BY <1>4, <1>5
    <3> QED
      BY <1>9, <3>1
  <2>5. \A f \in db' : \/ Whole(f) \subseteq db'
                       \/ phase' = "starting" /\ Migrate[at'[1]] = SASLFields /\ at'[2] > 1 /\ f = "networks.sasl_enabled"
    BY <2>3, <2>4
  <2>6. legacy' => {"rows:networks", "rows:servers"} \subseteq db'
    BY <1>2, <1>8, <2>1
  <2>7. ASSUME NEW k \in 2..46, NEW f \in Migrate[k].unless, Passed(k)' PROVE Whole(f) \subseteq db'
    <3>1. Whole(f) \subseteq Facts(k)
      <4>1. Sound(Migrate[k])
        BY Statements
      <4> QED
        BY <4>1, FactsAt DEF Sound
    <3>2. CASE k = m /\ s = l
      BY <1>15, <3>1, <3>2
    <3>3. CASE Passed(k)
      <4>1. Whole(f) \subseteq db
        BY <1>1, <3>3, LengthMigrate DEF UncutInv
      <4>2. "i:network_msgid" \notin Whole(f)
        BY <3>1, FactsNotOld, LengthMigrate
      <4> QED
        BY <1>8, <4>1, <4>2
    <3> QED
      BY <1>9, <2>7, <3>2, <3>3
  <2>8. phase' # "failed"
    BY <1>9
  <2> QED
    BY <2>5, <2>6, <2>7, <2>8, LengthMigrate DEF UncutInv
<1> QED
  BY <1>2, <1>9, <1>11, <1>14, <1>16 DEF IInv

LEMMA CrashInv == IInv /\ Crash => IInv'
<1> SUFFICES ASSUME IInv, Crash PROVE IInv'
  OBVIOUS
<1>1. TypeInv /\ OldInv
  BY DEF IInv
<1>2. phase' = "down" /\ crashes' = crashes + 1 /\ UNCHANGED <<db, at, legacy>>
  BY DEF Crash
<1>3. crashes' # 0 /\ TypeInv'
  BY <1>1, <1>2 DEF TypeInv
<1>4. OldInv'
  BY <1>1, <1>2 DEF OldInv
<1>5. DoneInv'
  BY <1>2 DEF DoneInv, Passed, Reached
<1> QED
  BY <1>3, <1>4, <1>5 DEF IInv

LEMMA StartInv == IInv /\ Start => IInv'
<1> SUFFICES ASSUME IInv, Start PROVE IInv'
  OBVIOUS
<1>1. TypeInv /\ OldInv /\ (crashes = 0 => UncutInv)
  BY DEF IInv
<1>2. phase' = "starting" /\ at' = <<1, 0>> /\ UNCHANGED <<db, crashes, legacy>> /\ phase \in {"running", "failed", "down"}
  BY DEF Start
<1>3. TypeInv'
  BY <1>1, <1>2, LengthMigrate DEF TypeInv
<1>4. OldInv'
  BY <1>1, <1>2 DEF OldInv
<1>5. \A k \in 2..46 : ~Passed(k)' /\ \A r : ~Reached(k, r)'
  BY <1>2 DEF Passed, Reached
<1>6. DoneInv'
  BY <1>5, LengthMigrate DEF DoneInv
<1>7. crashes = 0 => UncutInv'
  <2> SUFFICES ASSUME crashes = 0 PROVE UncutInv'
    OBVIOUS
  <2>1. phase = "running" /\ at = <<1, 0>>
    BY <1>1, <1>2 DEF TypeInv, UncutInv
  <2>2. "oldservers" \notin db =>
           (\A f \in db : Whole(f) \subseteq db) /\ (legacy => {"rows:networks", "rows:servers"} \subseteq db)
    <3>1. ~(at[1] = 1 /\ at[2] # 0) /\ phase # "starting"
      BY <2>1
    <3> QED
      BY <1>1, <3>1 DEF UncutInv
  <2>3. phase' # "failed" /\ db' = db /\ legacy' = legacy
    BY <1>2
  <2> QED
    BY <1>5, <2>2, <2>3, LengthMigrate DEF UncutInv
<1> QED
  BY <1>2, <1>3, <1>4, <1>6, <1>7 DEF IInv

LEMMA StepInv == IInv /\ [Next]_vars => IInv'
<1> SUFFICES ASSUME IInv, [Next]_vars PROVE IInv'
  OBVIOUS
<1>1. CASE Look
  BY <1>1, LookInv
<1>2. CASE Execute
  <2>1. CASE at[1] = 1
    BY <1>2, <2>1, ExecuteOldInv
  <2>2. CASE at[1] # 1 /\ Fails(Current.stmts[at[2]])
    BY <1>2, <2>2, ExecuteFailsInv
  <2>3. CASE at[1] # 1 /\ ~Fails(Current.stmts[at[2]])
    BY <1>2, <2>3, ExecuteNewInv
  <2> QED
    BY <2>1, <2>2, <2>3
<1>3. CASE Crash
  BY <1>3, CrashInv
<1>4. CASE Start
  BY <1>4, StartInv
<1>5. CASE UNCHANGED vars
  BY <1>5 DEF vars, IInv, TypeInv, OldInv, DoneInv, UncutInv, Passed, Reached
<1> QED
  BY <1>1, <1>2, <1>3, <1>4, <1>5 DEF Next

(* At every moment, whatever start was cut short and wherever: the old layout is there   *)
(* whole or has become the new one up to the statement reached, what every start runs    *)
(* has had its effect as far as it has come, and where none was cut short what a         *)
(* migration looks at stands for all it would make.                                      *)
THEOREM Inductive == Spec => []IInv
<1> QED
  BY InitInv, StepInv, PTL DEF Spec

------------------------------------------------------------------------------
(* What follows *)

(* What every start runs has had its effect when one succeeds. *)
LEMMA Retried ==
    ASSUME IInv, phase = "running"
    PROVE  /\ \A f : AlwaysMakes(f) => f \in db
           /\ \A f : AlwaysDrops(f) => f \notin db
<1>1. DoneInv /\ \A m, s : Reached(m, s)
  BY DEF IInv, Reached, Passed
<1>2. ASSUME NEW f, AlwaysMakes(f) PROVE f \in db
  <2>1. PICK m \in 2..Len(Migrate) : Migrate[m].unless = {} /\ f \in Facts(m)
    BY <1>2 DEF AlwaysMakes
  <2>2. PICK s \in DOMAIN Migrate[m].stmts : f \in Migrate[m].stmts[s].makes
    BY <2>1 DEF Facts
  <2> QED
    BY <1>1, <2>1, <2>2 DEF DoneInv
<1>3. ASSUME NEW f, AlwaysDrops(f) PROVE f \notin db
  <2>1. PICK m \in 2..Len(Migrate) :
           Migrate[m].unless = {} /\ \E s \in DOMAIN Migrate[m].stmts : f \in Migrate[m].stmts[s].drops
    BY <1>3 DEF AlwaysDrops
  <2>2. PICK s \in DOMAIN Migrate[m].stmts : f \in Migrate[m].stmts[s].drops
    BY <2>1
  <2>3. Migrate[m].stmts[s].drops \intersect db = {}
    BY <1>1, <2>1 DEF DoneInv
  <2> QED
    BY <2>2, <2>3
<1> QED
  BY <1>2, <1>3

LEMMA InvRetried == IInv => RetriedUntilDone
<1> SUFFICES ASSUME IInv, phase = "running"
             PROVE  /\ \A f \in {"set:pm_target", "set:sort_order", "set:plugin_blobs", "set:timestamps", "i:messages_ai",
                                 "i:messages_ad", "i:messages_au", "i:conv_msgid"} : f \in db
                    /\ "i:network_msgid" \notin db
  BY DEF RetriedUntilDone
<1> QED
  BY Retried, RetriedMakes, RetriedDrops

(* Wherever a start is cut short, and however often, the next one that succeeds has   *)
(* made good the backfills and indexes that are not the affair of one migration that  *)
(* is looked at: migrateMessagesPMTarget, migrateEventDedupIndex and their like.      *)
THEOREM RetriesUntilDone == Spec => []RetriedUntilDone
<1> QED
  BY Inductive, InvRetried, PTL

LEMMA InvUpgrades == IInv => UpgradesEveryVersion
<1> SUFFICES ASSUME IInv, crashes = 0 PROVE phase # "failed" /\ (phase = "running" => Complete /\ Visible)
  BY DEF UpgradesEveryVersion
<1>1. TypeInv /\ OldInv /\ DoneInv /\ UncutInv
  BY DEF IInv
<1>2. phase # "failed"
  BY <1>1 DEF UncutInv
<1>3. ASSUME phase = "running" PROVE Complete
  <2>1. ASSUME NEW f \in Schema PROVE f \in db
    <3>1. PICK m \in 2..Len(Migrate) : f \in Provided(m)
      BY SchemaProvided
    <3>2. CASE Migrate[m].unless = {}
      <4>1. AlwaysMakes(f)
        BY <3>1, <3>2 DEF Provided, AlwaysMakes
      <4> QED
        BY <1>3, <4>1, Retried
    <3>3. CASE Migrate[m].unless # {}
      <4>1. PICK g \in Migrate[m].unless : f \in Whole(g)
        BY <3>1, <3>3 DEF Provided
      <4>2. Passed(m)
        BY <1>3 DEF Passed
      <4> QED
        BY <1>1, <4>1, <4>2 DEF UncutInv
    <3> QED
      BY <3>2, <3>3
  <2> QED
    BY <2>1 DEF Complete
<1>4. ASSUME phase = "running" PROVE Visible
  <2>1. "oldservers" \notin db /\ at = <<1, 0>>
    BY <1>1, <1>4 DEF OldInv, TypeInv
  <2>2. legacy => {"rows:networks", "rows:servers"} \subseteq db
    BY <1>1, <2>1 DEF UncutInv
  <2>3. "set:pm_target" \in db
    BY <1>4, Retried, RetriedMakes
  <2> QED
    BY <2>2, <2>3 DEF Visible
<1> QED
  BY <1>2, <1>3, <1>4

(* A start that nothing cuts short succeeds on the database of every earlier version, *)
(* the old layout and any number of the later migrations, and leaves all the tables   *)
(* and columns the queries use, with the rows that were there.                        *)
THEOREM Upgrades == Spec => []UpgradesEveryVersion
<1> QED
  BY Inductive, InvUpgrades, PTL

LEMMA StepHarmless == IInv /\ [Next]_vars => [Complete => Complete' /\ phase' # "failed"]_vars
<1> SUFFICES ASSUME IInv, Next, Complete PROVE Complete' /\ phase' # "failed"
  OBVIOUS
<1>1. TypeInv /\ OldInv
  BY DEF IInv
<1>2. CASE Look
  BY <1>2 DEF Look, Go, Complete
<1>3. CASE Execute
  <2>1. phase = "starting" /\ at[2] # 0
    BY <1>3 DEF Execute
  <2>2. PICK m, s, stmt : m = at[1] /\ s = at[2] /\ stmt = Migrate[m].stmts[s]
    OBVIOUS
  <2>3. m # 1
    <3>1. "settings" \in db
      BY SettingsInSchema DEF Complete
    <3>2. at[2] \in Nat
      BY <1>1 DEF TypeInv
    <3> QED
      BY <1>1, <2>1, <2>2, <3>1, <3>2, OldHasNoSettings DEF OldInv
  <2>4. m \in 2..46 /\ s \in 1..Len(Migrate[m].stmts)
    BY <1>1, <2>1, <2>2, <2>3, Here
  <2>5. s \in DOMAIN Migrate[m].stmts /\ SoundStmt(stmt)
    BY <2>2, <2>4, Statements
  <2>6. stmt.needs \subseteq db
    <3>1. stmt.needs \subseteq Needs(Migrate[m])
      BY <2>2, <2>5 DEF Needs
    <3>2. Needs(Migrate[m]) \subseteq Schema
      BY <2>4, SchemaKept, LengthMigrate
    <3> QED
      BY <3>1, <3>2 DEF Complete
  <2>7. ~Fails(stmt)
    BY <2>5, <2>6 DEF Fails, SoundStmt
  <2>8. db' = (db \ stmt.drops) \union stmt.makes /\ Onward
    BY <1>3, <2>2, <2>7 DEF Execute, Current
  <2>9. Complete'
    <3>1. \A f \in Schema : f \in db /\ f \notin stmt.drops
      BY <2>5, SchemaKept DEF Complete, SoundStmt
    <3>2. \A f \in Schema : f \in db'
      BY <2>8, <3>1
    <3> QED
      BY <3>2 DEF Complete
  <2>10. phase' # "failed"
    BY <2>8 DEF Onward, Go
  <2> QED
    BY <2>9, <2>10
<1>4. CASE Crash
  BY <1>4 DEF Crash, Complete
<1>5. CASE Start
  BY <1>5 DEF Start, Complete
<1> QED
  BY <1>2, <1>3, <1>4, <1>5 DEF Next

(* On a database that has the schema no start fails, and none takes away from it. *)
THEOREM Harmless == Spec => HarmlessWhenDone
<1>1. IInv /\ [Next]_vars => [Complete => Complete' /\ phase' # "failed"]_vars
  BY StepHarmless
<1> QED
  BY <1>1, Inductive, PTL DEF Spec, HarmlessWhenDone

==============================================================================
