------------------------------ MODULE Migrations ------------------------------
(***************************************************************************)
(* What every start does to the database (internal/storage/migrations.go).  *)
(*                                                                          *)
(* There is no version table: each migration looks at the schema to see     *)
(* whether it is needed, and runs its statements, which SQLite commits one   *)
(* by one.  A crash may come between any two of them, and the next start     *)
(* begins from the top.                                                      *)
(*                                                                          *)
(* The database is a set of facts: "t" a table, "t.c" a column, "i:" an      *)
(* index or a trigger, and of the rows that were there before: "rows:t" they *)
(* are in table t, "set:x" the backfill x has reached them.                  *)
(***************************************************************************)
EXTENDS Integers, Sequences, FiniteSets, SequencesExt

CONSTANT MaxCrashes   \* bound: crashes, and starts that a passing error ends

ASSUME BoundAssumption == MaxCrashes \in Nat

VARIABLES
    db,         \* the facts of the database
    at,         \* the migration that runs, and its next statement; 0: not looked yet
    phase,      \* "starting", "running", "failed": Migrate returned an error, "down"
    crashes,
    legacy      \* it was made by an earlier version, and has rows

vars == <<db, at, phase, crashes, legacy>>

------------------------------------------------------------------------------
(* The statements.  One that finds what it needs gone, or what it makes there *)
(* already, is an error.                                                      *)

Statement(needs, makes, drops) == [needs |-> needs, makes |-> makes, drops |-> drops, once |-> FALSE]
Make(makes)            == Statement({}, makes, {})          \* ... IF NOT EXISTS, or an UPDATE
MakeOn(needs, makes)   == Statement(needs, makes, {})
Rename(from, to, more) == [Statement(from, to \union more, from) EXCEPT !.once = TRUE]

(* A migration and what makes it unnecessary. *)
Always(stmts)     == [unless |-> {}, stmts |-> stmts]
Unless(f, stmts)  == [unless |-> {f}, stmts |-> stmts]
Column(t, c)      == Unless(c, <<MakeOn({t}, {c})>>)
Table(t)          == Always(<<Make({t})>>)

(* migrateRefactorTables: unless there is no table of the old name, or one of the *)
(* new; the old layout's "servers" is written "oldservers".                        *)
RefactorTables ==
    [unless |-> {"networks", "servers"},
     stmts |-> <<Rename({"oldservers", "rows:oldservers"}, {"networks", "rows:networks"}, {}),
                 Rename({"server_addresses", "rows:server_addresses"}, {"servers", "rows:servers"}, {}),
                 Rename({"servers.server_id"}, {"servers.network_id"}, {}),
                 Rename({"channels.server_id"}, {"channels.network_id"}, {}),
                 Rename({"messages.server_id"}, {"messages.network_id"}, {}),
                 Make({"i:messages_time", "i:servers_order"})>>]

(* CREATE TABLE IF NOT EXISTS brings its columns only where it makes the table. *)
NewTable(t, cols) == Unless(t, <<Make({t} \union cols)>>)
BaseTables ==
    <<NewTable("networks", {}), NewTable("servers", {"servers.network_id"}),
      NewTable("channels", {"channels.network_id", "channels.topic", "channels.modes", "channels.updated_at"}),
      NewTable("channel_users", {}),
      NewTable("messages", {"messages.network_id", "messages.pm_target"}),
      Always(<<MakeOn({"messages.network_id"}, {"i:messages_time"}), Make({"i:messages_timestamp"}),
               MakeOn({"servers.network_id"}, {"i:servers_order"})>>)>>

(* migrateSASLFields looks at the first of the five columns only. *)
SASLColumns ==
    <<"networks.sasl_enabled", "networks.sasl_mechanism", "networks.sasl_username", "networks.sasl_password",
      "networks.sasl_external_cert">>
SASLFields ==
    Unless("networks.sasl_enabled", [i \in 1..5 |-> MakeOn({"networks"}, {SASLColumns[i]})])

(* The rows that were there get a time only where the column was just added. *)
ChannelInfo ==
    <<Column("channels", "channels.topic"), Column("channels", "channels.modes"),
      Unless("channels.updated_at", <<MakeOn({"channels"}, {"channels.updated_at"}), Make({"set:updated_at"})>>),
      Table("channel_users")>>

NetworkColumns ==
    <<Column("networks", "networks.auto_connect"), Column("networks", "networks.identify_as_bot"),
      Column("networks", "networks.color"), Column("networks", "networks.icon_path"), Column("networks", "networks.sort_order"),
      Always(<<Make({"set:sort_order"})>>)>>

ChannelColumns == <<Column("channels", "channels.is_open"), Column("channels", "channels.key")>>

PrivateMessageConversations ==
    Unless("conversations", <<Make({"conversations"}), MakeOn({"messages.network_id"}, {"set:conversations"})>>)

PluginConfigs ==
    <<Unless("plugin_configs", <<Make({"plugin_configs", "plugin_configs.config", "plugin_configs.config_schema"})>>),
      Column("plugin_configs", "plugin_configs.config"), Column("plugin_configs", "plugin_configs.config_schema"),
      Always(<<Make({"set:plugin_blobs"})>>)>>

FTS5 ==
    <<Unless("messages_fts", <<Make({"messages_fts"}), Make({"set:messages_fts"})>>),
      Always(<<Make({"i:messages_ai"}), Make({"i:messages_ad"}), Make({"i:messages_au"})>>)>>

PinnedMessages ==
    <<Unless("pinned_messages", <<Make({"pinned_messages"})>>), Always(<<Make({"i:pinned"})>>)>>

(* mutant: the backfill belongs to the migration that adds the column *)
PMTargetOnce ==
    <<Unless("messages.pm_target", <<MakeOn({"messages"}, {"messages.pm_target"}), Make({"set:pm_target"})>>),
      Always(<<MakeOn({"messages.network_id"}, {"i:pm_target"})>>)>>

(* migratePMTarget: its backfill, one transaction, is tried at every start. *)
PMTarget ==
    <<Column("messages", "messages.pm_target"),
      Always(<<MakeOn({"messages.network_id"}, {"i:pm_target"}), Make({"set:pm_target"})>>)>>

(* mutant: the dedup index is made anew at every start *)
MessageColumnsRebuilt ==
    <<Column("messages", "messages.msgid"),
      Always(<<Statement({}, {}, {"i:network_msgid", "i:conv_msgid"}), MakeOn({"messages.msgid"}, {"i:conv_msgid"})>>),
      Column("messages", "messages.reply_msgid"), Column("messages", "messages.channel_context"),
      Always(<<Make({"set:timestamps"})>>)>>

(* migrateEventDedupIndex drops the coarse index first. *)
MessageColumns ==
    <<Column("messages", "messages.msgid"),
      Always(<<Statement({}, {}, {"i:network_msgid"}), MakeOn({"messages.msgid"}, {"i:conv_msgid"})>>),
      Column("messages", "messages.reply_msgid"), Column("messages", "messages.channel_context"),
      Always(<<Make({"set:timestamps"})>>)>>

LaterTables ==
    <<Table("settings"), Table("sts_policies"), Table("monitored_nicks"), Table("script_state"),
      Table("link_previews"), Always(<<Make({"activity_items"}), Make({"i:activity"})>>),
      Column("activity_items", "activity_items.trusted"), Column("activity_items", "activity_items.expires_at"),
      Table("activity_ignored_senders"), Always(<<Make({"file_transfers"}), Make({"i:file_transfers"})>>)>>

(* mutant: the indexes of the base tables come before the old tables are renamed *)
MigrateIndexesFirst ==
    <<BaseTables[6], RefactorTables>> \o SubSeq(BaseTables, 1, 5) \o <<SASLFields>> \o ChannelInfo \o
    NetworkColumns \o ChannelColumns \o <<PrivateMessageConversations>> \o PluginConfigs \o FTS5 \o
    PinnedMessages \o PMTarget \o MessageColumns \o LaterTables

Migrate ==
    <<RefactorTables>> \o BaseTables \o <<SASLFields>> \o ChannelInfo \o
    NetworkColumns \o ChannelColumns \o <<PrivateMessageConversations>> \o PluginConfigs \o FTS5 \o
    PinnedMessages \o PMTarget \o MessageColumns \o LaterTables

------------------------------------------------------------------------------
(* The databases a start may find *)

OldLayout ==
    {"oldservers", "rows:oldservers", "server_addresses", "rows:server_addresses", "servers.server_id",
     "channels", "channels.server_id", "messages", "messages.server_id"}

Facts(m) == UNION {Migrate[m].stmts[i].makes : i \in DOMAIN Migrate[m].stmts}
FactsFrom(i, j) == UNION {Facts(m) : m \in i..j}

(* What versions since have left: the base tables of their time, and the first k *)
(* of the migrations after them.                                                  *)
LaterColumns == {"channels.topic", "channels.modes", "channels.updated_at", "messages.pm_target"}
LeftBy(k) ==
    (FactsFrom(2, 7) \ (LaterColumns \union {"channel_users"})) \union
    {"rows:networks", "rows:servers", "i:network_msgid"} \union FactsFrom(8, k)

Init ==
    /\ legacy \in BOOLEAN
    /\ db \in IF legacy THEN {OldLayout} \union {LeftBy(k) : k \in 7..Len(Migrate)} ELSE {{}}
    /\ at = <<1, 0>> /\ phase = "starting" /\ crashes = 0

------------------------------------------------------------------------------
(* Starts and crashes *)

Current == Migrate[at[1]]
Go(m, s) == IF m > Len(Migrate) THEN at' = <<1, 0>> /\ phase' = "running"
            ELSE at' = <<m, s>> /\ phase' = "starting"
Onward == IF at[2] < Len(Current.stmts) THEN Go(at[1], at[2] + 1) ELSE Go(at[1] + 1, 0)

(* Whether the migration is needed is looked up once, before its statements. *)
Look ==
    /\ phase = "starting" /\ at[2] = 0
    /\ IF Current.unless \intersect db # {} THEN Go(at[1] + 1, 0)
       ELSE IF at[1] = 1 /\ "oldservers" \notin db THEN Go(2, 0)
       ELSE Go(at[1], 1)
    /\ UNCHANGED <<db, crashes, legacy>>

Fails(stmt) == ~(stmt.needs \subseteq db) \/ (stmt.once /\ stmt.makes \intersect db # {})

Execute ==
    /\ phase = "starting" /\ at[2] # 0
    /\ LET stmt == Current.stmts[at[2]] IN
       IF Fails(stmt) THEN phase' = "failed" /\ UNCHANGED <<db, at>>
       ELSE db' = (db \ stmt.drops) \union stmt.makes /\ Onward
    /\ UNCHANGED <<crashes, legacy>>

(* The process dies, or a statement fails for once: the disk is full, the *)
(* database locked.                                                       *)
Crash ==
    /\ phase = "starting" /\ crashes < MaxCrashes
    /\ crashes' = crashes + 1 /\ phase' = "down"
    /\ UNCHANGED <<db, at, legacy>>

Start ==
    /\ phase \in {"running", "failed", "down"}
    /\ at' = <<1, 0>> /\ phase' = "starting"
    /\ UNCHANGED <<db, crashes, legacy>>

Next == Look \/ Execute \/ Crash \/ Start

Spec == Init /\ [][Next]_vars

------------------------------------------------------------------------------
(* What the queries of this version rely on; of rows there were, what makes them *)
(* visible.                                                                      *)
Backfills == {"set:updated_at", "set:conversations", "set:messages_fts"}
Schema    == FactsFrom(2, Len(Migrate)) \ (Backfills \union {"set:pm_target"})
Complete  == Schema \subseteq db
Visible   == legacy => {"rows:networks", "rows:servers", "set:pm_target"} \subseteq db

(* A start that is not cut short brings the database of every earlier version up to *)
(* date: nothing the queries use is missing, and what it had is visible.             *)
UpgradesEveryVersion ==
    crashes = 0 => phase # "failed" /\ (phase = "running" => Complete /\ Visible)

(* Wherever a start was cut short, the next one that succeeds has the backfill of    *)
(* private messages, the order of the networks, the plugins' columns, the time       *)
(* format, the triggers and the dedup index in place, and the coarse index gone.     *)
RetriedUntilDone ==
    phase = "running" =>
        /\ {"set:pm_target", "set:sort_order", "set:plugin_blobs", "set:timestamps",
            "i:messages_ai", "i:messages_ad", "i:messages_au", "i:conv_msgid"} \subseteq db
        /\ "i:network_msgid" \notin db

(* Migrations run at every start: on a database that is up to date they change      *)
(* nothing that is used, and succeed.                                               *)
HarmlessWhenDone == [][Complete => Complete' /\ phase' # "failed"]_vars
==============================================================================
