------------------------------ MODULE Database ------------------------------
(***************************************************************************)
(* The start of a process on its SQLite database: run_migrations of        *)
(* backend/app/persistence/database.py with the four revisions under       *)
(* backend/alembic/versions, and the table of action events they carry     *)
(* from the layout before revision 3 into the one with stream_sequence.    *)
(*                                                                         *)
(* SQLite's statements that change the schema are committed one by one     *)
(* (Alembic treats SQLite as a database without transactional DDL, and     *)
(* sqlite3 opens a transaction at the first INSERT, UPDATE or DELETE), so  *)
(* a process can be killed between any two of them; what follows the       *)
(* INSERT of revision 3 is one transaction.  A step that adds what is      *)
(* there already fails, and with it the start of the process.              *)
(***************************************************************************)
EXTENDS Naturals, Sequences, FiniteSets, SequencesExt

CONSTANTS
  Action,          \* actions of the plans, by their id
  Before(_, _),    \* the order of these ids
  OldLogs,         \* the events that databases hold when the first process starts
  MaxFaults        \* bound: kills of a process, and connections cut

(* An event says which action it is about, its number among the events of  *)
(* the action, and when it was recorded.                                   *)
Event == [action : Action, sequence : Nat, at : Nat]

(* In the order they were recorded: the clock does not run backwards, and  *)
(* the events of an action are numbered in this order from 1.              *)
Recorded(s) ==
  \A i \in DOMAIN s :
    /\ s[i].sequence = Cardinality({j \in 1..i : s[j].action = s[i].action})
    /\ \A j \in DOMAIN s : i < j => s[i].at <= s[j].at

ASSUME DatabaseAssumption ==
  /\ \A a, b, c \in Action : Before(a, b) /\ Before(b, c) => Before(a, c)
  /\ \A a, b \in Action : a # b => (Before(a, b) <=> ~Before(b, a))
  /\ \A a \in Action : ~Before(a, a)
  /\ OldLogs \subseteq Seq(Event) /\ \A s \in OldLogs : Recorded(s)
  /\ MaxFaults \in Nat

CoreTables == <<"accounts", "scan_jobs", "messages", "classifications",
                "subscription_candidates", "candidate_messages", "action_plans",
                "unsubscribe_actions", "action_events">>
ActivityColumns == <<"display_sender", "display_subject", "target_display">>

(* What a statement puts into the schema and what it takes from it.        *)
Adding(x) == [adds |-> {x}, drops |-> {}]
Renaming == [adds |-> {"action_events_before_stream_sequence"}, drops |-> {"action_events"}]
Recreating == [adds |-> {"action_events", "stream_sequence"}, drops |-> {}]
Copying == [adds |-> {}, drops |-> {"action_events_before_stream_sequence"}]

Revision1 == [i \in DOMAIN CoreTables |-> Adding(CoreTables[i])]
Revision2 == <<Adding("scan_checkpoints")>>
Revision3 == <<Adding("days"), Adding("max_messages"), Renaming, Recreating, Copying>>
Revision4 == [i \in DOMAIN ActivityColumns |-> Adding(ActivityColumns[i])]
Revisions == <<Revision1, Revision2, Revision3, Revision4>>
HeadRevision == 4

(* The schema that the revisions up to the k-th leave.                     *)
Core == Range(CoreTables)
Shape == <<Core,
           Core \cup {"scan_checkpoints"},
           Core \cup {"scan_checkpoints", "days", "max_messages", "stream_sequence"},
           Core \cup {"scan_checkpoints", "days", "max_messages", "stream_sequence"}
                \cup Range(ActivityColumns)>>

(* Databases without a revision that are no shape of a release: another    *)
(* program's, or one whose missing tables alone were created with the      *)
(* columns of a later release.                                             *)
ForeignShapes ==
  {{"accounts"}, Shape[2] \cup {"days"}, Shape[2] \cup {"days", "max_messages"},
   Shape[3] \cup {"display_sender"}}

VARIABLES
  \* durable
  schema,          \* the tables, and the columns that revisions add
  version,         \* the revision recorded in alembic_version, 0 if none is
  rows,            \* action_events, in the order of its primary key
  kept,            \* action_events_before_stream_sequence
  \* of the process
  mode,            \* "down", "stamping", "upgrading", "recovering", "up";
                   \* "refused" or "broken" when a start has failed
  stamp,           \* the revision that run_migrations is about to stamp
  done,            \* the statements of the current revision already executed
  \* bounded
  faults

dbVars == <<schema, version, rows, kept, mode, stamp, done, faults>>
durable == <<schema, version, rows, kept>>

Starting == mode \in {"stamping", "upgrading"}
Running == mode \in {"recovering", "up"}

(* INSERT ... SELECT ... ORDER BY created_at, action_id, sequence.         *)
EarlierByTime(e, f) ==       \* events of one instant in no order of their own
  \/ e.at < f.at
  \/ e.at = f.at /\ Before(e.action, f.action)
  \/ e.at = f.at /\ e.action = f.action /\ e.sequence > f.sequence
Earlier(e, f) ==
  \/ e.at < f.at
  \/ e.at = f.at /\ Before(e.action, f.action)
  \/ e.at = f.at /\ e.action = f.action /\ e.sequence < f.sequence

Copied(s) ==
  [i \in DOMAIN s |->
     CHOOSE e \in Range(s) : Cardinality({f \in Range(s) : Earlier(f, e)}) = i - 1]

(* The revision of an unversioned database, 0 when it is not recognized.   *)
LegacyRevisionByCheckpoints ==
  CASE ~(Core \subseteq schema) -> 0
    [] Core \subseteq schema /\ "scan_checkpoints" \notin schema -> 1
    [] Shape[2] \subseteq schema /\ {"days", "max_messages"} \cap schema = {} -> 2
    [] {"days", "max_messages"} \subseteq schema /\ Range(ActivityColumns) \subseteq schema -> 4
    [] {"days", "max_messages"} \subseteq schema /\ Range(ActivityColumns) \cap schema = {} -> 3
    [] OTHER -> 0
LegacyRevision ==
  CASE ~(Core \subseteq schema) -> 0
    [] Core \subseteq schema /\ "scan_checkpoints" \notin schema -> 1
    [] Shape[2] \subseteq schema /\ {"days", "max_messages"} \cap schema = {} -> 2
    [] Shape[3] \subseteq schema /\ Range(ActivityColumns) \subseteq schema -> 4
    [] Shape[3] \subseteq schema /\ Range(ActivityColumns) \cap schema = {} -> 3
    [] OTHER -> 0

DbInit ==
  /\ \/ schema = {} /\ version = 0
     \/ \E k \in 1..HeadRevision : schema = Shape[k] /\ version = 0
     \/ \E k \in 1..HeadRevision : schema = Shape[k] \cup {"alembic_version"} /\ version = k
     \/ schema \in ForeignShapes /\ version = 0
  /\ rows \in IF Core \subseteq schema THEN OldLogs ELSE {<<>>}
  /\ kept = <<>>
  /\ mode = "down" /\ stamp = 0 /\ done = 0 /\ faults = 0

(* lifespan calls run_migrations, which inspects the database.             *)
Start ==
  /\ ~Starting /\ ~Running
  /\ IF schema # {} /\ "alembic_version" \notin schema
     THEN /\ mode' = IF LegacyRevision = 0 THEN "refused" ELSE "stamping"
          /\ stamp' = LegacyRevision
     ELSE mode' = "upgrading" /\ UNCHANGED stamp
  /\ done' = 0
  /\ UNCHANGED <<durable, faults>>

EnsureVersionTable ==
  /\ Starting /\ "alembic_version" \notin schema
  /\ schema' = schema \cup {"alembic_version"}
  /\ UNCHANGED <<version, rows, kept, mode, stamp, done, faults>>

Stamp ==
  /\ mode = "stamping" /\ "alembic_version" \in schema
  /\ version' = stamp /\ mode' = "upgrading"
  /\ UNCHANGED <<schema, rows, kept, stamp, done, faults>>

(* The statements of the revision after the recorded one, in turn.         *)
Upgrading == mode = "upgrading" /\ "alembic_version" \in schema /\ version < HeadRevision
Current == Revisions[version + 1]
Statement(step) ==
  /\ Upgrading /\ done < Len(Current) /\ Current[done + 1] = step
  /\ step.adds \cap schema = {}
  /\ schema' = (schema \ step.drops) \cup step.adds
  /\ UNCHANGED <<mode, stamp, faults>>

Add ==
  /\ \E x \in UNION {Range(CoreTables), Range(ActivityColumns),
                     {"scan_checkpoints", "days", "max_messages"}} : Statement(Adding(x))
  /\ done' = done + 1
  /\ UNCHANGED <<version, rows, kept>>

Rename ==
  /\ Statement(Renaming)
  /\ kept' = rows /\ rows' = <<>>
  /\ done' = done + 1
  /\ UNCHANGED version

Recreate ==
  /\ Statement(Recreating)
  /\ done' = done + 1
  /\ UNCHANGED <<version, rows, kept>>

(* Copy, drop and the record of the revision: one transaction.             *)
DropWithoutCopy ==
  /\ Statement(Copying)
  /\ rows' = <<>> /\ kept' = <<>>
  /\ version' = version + 1 /\ done' = 0
Copy ==
  /\ Statement(Copying)
  /\ rows' = rows \o Copied(kept) /\ kept' = <<>>
  /\ version' = version + 1 /\ done' = 0

Fail ==
  /\ Upgrading /\ done < Len(Current)
  /\ Current[done + 1].adds \cap schema # {}
  /\ mode' = "broken"
  /\ UNCHANGED <<durable, stamp, done, faults>>

RecordRevision ==
  /\ Upgrading /\ done = Len(Current)
  /\ version' = version + 1 /\ done' = 0
  /\ UNCHANGED <<schema, rows, kept, mode, stamp, faults>>

UpgradedInBackground ==
  /\ mode = "upgrading" /\ "alembic_version" \in schema
  /\ mode' = "recovering"
  /\ UNCHANGED <<durable, stamp, done, faults>>
Upgraded ==
  /\ mode = "upgrading" /\ "alembic_version" \in schema /\ version = HeadRevision
  /\ mode' = "recovering"
  /\ UNCHANGED <<durable, stamp, done, faults>>

(* RecoveryService.run has returned.                                       *)
Serve ==
  /\ mode = "recovering" /\ mode' = "up"
  /\ UNCHANGED <<durable, stamp, done, faults>>

Stop ==
  /\ (Starting \/ Running) /\ faults < MaxFaults
  /\ faults' = faults + 1
  /\ mode' = "down" /\ done' = 0
  /\ UNCHANGED <<durable, stamp>>

Startup ==
  \/ Start \/ EnsureVersionTable \/ Stamp \/ Add \/ Rename \/ Recreate \/ Copy
  \/ Fail \/ RecordRevision \/ Upgraded \/ Serve

-----------------------------------------------------------------------------
(* A process serves requests only on the schema of the last revision: no   *)
(* database of another shape is taken for a release, and no revision that  *)
(* was cut short is passed over (run_migrations, database.py 78-104).      *)
ServedSchemaIsHead ==
  Running => /\ version = HeadRevision /\ kept = <<>>
             /\ schema = Shape[HeadRevision] \cup {"alembic_version"}

(* Whatever is killed and restarted, an event once recorded stays in one   *)
(* of the two tables, and in one only (revision 3, lines 28-54).           *)
EventsKept ==
  [][/\ Range(rows) \cup Range(kept) \subseteq Range(rows') \cup Range(kept')
     /\ IsInjective(rows' \o kept')]_dbVars
=============================================================================
