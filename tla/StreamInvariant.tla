-------------------------- MODULE StreamInvariant ---------------------------
(***************************************************************************)
(* The inductive invariant of EventStream.                                 *)
(***************************************************************************)
EXTENDS EventStream

Before3 == "action_events_before_stream_sequence"
AllEvents == Range(rows) \cup Range(kept)
Mine(a) == {e \in AllEvents : e.action = a}

(* The schema that k revisions and d statements of the next one leave.     *)
Prefix(s, d) == {s[i] : i \in {j \in DOMAIN s : j <= d}}
Executed(k, d) ==
  CASE k = 0 -> Prefix(CoreTables, d)
    [] k = 1 -> Core \cup Prefix(<<"scan_checkpoints">>, d)
    [] k = 2 -> (IF d = 3 THEN Shape[2] \ {"action_events"} ELSE Shape[2])
                  \cup Prefix(<<"days", "max_messages", Before3, "stream_sequence">>, d)
    [] k = 3 -> Shape[3] \cup Prefix(ActivityColumns, d)
    [] OTHER -> Shape[4]
First(k) == <<"accounts", "scan_checkpoints", "days", "display_sender">>[k + 1]

(* A schema without a revision is as the first process found it; one with  *)
(* a revision fits it and the statements executed since, or the next       *)
(* statement will fail.                                                    *)
Fits ==
  IF "alembic_version" \notin schema
  THEN /\ version = 0 /\ done = 0
       /\ IF mode = "stamping" THEN stamp \in 1..4 /\ schema = Shape[stamp]
          ELSE IF mode = "upgrading" THEN schema = {}
          ELSE schema = {} \/ schema \in Range(Shape) \cup ForeignShapes
  ELSE IF mode = "stamping"
  THEN /\ version = 0 /\ done = 0 /\ stamp \in 1..4
       /\ schema = Shape[stamp] \cup {"alembic_version"}
  ELSE \/ schema = Executed(version, done) \cup {"alembic_version"}
       \/ version < HeadRevision /\ done = 0 /\ First(version) \in schema

(* The events are in the old table, or renamed and not yet copied.         *)
Renamed ==
  /\ Before3 \in schema => version = 2 /\ "alembic_version" \in schema /\ rows = <<>>
  /\ Before3 \notin schema => kept = <<>>
  /\ version = 2 => done <= 4
  /\ Running => version = HeadRevision

(* An action has an event for each of its states, numbered as they were    *)
(* recorded; in the old layout their times agree with the numbers.         *)
Numbered ==
  /\ IsInjective(rows \o kept)
  /\ \A e, f \in AllEvents : e.action = f.action =>
       /\ e.sequence = f.sequence => e = f
       /\ version < 3 /\ e.sequence < f.sequence => e.at <= f.at
  /\ \A a \in Action :
       /\ current[a] = Cardinality(Mine(a))
       /\ \A e \in Mine(a) : e.sequence <= current[a]
       /\ current[a] # 0 => \E e \in Mine(a) : e.sequence = current[a]
  /\ \A i, j \in DOMAIN rows :
       i < j /\ rows[i].action = rows[j].action => rows[i].sequence < rows[j].sequence

(* Pages are open only on the last revision, where rows are only ever      *)
(* appended, and their cursor is an id they have read.                     *)
PagesOpen ==
  \A c \in Page : LET pg == page[c] IN
    /\ pg.plan = None => pg = Closed
    /\ pg.plan # None => version = HeadRevision
    /\ pg.cursor # 0 => pg.cursor \in IdsOf(pg.plan)
    /\ pg.cursor = 0 => pg.got = <<>>

(* Types, the fit of schema and revision through every kill and restart    *)
(* (database.py 52-104), events and states counted alike (repositories.py  *)
(* 230-265), and open pages only on a database that has been upgraded      *)
(* (lifespan, main.py 170-186).                                            *)
IInv ==
  /\ TypeOK /\ Fits /\ Renamed /\ Numbered
  /\ PagesOpen /\ ReceivedOnceInOrder /\ CursorIsKnown
=============================================================================
