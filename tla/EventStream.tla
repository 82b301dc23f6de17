---------------------------- MODULE EventStream -----------------------------
(***************************************************************************)
(* The replayable stream of action events: the transactions of             *)
(* ActionRepository that record events (persistence/repositories.py), the  *)
(* endpoint that answers with the events of a plan after a cursor          *)
(* (api/events.py), and the EventSource of an open activity page.          *)
(*                                                                         *)
(* An answer is finite: it holds the events recorded when it was made.     *)
(* The page reads them one by one, and asks again with the id of the last  *)
(* one it has read, when the answer ends, the connection is cut, or the    *)
(* process has been restarted.                                             *)
(***************************************************************************)
EXTENDS Database

CONSTANTS
  Plan, PlanOf,    \* the plans, and the plan of each action
  Page,            \* open pages of the user interface
  None,
  MaxEvents        \* bound: events of one action

ASSUME StreamAssumption ==
  /\ IsFiniteSet(Action) /\ PlanOf \in [Action -> Plan]
  /\ None \notin Plan
  /\ MaxEvents \in Nat

VARIABLES
  current,         \* durable: the state of each action, as the number of the
                   \* event recorded with it; 0 before the action is confirmed
  page             \* what each page watches and has read

vars == <<dbVars, current, page>>

Closed == [plan |-> None, cursor |-> 0, answer |-> {}, got |-> <<>>, refused |-> FALSE]

(* The events of an action, and the ids (values of stream_sequence) of the *)
(* events of a plan.                                                       *)
EventsOf(a) == {i \in DOMAIN rows : rows[i].action = a}
IdsOf(p) == {i \in DOMAIN rows : PlanOf[rows[i].action] = p}
ActionsOf(p) == {a \in Action : PlanOf[a] = p}

Init ==
  /\ DbInit
  /\ current = [a \in Action |-> Cardinality({i \in DOMAIN rows : rows[i].action = a})]
  /\ page = [c \in Page |-> Closed]

(* The time of a new event decides nothing: it will not be copied again.   *)
NewEvent(a, n) == [action |-> a, sequence |-> n, at |-> 0]

(* One transaction records all actions of a plan; a plan that exists is    *)
(* left as it is.                                                          *)
Confirm(p) ==
  /\ mode = "up"
  /\ \A a \in ActionsOf(p) : current[a] = 0
  /\ \E order \in [1..Cardinality(ActionsOf(p)) -> ActionsOf(p)] :
       /\ IsInjective(order)
       /\ rows' = rows \o [i \in DOMAIN order |-> NewEvent(order[i], 1)]
  /\ current' = [a \in Action |-> IF a \in ActionsOf(p) THEN 1 ELSE current[a]]
  /\ UNCHANGED <<schema, version, kept, mode, stamp, done, faults, page>>

(* A state and the event of the same number: one transaction.  Which       *)
(* states follow which is the matter of ActionLifecycle.                   *)
SetState(a) ==
  /\ Running
  /\ current[a] \in 1..(MaxEvents - 1)
  /\ rows' = Append(rows, NewEvent(a, Cardinality(EventsOf(a)) + 1))
  /\ current' = [current EXCEPT ![a] = @ + 1]
  /\ UNCHANGED <<schema, version, kept, mode, stamp, done, faults, page>>

Watch(c, p) ==
  /\ mode = "up" /\ page[c].plan = None
  /\ page' = [page EXCEPT ![c].plan = p]
  /\ UNCHANGED <<dbVars, current>>

LeaveKeepingCursor(c) ==
  /\ page[c].plan # None
  /\ page' = [page EXCEPT ![c] = [Closed EXCEPT !.cursor = page[c].cursor]]
  /\ UNCHANGED <<dbVars, current>>
Leave(c) ==
  /\ page[c].plan # None
  /\ page' = [page EXCEPT ![c] = Closed]
  /\ UNCHANGED <<dbVars, current>>

(* list_events: the cursor must be the id of an event of the plan.         *)
ListEventsFromCursor(p, cursor) == {i \in IdsOf(p) : i >= cursor}
ListEvents(p, cursor) == {i \in IdsOf(p) : i > cursor}

AskOnce(c) ==
  /\ mode = "up"
  /\ page[c].plan # None /\ page[c].answer = {} /\ page[c].cursor = 0
  /\ page' = [page EXCEPT ![c].answer = IdsOf(page[c].plan)]
  /\ UNCHANGED <<dbVars, current>>
Ask(c) ==
  /\ mode = "up"
  /\ page[c].plan # None /\ page[c].answer = {} /\ ~page[c].refused
  /\ page' = IF page[c].cursor # 0 /\ page[c].cursor \notin IdsOf(page[c].plan)
             THEN [page EXCEPT ![c].refused = TRUE]
             ELSE [page EXCEPT ![c].answer = ListEvents(page[c].plan, page[c].cursor)]
  /\ UNCHANGED <<dbVars, current>>

(* The next event of the answer, in the order of stream_sequence.          *)
Least(S) == CHOOSE i \in S : \A j \in S : i <= j
Read(c) ==
  /\ page[c].answer # {}
  /\ LET id == Least(page[c].answer) IN
       page' = [page EXCEPT ![c].answer = @ \ {id}, ![c].cursor = id,
                            ![c].got = Append(@, id)]
  /\ UNCHANGED <<dbVars, current>>

Interrupted(pg) == [pg EXCEPT !.answer = {}]
Cut(c) ==
  /\ page[c].answer # {} /\ faults < MaxFaults
  /\ faults' = faults + 1
  /\ page' = [page EXCEPT ![c] = Interrupted(@)]
  /\ UNCHANGED <<durable, mode, stamp, done, current>>

Next ==
  \/ Startup /\ UNCHANGED <<current, page>>
  \/ Stop /\ page' = [c \in Page |-> Interrupted(page[c])] /\ UNCHANGED current
  \/ \E p \in Plan : Confirm(p)
  \/ \E a \in Action : SetState(a)
  \/ \E c \in Page : \/ Leave(c) \/ Ask(c) \/ Read(c) \/ Cut(c)
                     \/ \E p \in Plan : Watch(c, p)

(* The process is started again after a stop, a start goes on by itself,   *)
(* and an EventSource asks again and reads as long as its page is open.    *)
Fairness ==
  /\ WF_vars(Startup /\ UNCHANGED <<current, page>>)
  /\ \A c \in Page : WF_vars(Ask(c)) /\ WF_vars(Read(c))

Spec == Init /\ [][Next]_vars /\ Fairness

-----------------------------------------------------------------------------
(* The type invariant.                                                     *)
TypeOK ==
  /\ schema \subseteq Shape[HeadRevision] \cup {"alembic_version", "action_events_before_stream_sequence"}
  /\ version \in 0..HeadRevision /\ stamp \in 0..HeadRevision /\ done \in 0..Len(CoreTables)
  /\ rows \in Seq(Event) /\ kept \in Seq(Event)
  /\ mode \in {"down", "stamping", "upgrading", "recovering", "up", "refused", "broken"}
  /\ faults \in 0..MaxFaults
  /\ current \in [Action -> Nat]
  /\ page \in [Page -> [plan : Plan \cup {None}, cursor : Nat, answer : SUBSET Nat,
                        got : Seq(Nat), refused : BOOLEAN]]

(* A page has read the events of its plan up to its cursor, each once and  *)
(* in the order of their ids, over every cut, restart and new answer, and  *)
(* what is left of an answer begins at the next one (list_events,          *)
(* repositories.py 183-228; Last-Event-ID in api/events.py).               *)
InOrder(s) == \A i, j \in DOMAIN s : i < j => s[i] < s[j]
ReceivedOnceInOrder ==
  \A c \in Page : LET pg == page[c] IN
    pg.plan # None =>
      /\ InOrder(pg.got)
      /\ Range(pg.got) = {i \in IdsOf(pg.plan) : i <= pg.cursor}
      /\ \A i \in pg.answer : /\ i \in IdsOf(pg.plan) /\ i > pg.cursor
                              /\ \A j \in IdsOf(pg.plan) : pg.cursor < j /\ j < i => j \in pg.answer

(* The endpoint never answers 404 to a page that reconnects: the last id   *)
(* it has read stays an event of the plan it watches.                      *)
CursorIsKnown == \A c \in Page : ~page[c].refused

(* The last event of an action in the stream, which the activity view      *)
(* shows beside the state and which decides whether a retry is offered, is *)
(* the one recorded with this state - also after revision 3 has given the  *)
(* events their new order (list_activity, repositories.py 120-151).        *)
LatestEventIsOfTheState ==
  Running => \A a \in Action :
    EventsOf(a) # {} =>
      LET last == CHOOSE i \in EventsOf(a) : \A j \in EventsOf(a) : j <= i
      IN  rows[last].sequence = current[a]

(* The log of each plan, whichever table it is in, and what the pages have *)
(* read of it: together they implement EventLog, the upgrade of the        *)
(* database is invisible, and every event reaches every page that stays.   *)
Stream ==
  IF "action_events_before_stream_sequence" \in schema THEN Copied(kept)
  ELSE IF "stream_sequence" \in schema THEN rows ELSE Copied(rows)
NotAfter(S, i) == {j \in S : j <= i}
Nth(S, k) == CHOOSE i \in S : Cardinality(NotAfter(S, i)) = k
PlacesIn(s, p) == {i \in DOMAIN s : PlanOf[s[i].action] = p}
OfPlan(s, p) ==
  [k \in 1..Cardinality(PlacesIn(s, p)) |-> s[Nth(PlacesIn(s, p), k)]]
Got(pg) == [i \in DOMAIN pg.got |-> rows[pg.got[i]]]
Log == INSTANCE EventLog WITH
  log <- [p \in Plan |-> OfPlan(Stream, p)],
  watching <- [c \in Page |-> page[c].plan],
  received <- [c \in Page |-> Got(page[c])],
  Entry <- Event
ImplementsLog == Log!Spec
=============================================================================
