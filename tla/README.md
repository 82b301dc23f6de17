# A verification of the Gmail unsubscribe agent

These modules model the backend of the Gmail unsubscribe agent (`src/backend/app`)
in TLA+.  TLC checks them on small instances; TLAPS proves the central results
for every value of the constants.  `PROJECT.json` lists the components, the
runs, what every definition translates (`map`), the hazards of the code and the
theorems.

Paths below are relative to `src/backend/app` unless they start with `src/`.

## 1. The system

The program is a local FastAPI application: one process, one asyncio event
loop, one SQLite database, one user, one Gmail account.  Every HTTP request is a
coroutine.  It keeps the loop until it awaits something, so the only places
where two requests interleave are the awaits (network, browser, keyring, model),
and every SQLite transaction is atomic with respect to other requests but not
with respect to a crash of the process.

| Part | State it keeps | Operations | Talks to |
|---|---|---|---|
| Scan service (`scan/`) | `scan_checkpoints` rows (durable); locks and the set of rehydrated scans (memory) | `run`, `rehydrate` | Gmail, pipeline |
| Pipeline and catalog (`pipeline.py`, `candidates/`) | evaluated messages, corrections (memory) | `process`, `add`, `candidates`, `correct` | classifier |
| Classification (`classification/`), message processing (`email_processing/`) | none | pure, one model call | OpenAI |
| Action plans (`actions/planner.py`) | plans and their confirmed flag (memory) | `create`, `confirm` | catalog, URL policy |
| Execution coordinator (`actions/coordinator.py`) | one lock (memory) | `confirm_and_execute`, `review_and_retry` | plans, repository, executors |
| Executors (`executors/`) | browser sessions (memory) | `execute`, `resume`, `take_over`, `cancel` | lists' servers, Gmail, Chromium |
| Browser sessions (`actions/browser_sessions.py`) | none of its own | `take_over`, `resume`, `cancel` | browser executor, repository |
| Repository (`persistence/repositories.py`) | `unsubscribe_actions`, `action_events` (durable) | `create_confirmed_plan`, `set_state`, `consume_retry`, `persist_outbound_message_id`, `list_events` | SQLite |
| Startup recovery (`recovery.py`, `main.py` lifespan) | readiness (memory) | `run`, before any request | repository, Gmail |
| Database (`persistence/database.py`, `src/backend/alembic`) | the schema and its revision (durable) | `run_migrations`, before recovery | SQLite |
| Event stream (`api/events.py`, the activity page) | the cursor of each open page (browser) | `stream_events`, reconnect | repository |
| Gmail account (`gmail/oauth.py`) | credential and scopes in the keyring | `start`, `complete`, `disconnect` | Google |
| HTTP layer (`api/`), frontend (`src/frontend`) | none that matters here | | |

What is hard here:

* **The outside world cannot be rolled back.**  A POST, a mail and a click
  happen once and for all, while the row that says so is written before and after.
  A crash, a timeout or a lost answer falls in between.
* **Awaits inside the lock.**  `confirm_and_execute` awaits the Gmail permission
  check between looking at the idempotency keys and confirming the plan, and then
  a whole series of slow calls.
* **Unlocked requests.**  `resume`, `take_over` and `cancel` of a browser session
  take no lock; what keeps them apart is the transition table of the row.
* **Statements that cannot be rolled back.**  SQLite commits every statement that
  changes the schema by itself; a process can be killed in the middle of an upgrade,
  with the events of years in a table under another name.
* **State in three places.**  Plans, candidates, corrections and browser sessions
  are in memory; actions and scan checkpoints are in the database; what the user has
  read, and the cursor of the event stream, are in a browser tab.  A restart
  forgets the first.

What makes the components correct:

* coordinator, executors and recovery: no side effect that may have happened is
  repeated; `submitted` is only claimed with something to show for it; every
  started action gets an outcome; what is executed is what the user reviewed;
* browser sessions: one final click per session, one driver per action;
* scan: no message of a page is skipped, the limit is kept, what a scan has seen
  can be reviewed after a restart;
* event stream: a reconnecting client misses nothing and gets nothing twice;
* database: no request meets a schema of another release, and no upgrade loses
  events, wherever it is cut short;
* catalog and plans: a confirmation covers what the page listed and no
  correction its author had not seen; nothing is called marketing on the model's word
  alone.

## 2. Modules

| Module | Models | Kind |
|---|---|---|
| `ActionStates` | the states and the transition table (`domain/state_machine.py`) | data |
| `ActionLifecycle` | what is promised of every action, whatever its method | abstract specification |
| `Execution` | every writer of `unsubscribe_actions` | detailed specification and its properties |
| `ExecutionInvariant` | the inductive invariant of `Execution` | invariant |
| `ExecutionProofs` | type correctness and the invariants of `Execution` | TLAPS proofs |
| `ConsentProofs` | what is recorded is what was reviewed, whole | TLAPS proofs |
| `OrphanProofs` | no row is left behind while requests are served | TLAPS proofs |
| `LifecycleProofs` | `Execution` implements `ActionLifecycle` | TLAPS proofs |
| `MCExecution` | instances of `Execution` | TLC |
| `Scan` | bounded scans of the mailbox and their checkpoints | specification and its properties |
| `ScanInvariant` | the inductive invariant of `Scan` | invariant |
| `ScanProofs` | type correctness and the invariants of `Scan` | TLAPS proofs |
| `MCScan` | instances of `Scan` | TLC |
| `BrowserSession` | one browser session with its page, its callbacks and its requests; a refinement of `Execution` | specification, properties, inductive invariant |
| `BrowserSessionProofs` | the invariants of `BrowserSession`; it takes steps of `Execution` and keeps its promises | TLAPS proofs |
| `MCBrowserSession` | instances of `BrowserSession` | TLC |
| `MailReading` | what is read of a message: text, methods, category, group | pure functions |
| `Review` | filing, grouping, correcting, planning, confirming, in several tabs | specification, properties, inductive invariant |
| `ReviewProofs` | the invariants and action properties of `Review`, what is chosen and what is read | TLAPS proofs |
| `MCReview` | a mailbox for `Review` | TLC |
| `Database` | start of a process on its database: recognition, stamp, four upgrades | component of `EventStream` |
| `EventLog` | what is promised of the event stream | abstract specification |
| `EventStream` | recording of events, answers after a cursor, the page that reads them, on top of `Database` | detailed specification and its properties |
| `StreamInvariant` | the inductive invariant of `EventStream` | invariant |
| `EventStreamProofs` | the invariants of `EventStream`, `EventsKept`; it takes steps of `EventLog` | TLAPS proofs |
| `MCEventStream` | databases and plans for `EventStream` | TLC |

How they fit together:

```
ActionLifecycle  <--implements--  Execution  <--implements--  BrowserSession
        \                            /                              /
         +--------- ActionStates ----+------------------------------+
EventLog         <--implements--  EventStream  --extends-->  Database
Review           --extends-->  MailReading
```

`Scan`, `Review`, `Execution` and `EventStream` meet in a few values only:

* `Scan` says which messages are filed and when; `Review`'s `File` files any message
  at any time, which covers it.
* `Review` says which plans exist and get confirmed; `Execution` keeps of a candidate
  whether it is present and at which revision, and its `Discover`, `Correct`,
  `CreatePlan` and `ConfirmPlan` are that part of `Review`.
* `Execution` says which states follow one another; `EventStream` records a state as
  the number of its event.
* The crash of the process empties the memory in each of them.

### Execution

State and the code it stands for:

* `row` is the table `unsubscribe_actions` with the evidence code of each row's
  latest event, `retry_count` (`retries`), `outbound_message_id # None`
  (`journaled`) and `external_id # None` (`ext`).  Evidence codes other than the
  two that `review_and_retry` reads are one value, `"other"`.
* `catalog`, `plan`, `lock`, `session` are the memory of the process;
  `session[a].shown` says that the activity view has shown the session's id,
  without which a client cannot name it.
* `pc`, `op`, `act`, `rest`, `result` are the coroutine of each `Task`.  `act` is
  the plan during confirmation and the action afterwards.
* `scope` and `sent` are Gmail's side: the granted permission, the Sent folder.
* `contacts` and `refused` are history: how often the outside world was contacted
  for an action, and how many of these contacts are known to have had no effect (a
  429 or 503 answer).

An action is identified by its idempotency key; `_build_action` hashes candidate,
revision, method and target, so an action is a pair of candidate and revision here
and its method a function of the candidate (`Method`).

Every step of a task is one transaction or one await.  `Suspended` lists the
program points at which a task is in an await; a step of task `t` requires
`LoopFree(t)`, every other task suspended.  Gmail's filing of a mail and the
crash need no free loop.  `Raise` is any exception the code does not catch, at any
point (`MaxFaults` per process lifetime); `async with` releases the lock.

`Crash` forgets the memory and starts recovery (`~up`), which may itself be
interrupted; while it runs no request is served (`lifespan` in `main.py`).
The three passes of `RecoveryService.run` are modelled by their order: a pass
starts only when the earlier one has emptied its selection.

`ConfirmEnter` shows why confirmations are not repeated: its guard looks for the
idempotency keys, and the transition table does the rest.

### Properties

| Property | Says |
|---|---|
| `NoRepeatedSideEffect` | at most one contact per action is not known to be without effect, two at most in all |
| `RetryOnlyWithoutEffect` | a retry is open only when nothing done so far can be in effect |
| `SubmittedIsBacked` | `submitted` is never claimed without such a contact; for mail, never without the mail in Sent |
| `IntentIsDurable` | a crash at any point finds `executing` and the Message-ID in the row |
| `NoOrphan` | while requests are served, no row is left `executing` or `confirmed_by_user` without a task, unless a request failed unexpectedly |
| `OneDriver` | no two requests work on one action at once |
| `ConsentIsCurrent`, `PlanIsRecordedWhole` | what is recorded is the confirmed plan, whole, at the reviewed revisions |
| `ImplementsLifecycle` | `Execution` implements `ActionLifecycle` |
| `EveryActionSettles`, `LockIsReleased`, `RecoveryCompletes` | progress |
| `RefusedOnlyIfAttempted` | the words of `ActionAlreadyAttempted`; does **not** hold |

The operators marked *Variant* in a module are plausible mistakes in the
definition after them.  No specification uses them; `PROJECT.json` names for each
property the variant that breaks it, which shows that the property depends on the
code.

### Scan

State and the code it stands for:

* `seen`, `token`, `complete` are the columns of `scan_checkpoints`
  (`seen_message_ids_json`, `next_page_token`, `completed`).
* `rehydrated` and `scanLock` are `_rehydrated_scan_ids` and `_scan_locks`;
  `catalog` is the set of messages filed in the in-memory catalog.
* `scan`, `limit`, `cursor`, `todo`, `msg` are the locals of a run: scan id,
  `max_messages`, `page_token`, the ids of the loop at hand, the message in hand.
* `newest` and `deleted` are the mailbox.  A message is the number of its arrival;
  Gmail lists the newest first.  A page token `k` stands for "older than `k`", 0 for no
  token, which makes the saved token comparable with what was read.
* `owed` is history: what was in the mailbox when the scan last listed from the
  top, and so what it owes a reading of.

`Run` takes the scan's lock and remembers the request; `RereadNext`, `RereadDone`
are `rehydrate`; `Decide`, `ListPage`, `NextReference`, `MarkSeen`, `Checkpoint`,
`Complete` the page loop; `ReadMessage` and `FileMessage` serve both.
`CallFails` is a `ScanFailure` out of any await, `ReadGone` the one that no retry
helps against.  The three attempts of `_read_with_retry` are one await: between them
nothing is written.  `FirstSeen` picks any `max_messages` of the seen ids, since the
code sorts them by id, which says nothing about time.

`Page` is external: Gmail may return fewer references than asked for, never none
before the end of the list, and its tokens stay valid.

| Property | Says |
|---|---|
| `LimitIsKept` | `max_messages` holds over all runs of a scan, across restarts |
| `NothingSkipped` | the saved token never passes a message that was neither seen nor deleted |
| `SeenIsReviewable` | once a scan is past its rehydration, all it has ever seen is in the catalog (for scans that always have the same limit) |
| `RunReturns` | every run returns or raises |
| `RetriedScanFinishes` | a scan the user keeps retrying gets to its limit or to the end; holds without deletions, does **not** hold with one |

### BrowserSession

`Execution` sees a browser session in five coarse steps.  `BrowserSession` has one
session of one action in every await of `BrowserExecutor.execute`, `_advance` and
`resume`, and between any two awaits the callbacks of Playwright.

State and the code it stands for:

* `registered`, `shown` are the registry entry and whether a client knows its id;
* `context` (`none`, `open`, `guarded`, `closed`), `pageOpen`, `blocked`,
  `navigations`, `clicked`, `manual` are the fields of `BrowserSession`
  (`browser.py`) that decide what the program does next;
* `routing` counts main-frame requests whose handler is suspended in the policy
  check: several may be there at once, which is what makes the limit of two
  navigations worth a property;
* `clicks`, `admitted`, `doubtful`, `stopped` are history.

What the page shows is no state.  Each look at it (text, password fields,
controls, attributes) is an await of its own and may find anything an open page can
show: `AlreadyAccepted`, `LookOn` and `LookPauses` are the three ways a look
can end.  `Outcome` is `BrowserOutcomePolicy.evaluate` with the visible text as a
choice; a closed page has no text.

`CoarsePC` maps the program points to those of `Execution`; the point `resuming`
maps by what `resume` is about to decide.

| Property | Says |
|---|---|
| `TwoNavigations` | the page gets at most two navigations before the click, over all resumes and concurrent handlers |
| `OneClick` | the final control is clicked once at most |
| `PausedIsReachable` | an action that waits for the user names a session that can still be reached, unless the user stopped it |
| `BrowserIsOwned` | a running Chromium is in the registry or being closed by some request |
| `StepsOfExecution` | every step is a step of `Execution` or none |
| `SubmittedIfCredible` | section 11 of `docs/06`; does **not** hold |

### MailReading and Review

`MailReading` translates `email_processing/`, `classification/` and the key of
`candidates/grouper.py`.  A text is a sequence of words, and a word is known by
its kind: the pattern of the program that matches there, if any.  What the code cuts
is cut here too: the decoding ceiling over all parts (`Decoded`), hidden words
(`Displayed`), quoted history (`RemoveQuotedHistory`), and the extract the model and
the rules read (`ModelBudget`: opening, a window around the first signal, footer).
The answer of the model is external: any of `Answer`, or an exception, at each of
two attempts.

State of `Review` and the code it stands for:

* `filed` is `InMemoryCandidateCatalog._messages` with the category of each message;
  candidates are computed from it at every use, as `candidates()` does.
* `correction` is `_corrections`, revision 1 for a candidate without one.
* `request` is the coroutine of `ActionPlanService.create` in each tab: selections
  still to be resolved, items made, whether it waits for a host name.  It is the only
  request that gives up the loop, so every other one needs `LoopIdle`.
* `plans` is `_plans`; the digest is modelled as what is hashed.
* `view` and `shown` are what the user has before him: the list as each tab last
  loaded it, and the plans presented.  They survive a restart, the rest does not.
* `consents` and the field `basis` of an item are history.

| Property | Says |
|---|---|
| `ConsentIsInformed` | a digest a page was given stands for one list of actions: what is confirmed under it is what was listed, over regrouping, correction, restart |
| `PlanOutlivesNoCorrection` | no plan is confirmed over a correction its author had not seen, not even one made while the plan waited for a host name |
| `NoBlindOverwrite` | a tab replaces only the correction it displays |
| `MarketingNeedsEvidence` | an uncorrected candidate is marketing only if each of its messages was opened, shows no protected phrase in its subject or in the opening, the end and the first signal of its text (`Prominent`), and was called marketing by a sure, verified quotation |
| `RegroupInvalidates` | a plan is confirmed only while its candidates still resolve to what it lists; does **not** hold |

### Database and EventStream

`Database` has one action for each statement or transaction of `run_migrations`:
`Start` inspects the database and recognizes an unversioned one
(`LegacyRevision`), `Stamp` records it, then the statements of the revisions follow
one by one.  `schema` is the set of tables and of the columns that revisions add; the
rest of a table's columns is one with the table.  Revision 3 renames the table of
events, creates it anew with `stream_sequence`, and copies; copy, drop and the record
of the revision are one transaction (`Copy`), since SQLite's driver opens one at
the `INSERT`.  `Stop` is a kill between any two of these steps.  A statement that would
add what is there already fails (`Fail`), and the process does not start: the mode
`broken`.

`EventStream` adds the running process:

* `rows` is `action_events` in the order of its primary key, which from revision 3 on
  is `stream_sequence`, so that the id of an event is its place.
* `current` is the state of each action, as the number of the event recorded with it.
* `page[c]` is an open activity page: the plan it watches, the last event id it has
  read, what is left of the answer at hand, all it has received.  `Ask` is the request
  with `Last-Event-ID`; `Cut` and `Stop` end the connection anywhere in an answer.

`StreamInvariant`'s `PagesOpen` says what makes ids safe to hold: pages are only open
after the upgrade, and from then on rows are only appended.

| Property | Says |
|---|---|
| `ServedSchemaIsHead` | a process serves only on the schema of the last revision |
| `EventsKept` | an event once recorded is in exactly one of the two tables, whatever is killed |
| `LatestEventIsOfTheState` | the last event of an action in the stream is the one recorded with its state, also after the copy has put events of one instant in a new order |
| `ReceivedOnceInOrder` | a page has read every event of its plan up to its cursor, once, in order |
| `CursorIsKnown` | a page that reconnects is never answered 404 |
| `ImplementsLog` | `EventStream` implements `EventLog`: the upgrade is invisible and every event reaches every page that stays |

## 3. Runs

| Run | States | Instance | Question |
|---|---|---|---|
| `execution_mixed` | 114,077 | a one-click and a mail action, 2 plans, 2 tasks, 1 restart, 1 fault | safety and refinement of the paths under the lock |
| `execution_browser` | 607,744 | a browser action at 2 revisions, 2 plans, 3 tasks, 2 restarts, 1 fault, 2 resumes | safety of the unlocked requests; the inductive invariant; is what is recorded what was reviewed? |
| `execution_liveness` | 143,108 | a mail and a browser action, 2 tasks, 1 restart, 1 fault, 1 resume | progress |
| `execution_refused` | violation | a one-click action, 1 task, 1 restart | `RefusedOnlyIfAttempted` |
| `scan_safety` | 1,026,519 | 2 scans, one with limits 1 and 2, 3 messages, 2 tasks, 1 deletion, 1 restart, no other failures | safety and the inductive invariant |
| `scan_progress` | 26,165 | 1 scan of limit 3, 4 messages, 1 task, 2 restarts, 2 failures | progress without deletions |
| `scan_deleted` | violation | the same with 3 messages, 1 restart and 1 deletion | `RetriedScanFinishes` |
| `browser_session` | 36,630 | 3 tasks, 2 resumes, 4 navigations | safety, the inductive invariant, refinement |
| `browser_uncertain` | violation | 2 tasks, 1 resume | `SubmittedIfCredible` |
| `review_safety` | 478,058 | 4 messages, 2 tabs, 2 plans of one item, 3 revisions, 1 restart | what a confirmation covers; the inductive invariant |
| `review_regroup` | violation | the same with 1 tab and no restart | `RegroupInvalidates` |
| `stream_safety` | 86,612 | 24 initial databases, 3 actions in 2 plans, 2 events each, 1 page, 3 kills or cuts | start, upgrade and event stream; the inductive invariant; refinement |

Why the bounds are enough for what they are to show:

* *Tasks.*  One holder of the lock and one waiting or unlocked request make every
  pair of concurrent requests; the browser runs have a third, so that a resume,
  a cancel and the opening call are there together.
* *Plans.*  Two plans over the same candidates confirm an action twice.
* *Restarts.*  One restart hits every step; the browser run has two, so that an
  interrupted recovery meets a second one.
* *Faults* (`MaxFaults`, per process lifetime) count exceptions the code does not
  catch.  One is enough to end any one request at any point.
* *Revisions.*  In `Execution` two: reviewed and corrected.  Corrections are in `execution_browser`, which
  has two plans and no mail; the await of the mail permission is in `execution_mixed`.
  A correction during that await is covered by the theorem `Consent`, for all methods.  In `Review` three, so that
  two tabs can both correct after a first correction.
* *Messages of `review_safety`.*  Three of one list, so that each filing changes the
  candidate's method, category or both: one with a usable address and a quoted line, one
  too large to be opened, one with a protected phrase; and one whose address is
  malformed.  One item to a plan: items are resolved one after the other, and a second
  item adds waiting of the kind that the first one has.  The theorems have no such bound.
* *Databases.*  Empty, each release with and without a recorded revision, and four
  foreign shapes; with no events, or with three of one instant in an order that the
  alphabet does not give.  Three faults: a kill in the upgrade, one of the process that
  tries to repair it, one cut of a connection.
* *Pages.*  One: a page's steps touch nothing that another page reads.
* *Messages and limits.*  Limits 1 and 2 against 3 messages and pages of 2 have a
  limit reached in mid-page, at the end of a page and not at all, and a limit raised
  between two runs.  `MaxFaults = 0` in `scan_safety` takes failures from `Crash`,
  which loses more than a failure does, and from `ReadGone`; `scan_progress` has
  `CallFails`.
* *Navigations.*  Four: two admitted, a third refused, a fourth still on its way;
  two resumes, so that a count restarted by a resume would admit more.

The safety theorems below do not depend on any of these bounds.

`execution_browser`, `scan_safety`, `browser_session`, `review_safety` and
`stream_safety` check the inductive
invariants of the proofs as invariants.  The session runs allow the system to stop
(`CHECK_DEADLOCK FALSE`): a session ends, and nothing happens to it afterwards.  All
other runs check for deadlocks.

Symmetry is used in safety runs only: over tasks in `Execution`, `Scan` and
`BrowserSession`, over tabs in `Review`, and over fresh plan ids; no definition distinguishes them.  In
`stream_safety`, which checks liveness through `EventLog`, there is none.

### Fairness

`FairSpec` assumes weak fairness of each `TaskStep(t)`: an awaited call
ends (the code gives each a timeout or the transport's own) and the event loop
resumes what can be resumed.  In `Execution` also of `RecoveryStep`, the startup code.
Nothing is assumed of the user, of Gmail filing a mail, of arrivals, failures or restarts.
`RetrySpec` of `Scan` adds a user who goes on retrying; it is used only for
`RetriedScanFinishes`, which says "that is retried".  `BrowserSession` and
`Review` assume no fairness.

`EventStream` assumes that the process is started again after a stop and that a start
goes on (`Startup`), and that an open page asks again and reads (`Ask`, `Read`): this
is what an `EventSource` does by itself as long as its page is open.  It gives the
fairness of `EventLog`, that a page which stays receives what is there.  A start that
fails for good (`refused`, `broken`) is no exception: no page has ever been open
on such a database.

### Findings

* `execution_refused`: `confirm_and_execute` turns an unchanged action away as
  "already attempted" as soon as a row exists.  A process that stops before the first
  `set_state` leaves a row that recovery puts back to review with the words "it was
  not executed"; that action can never be confirmed again.
* `scan_deleted`: one seen message that can no longer be read fails every
  rehydration of its scan, and so every later run, although the Task 8 review
  records that rehydration continues after individual failures.
* `review_regroup`: a candidate has revision 1 whenever it is grouped, and `confirm`
  compares revisions only.  A message filed after the plan was made can change the
  candidate's method and destination, and the plan is still confirmed, although `docs/03`
  and `docs/06` promise that regrouping invalidates it.  What is then executed is what
  the plan listed (`ConsentIsInformed`).
* `browser_uncertain`: a click whose outcome is uncertain is recorded as
  `needs_user`; a later resume of the same page records it as `submitted`.

### Limits of the design the models show

No document of the repository says otherwise, so these are not findings.

* A crash between the transactions of a retry can leave a row `reviewed` or
  `selected`; recovery does not visit it, and no request leads on from there.
* A rehydration with a smaller `max_messages` than an earlier run files only part of
  what was seen, and the scan counts as rehydrated (`OneLimit` in `SeenIsReviewable`).
* A takeover does not stop a resume that is under way; it will still click.
* A blocker recorded between the first look and the click does not stop the click.
* An exception in a browser request that nobody catches leaves the row `executing`
  until the next start (`faults > 0` in `EveryActionSettles`, `NoOrphan`).
* One candidate with a malformed address makes the whole list answer with an error
  (`Displayable` in `List`), and the correction of such a candidate takes effect although
  its answer fails.
* A restart takes candidates back to revision 1, so that a revision number seen before
  it can stand for another correction after it (`view[t].life = life` in
  `NoBlindOverwrite`).
* Rules and model read the extract of a long text: a protected phrase between the
  extract's parts is not seen (`Prominent` in `MarketingNeedsEvidence`).
* A process killed between a statement of an upgrade and the record of its revision
  leaves a database that no later start can upgrade, since the statements already
  executed fail the second time.  No event is
  lost and nothing is served (`EventsKept`, `ServedSchemaIsHead`), but the database
  has to be repaired by hand.
* Revision 3 orders old events by the clock; `Recorded` assumes that it did not run
  backwards while they were recorded.

## 4. Proofs

`tlapm` checks every theorem below with Z3, Zenon and, for the last temporal
step, LS4.  Assumptions:

* `ConstantsAssumption` (`Execution`), `ScanAssumption`, `SessionAssumption`,
  `ResultAssumption`: the bounds are numbers, the limits positive, `None` no member of
  the sets it is used beside;
* `ReviewConstants`: messages have distinct dates; what is read of them are sequences,
  their offers sequences with one of the three methods; the window of the extract
  holds at least one word (4,000 characters in the code);
* `DatabaseAssumption`: action ids are in a strict total order, and the databases of
  earlier releases hold events numbered and timed as they were recorded;
* `StreamAssumption`: there are finitely many actions.

Apart from these the sets of candidates, plans, tasks, scan ids, tabs, pages, messages
and events are arbitrary, infinite ones included.

| Module | Theorems |
|---|---|
| `ExecutionProofs` | `Invariance` (`IInv`), `TypeCorrect`, `SideEffectOnce`, `RetryIsSafe`, `SubmittedTruthful`, `WriteAhead`, `SingleDriver`, `ContactIsIntended`, `RecordStands` |
| `ConsentProofs` | `ReviewedInvariance`, `Consent` (`ConsentIsCurrent`), `PlanWhole` (`PlanIsRecordedWhole`) |
| `OrphanProofs` | `NothingLeftBehind` (`NoOrphan`) |
| `LifecycleProofs` | `LifecycleImplemented` (`ImplementsLifecycle`) |
| `ScanProofs` | `ScanInvariance` (`IInv`), `ScanTypeCorrect`, `ScanLimit`, `ScanComplete`, `ScanReviewable`, `SeenIsFiledAndFinal` |
| `ReviewProofs` | `ReviewInvariant` (`IInv`), `ConsentInformed`, `PlanUnderCorrection` (`PlanOutlivesNoCorrection`), `OverwriteSeen` (`NoBlindOverwrite`), `MarketingByEvidence` (`MarketingNeedsEvidence`), `BestMethodIsChosen`, `ExtractKeepsProminent` |
| `EventStreamProofs` | `StreamInvariantHolds` (`IInv`), `ServedSchemaHolds`, `ReceivedOnceInOrderHolds`, `CursorIsKnownHolds`, `LatestEventHolds`, `EventsKeptHolds`, `UpgradeKeepsEvents`, `StreamImplementsLog` (the safety part of `ImplementsLog`) |
| `BrowserSessionProofs` | `SessionInvariance` (`SessionInv`), `NavigationLimit`, `ClickedOnce`, `PausedReachable`, `BrowserOwned`, `SessionSteps` (`StepsOfExecution`), `SessionKeepsPromises` |

The arguments:

* **Execution.**  None of the five invariants is inductive: that a retry is harmless
  depends on what the task that holds the action knows, and that only one task does.
  `IInv` says of each row what it tells of the contacts made (`RowInv`, `SessionInv`),
  of each program point what a task may rely on there (`ControlInv`, `CallInv`,
  `RestInv`, `RetryInv`, `CancelInv`), and that no two tasks drive one action.
  The proof is one of isolation.  A step of `t` changes the locals of `t` and the
  row of the action `t` drives, and nothing else; `DriverStep`, `LocalStep` and
  `FrameStep` carry the invariant over for all other tasks and actions, and each
  action of `Next` has a lemma for the rest.  What keeps unlocked requests apart is
  the transition table: `resume` needs a row that allows `executing`, which no
  row that is driven does.  Two action properties follow that no state can show.
  `ContactIsIntended`: what `CallInv` grants a task before its call holds when the
  call is made.  `RecordStands`: a row changes in five ways only (`Rewritten`), and
  none of them takes back what was recorded; that a row is never inserted over
  another is the idempotency key, in the form of `RestInv`.
* **Consent.**  An action property, proved from `IInv` and `ReviewedInv`: the items
  a confirming task carries are those of its plan, and are current from
  `ConfirmPlan` to `CreateConfirmedPlan`.  There is no await between these two, so a
  step of any other task, a correction or a restart cannot come between; had the code
  awaited there, the proof would fail at `ReviewedStep`.
* **Orphans.**  `NoOrphan` is inductive relative to `IInv`.  Each task step has `Attends`:
  what the task attended to, started or confirmed, it attends to afterwards; all
  others attend to what they did.  A task gives an action up only in `Record`, which
  takes the row out of `executing`: `IInv` says that its result is one `executing` may
  lead to, so that only a cancellation can be rejected, and that drives nothing.
  `RecoveryDone` has nothing to attend to, and `Raise` is excluded by `faults = 0`.
* **Lifecycle.**  Under `status <- row[a].state`, every step of `Execution` is a
  `Confirm`, a `Move`, a `Contact`, a `Refuse` or a stutter; most map to a
  move of one action, the rest is in the lemmas named `...IsAllowed`,
  `...Moves` and `PlanIsConfirmation`.
* **Scan.**  `IInv` has a part for each task and one for each scan.  The lock makes
  one task the only one that can disturb a scan's rows; `TaskFrame` and `ScanFrame`
  carry everything else over.  `LimitInv` is the crux: the page in hand never holds more
  references than there is room for, so that the break at the limit drops nothing and the
  token saved after it skips nothing.  This rests on `min(100, remaining)` and on
  nobody else marking messages of the scan meanwhile.  `SeenIsFiledAndFinal` is about
  the steps: a message is marked only when it has been filed, and a scan that is complete
  never gets into the page loop again (`PageInv`), so that its row is final.
* **BrowserSession.**  The safety properties as for `Execution`, by the driver of the
  session; `cancel` is the one request that runs beside it, and disturbs only what
  `TaskInv` leaves to the `stopped` alternative.  That every step is one of `Execution`
  or none (`SessionSteps`) needs more (`CoarseInv`): a call that has not launched finds
  no session, nobody cancels twice, and a count, in which every driver, canceller and
  exception was brought in by the opening call, a resume or a stop, so that the
  exceptions stay within the bound that `Execution` is instantiated with.  Then each
  step of `execute`, `_advance`, `resume`, `cancel` and of the page has its lemma
  (`...IsCoarse`): a look at the page, a refused navigation and a callback are
  invisible, a click is `BrowserClick`, a pause after any of the awaits is the same
  `BrowserPause`.  `SessionKeepsPromises` is what this is good for:
  the invariant of `Execution` is carried over by an instance of `ExecutionProofs`, step by
  step, and with it that no second contact is made, nothing is submitted without a
  click, and one request drives, now with every await of the code between.
* **Review.**  Requests, plans and open pages hold corrections of the past.
  `SeenBefore` is what makes comparing revisions enough: within one process, a
  correction seen earlier is the present one or has a lower revision.  With it,
  `Confirm`'s comparison of revisions is a comparison of corrections.  It is lost at a
  restart together with the plans, which is why `PlanOutlivesNoCorrection` needs no
  bound on restarts and `NoBlindOverwrite` does.  `NothingInvented`, part of `IInv`,
  says where destinations come from: whatever a request or a plan holds was named, for
  its method, by a message of the candidate that is filed; it stays true since nothing is
  taken out of the catalog within one life of the process.  It rests on
  `BestMethodIsChosen`: some offer comes first, found by three minima (of method, date and
  place), so that the `CHOOSE` in `Best` always means `min` of the code.
  `MarketingByEvidence` unfolds `Classify` for each message of the group and uses
  `ExtractKeepsProminent`: wherever the window of the extract is placed, the first
  signal is in it, and opening and end are copied whole.
* **EventStream.**  `Fits` relates the schema to the recorded revision and the number of
  statements executed since: it is the schema these statements leave, or the next
  statement will fail.  A process serves only at the last revision, and `Fits` then
  leaves one schema.  `Numbered` says that the events of an action and its state
  are counted alike, in either table.  The crux is the copy: `Copied` picks the event
  of each rank in `Earlier`; that order is strict and total, so ranks are distinct and fill
  `0..n-1`, and the copy is a permutation (`UpgradeKeepsEvents`) that keeps the numbers
  of each action ascending.  The pages' part is simple after that: they are open at the
  last revision only, where `rows` is only appended to.
  `StreamImplementsLog` says that each step is one of `EventLog` or none, through
  a mapping that sees the table of a plan's events whichever revision it is in
  (`Stream`, `OfPlan`).  The ids of a plan's events are counted off in order (`Nth`), so
  that the log is a sequence that a recording extends by one; every statement of an
  upgrade, every kill and every cut leaves it as it was; and the next id that a page
  reads has, in that count, the number that follows what it has received.

Only model-checked:

* liveness: `EveryActionSettles`, `LockIsReleased`, `RecoveryCompletes`,
  `RunReturns`, `RetriedScanFinishes` (liveness under fairness, and `ENABLED`, are
  beyond the prover);
* the fairness in `ImplementsLog`, that every event reaches every page that stays,
  for the same reason; its steps are proved;
* that the offers of a message, read from its header and its links, are a sequence, and
  its text too (`ReviewConstants`): `SelectSeq` and the folds of `MailReading` compute by
  recursion, and induction over them is beyond the prover; TLC evaluates the assumption
  on the mailbox of the review runs;
* the four findings.

## 5. What is not modelled

* Text as characters: header syntax, character sets, HTML, the phrases of the browser
  policy, display fields, evidence wording.  `MailReading` keeps which words there are
  and what is cut off; where `Execution` or `BrowserSession` depends on text, it is a
  choice between all outcomes.
* URL safety and address resolution: a verdict, allowed or not, at each check.
* The payload cipher: it works or fails (`RetryPayloadUnavailable`).
* The authorization round trip and the two keyring writes of the Gmail account:
  `Execution` has the permission it leads to.
* Downgrade scripts: nothing in the program runs them.
* The list that the activity page loads after each event; the rest of the frontend.
* Two candidates with the same destination: `docs/03` wants them collapsed, `create`
  has no step for it.
* Time: timeouts as durations, event timestamps.  A timeout is an
  outcome that may always happen.
* Removal of expired browser profiles: file-system housekeeping, keyed by age.
* Deferred scans after startup: runs of `ScanService.run` like any other, which `Scan`
  allows at any time.
* The HTTP layer: any request at any time.

External parts, modelled from how the code uses them: the model's answers; Gmail's list, send and
Sent folder; mail that arrives and is deleted; a list server's answer; the window the
user may close.

## 6. Plan

1. *Proofs*: of every state property, action property and refinement step that a run
   checks there is one.  Next, that a plan once created is never replaced, and
   that a confirmed plan of `Review` is what `Execution` is given.
2. *Account* (`gmail/oauth.py`): the authorization round trip and the two keyring
   writes, with a failure or a restart between them.
3. *URL policy*: which resolved addresses are allowed, against a reference definition.
