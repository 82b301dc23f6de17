----------------------------- MODULE Execution ------------------------------
(***************************************************************************)
(* Confirmation, execution, retry, interactive browser control and startup *)
(* recovery of unsubscribe actions: every writer of the unsubscribe_actions*)
(* table.  (backend/app/actions, executors, recovery.py, persistence/      *)
(* repositories.py, pipeline.py for the candidate revisions.)              *)
(*                                                                         *)
(* The program is one asyncio event loop.  Every HTTP request is a         *)
(* coroutine, here a Task; a task keeps the loop until it awaits.  A step  *)
(* of a task is one SQLite transaction or one await; Suspended names the   *)
(* program points at which other tasks may run.  The process may be killed *)
(* between any two steps, after which only the database and the outside    *)
(* world remain.                                                           *)
(***************************************************************************)
EXTENDS ActionStates, Naturals

CONSTANTS
  Candidate,       \* subscription candidates
  Method,          \* the unsubscribe method of each candidate
  MaxRevision,     \* bound: revisions of a candidate
  Plan,            \* action plan ids
  Task,            \* concurrent request coroutines
  None,            \* no task, no action, no result
  MaxCrashes,      \* bound: process restarts
  MaxFaults,       \* bound: unexpected exceptions per process lifetime
  MaxResumes       \* bound: resumed browser sessions

Methods == {"rfc8058", "mailto", "browser"}

(* An idempotency key hashes candidate, revision, method and target; the   *)
(* latter two are functions of the candidate.                              *)
Action == Candidate \X (1..MaxRevision)
MethodOf(a) == Method[a[1]]

ASSUME ConstantsAssumption ==
  /\ Method \in [Candidate -> Methods]
  /\ MaxRevision \in Nat \ {0} /\ MaxCrashes \in Nat /\ MaxFaults \in Nat /\ MaxResumes \in Nat
  /\ None \notin Task

VARIABLES
  \* durable: the rows of unsubscribe_actions with their latest event
  row,
  \* in the memory of the process
  up,              \* startup recovery is over, requests are served
  catalog,         \* revision of each candidate, 0 if not in the catalog
  plan,            \* ActionPlanService._plans: items and confirmed flag
  lock,            \* the task that holds ExecutionCoordinator._lock
  session,         \* browser sessions, one per action
  pc, op,          \* per task: program point, the request it serves,
  act, rest,       \*   its plan, later its action; the actions to come,
  result,          \*   the executor's result
  \* the outside world
  scope,           \* the stored credential carries gmail.send
  sent,            \* the action's mail is in Gmail Sent
  \* history: contacts made, contacts known to be without effect
  contacts, refused,
  \* counters that bound the behaviours
  crashes, faults, resumes

taskVars  == <<pc, op, act, rest, result>>
worldVars == <<scope, sent>>
history   == <<contacts, refused>>
bounds    == <<crashes, faults, resumes>>
memory    == <<up, catalog, plan, lock, session>>
vars      == <<row, memory, taskVars, worldVars, history, bounds>>

-----------------------------------------------------------------------------
(* Evidence codes.  Only two of them are ever read back.                   *)
Retryable    == "http_429_or_503"
Unauthorized == "gmail_send_authorization_required"
Code == {Retryable, Unauthorized, "other"}

Row == [state : RowState, code : Code, retries : 0..1, journaled : BOOLEAN, ext : BOOLEAN]
NoRow == [state |-> "absent", code |-> "other", retries |-> 0, journaled |-> FALSE, ext |-> FALSE]
ConfirmedRow == [NoRow EXCEPT !.state = "confirmed_by_user"]

Session == [open : BOOLEAN, shown : BOOLEAN, clicked : BOOLEAN, manual : BOOLEAN]
NoSession == [open |-> FALSE, shown |-> FALSE, clicked |-> FALSE, manual |-> FALSE]

(* ExecutionResult: the state to record, its evidence, an external id.     *)
Result == [state : ActionState, code : Code, ext : BOOLEAN]
Res(s, c, e) == [state |-> s, code |-> c, ext |-> e]

NoPlan == [items |-> {}, confirmed |-> FALSE]

Op == {"none", "confirm", "retry", "resume", "cancel"}
PC == {"idle", "authorize", "approve", "persist", "start", "retrying", "call",
       "posted", "send", "sending", "lookup", "advance", "clicked", "evaluate",
       "closing", "record"}

(* Program points at which a task is suspended in an await.                *)
Suspended == {"idle", "authorize", "call", "posted", "sending", "lookup",
              "advance", "clicked", "evaluate", "closing"}

(* The event loop runs task t only while every other task is suspended.    *)
LoopFree(t) == \A u \in Task \ {t} : pc[u] \in Suspended
LoopIdle    == \A u \in Task : pc[u] \in Suspended

(* ActionRepository.set_state: one transaction that checks the transition, *)
(* overwrites external_id and appends the event.                           *)
SetState(a, s, c, e) ==
  /\ s \in Allowed[row[a].state]
  /\ row' = [row EXCEPT ![a] = [@ EXCEPT !.state = s, !.code = c, !.ext = e]]

Goto(t, l) == pc' = [pc EXCEPT ![t] = l]

(* Variant: the lock is taken and released by hand, and the release is missed. *)
LeaveLocked(t) ==
  /\ pc'     = [pc     EXCEPT ![t] = "idle"]
  /\ op'     = [op     EXCEPT ![t] = "none"]
  /\ act'    = [act    EXCEPT ![t] = None]
  /\ rest'   = [rest   EXCEPT ![t] = {}]
  /\ result' = [result EXCEPT ![t] = None]
  /\ lock'   = lock

(* The coroutine returns or raises; "async with" releases the lock.        *)
Leave(t) ==
  /\ pc'     = [pc     EXCEPT ![t] = "idle"]
  /\ op'     = [op     EXCEPT ![t] = "none"]
  /\ act'    = [act    EXCEPT ![t] = None]
  /\ rest'   = [rest   EXCEPT ![t] = {}]
  /\ result' = [result EXCEPT ![t] = None]
  /\ lock'   = IF lock = t THEN None ELSE lock

(* An executor returns result r to the caller that will record it.         *)
Return(t, r, l) ==
  /\ Goto(t, l)
  /\ result' = [result EXCEPT ![t] = r]
  /\ UNCHANGED <<op, act, rest>>

Contact(a) == contacts' = [contacts EXCEPT ![a] = @ + 1]

Init ==
  /\ row      = [a \in Action |-> NoRow]
  /\ up       = TRUE
  /\ catalog  = [c \in Candidate |-> 1]
  /\ plan     = [p \in Plan |-> NoPlan]
  /\ lock     = None
  /\ session  = [a \in Action |-> NoSession]
  /\ pc       = [t \in Task |-> "idle"]
  /\ op       = [t \in Task |-> "none"]
  /\ act      = [t \in Task |-> None]
  /\ rest     = [t \in Task |-> {}]
  /\ result   = [t \in Task |-> None]
  /\ scope    \in BOOLEAN
  /\ sent     = [a \in Action |-> FALSE]
  /\ contacts = [a \in Action |-> 0]
  /\ refused  = [a \in Action |-> 0]
  /\ crashes = 0 /\ faults = 0 /\ resumes = 0

-----------------------------------------------------------------------------
(* The candidate catalog and the plans.                                    *)

(* A scan puts a candidate (back) into the catalog, at revision 1.         *)
Discover(c) ==
  /\ up /\ LoopIdle
  /\ catalog[c] = 0
  /\ catalog' = [catalog EXCEPT ![c] = 1]
  /\ UNCHANGED <<row, up, plan, lock, session, taskVars, worldVars, history, bounds>>

(* The user corrects a candidate's category: a new revision.               *)
Correct(c) ==
  /\ up /\ LoopIdle
  /\ catalog[c] \in 1..(MaxRevision - 1)
  /\ catalog' = [catalog EXCEPT ![c] = @ + 1]
  /\ UNCHANGED <<row, up, plan, lock, session, taskVars, worldVars, history, bounds>>

(* ActionPlanService.create for the selection S.  The order of the items   *)
(* is left open: every order of a selection is the order of some request.  *)
CreatePlan(p, S) ==
  /\ up /\ LoopIdle
  /\ plan[p] = NoPlan
  /\ S # {} /\ \A c \in S : catalog[c] # 0
  /\ plan' = [plan EXCEPT ![p].items = {<<c, catalog[c]>> : c \in S}]
  /\ UNCHANGED <<row, up, catalog, lock, session, taskVars, worldVars, history, bounds>>

-----------------------------------------------------------------------------
(* ExecutionCoordinator.confirm_and_execute.  Requests that change nothing *)
(* (unknown plan, already confirmed, wrong digest, already attempted) are  *)
(* not steps.                                                              *)

HasMail(S) == \E a \in S : MethodOf(a) = "mailto"

(* Variants: the lock is not taken, the idempotency keys are not looked up. *)
ConfirmEnterUnlocked(t, p) ==
  /\ up /\ pc[t] = "idle" /\ LoopFree(t)
  /\ plan[p].items # {} /\ ~plan[p].confirmed
  /\ \A a \in plan[p].items : row[a].state = "absent"
  /\ Goto(t, IF HasMail(plan[p].items) THEN "authorize" ELSE "approve")
  /\ op'   = [op   EXCEPT ![t] = "confirm"]
  /\ act'  = [act  EXCEPT ![t] = p]
  /\ rest' = [rest EXCEPT ![t] = plan[p].items]
  /\ UNCHANGED <<row, memory, result, worldVars, history, bounds>>

ConfirmEnterAgain(t, p) ==
  /\ up /\ pc[t] = "idle" /\ LoopFree(t) /\ lock = None
  /\ plan[p].items # {} /\ ~plan[p].confirmed
  /\ lock' = t
  /\ Goto(t, IF HasMail(plan[p].items) THEN "authorize" ELSE "approve")
  /\ op'   = [op   EXCEPT ![t] = "confirm"]
  /\ act'  = [act  EXCEPT ![t] = p]
  /\ rest' = [rest EXCEPT ![t] = plan[p].items]
  /\ UNCHANGED <<row, up, catalog, plan, session, result, worldVars, history, bounds>>

ConfirmEnter(t, p) ==
  /\ up /\ pc[t] = "idle" /\ LoopFree(t) /\ lock = None
  /\ plan[p].items # {} /\ ~plan[p].confirmed
  /\ \A a \in plan[p].items : row[a].state = "absent"
  /\ lock' = t
  /\ Goto(t, IF HasMail(plan[p].items) THEN "authorize" ELSE "approve")
  /\ op'   = [op   EXCEPT ![t] = "confirm"]
  /\ act'  = [act  EXCEPT ![t] = p]
  /\ rest' = [rest EXCEPT ![t] = plan[p].items]
  /\ UNCHANGED <<row, up, catalog, plan, session, result, worldVars, history, bounds>>

(* MailtoExecutor.is_authorized, awaited before the plan is confirmed.     *)
ConfirmAuthorized(t) ==
  /\ pc[t] = "authorize" /\ LoopFree(t)
  /\ scope
  /\ Goto(t, "approve")
  /\ UNCHANGED <<row, memory, op, act, rest, result, worldVars, history, bounds>>

ConfirmUnauthorized(t) ==
  /\ pc[t] = "authorize" /\ LoopFree(t)
  /\ ~scope
  /\ Leave(t)
  /\ UNCHANGED <<row, up, catalog, plan, session, worldVars, history, bounds>>

Current(S) == \A a \in S : catalog[a[1]] = a[2]

(* Variant: the candidates are not compared with the reviewed ones again.  *)
ConfirmPlanUnchecked(t) ==
  /\ pc[t] = "approve" /\ LoopFree(t)
  /\ plan' = [plan EXCEPT ![act[t]].confirmed = TRUE]
  /\ act'  = [act EXCEPT ![t] = None]
  /\ Goto(t, "persist")
  /\ UNCHANGED <<row, up, catalog, lock, session, op, rest, result, worldVars, history, bounds>>

(* ActionPlanService.confirm.                                              *)
ConfirmPlan(t) ==
  /\ pc[t] = "approve" /\ LoopFree(t)
  /\ Current(rest[t])
  /\ plan' = [plan EXCEPT ![act[t]].confirmed = TRUE]
  /\ act'  = [act EXCEPT ![t] = None]
  /\ Goto(t, "persist")
  /\ UNCHANGED <<row, up, catalog, lock, session, op, rest, result, worldVars, history, bounds>>

ConfirmStale(t) ==
  /\ pc[t] = "approve" /\ LoopFree(t)
  /\ ~Current(rest[t])
  /\ Leave(t)
  /\ UNCHANGED <<row, up, catalog, plan, session, worldVars, history, bounds>>

(* Variant: the rows are not inserted in one transaction.                  *)
CreateSomeOfPlan(t) ==
  /\ pc[t] = "persist" /\ LoopFree(t)
  /\ \E a \in rest[t] : row' = [row EXCEPT ![a] = ConfirmedRow]
  /\ Goto(t, "start")
  /\ UNCHANGED <<memory, op, act, rest, result, worldVars, history, bounds>>

(* ActionRepository.create_confirmed_plan, one transaction.                *)
CreateConfirmedPlan(t) ==
  /\ pc[t] = "persist" /\ LoopFree(t)
  /\ row' = [a \in Action |-> IF a \in rest[t] THEN ConfirmedRow ELSE row[a]]
  /\ Goto(t, "start")
  /\ UNCHANGED <<memory, op, act, rest, result, worldVars, history, bounds>>

(* The head of the loop: the next action goes to EXECUTING.                *)
StartAction(t) ==
  /\ pc[t] = "start" /\ LoopFree(t)
  /\ \E a \in rest[t] :
       /\ SetState(a, "executing", "other", FALSE)
       /\ act'  = [act EXCEPT ![t] = a]
       /\ rest' = [rest EXCEPT ![t] = @ \ {a}]
  /\ Goto(t, "call")
  /\ UNCHANGED <<memory, op, result, worldVars, history, bounds>>

-----------------------------------------------------------------------------
(* ExecutionCoordinator.review_and_retry.                                  *)

(* Variants: the allowance or the evidence is not looked at.               *)
RetryEligibleTwice(a) ==
  \/ MethodOf(a) = "rfc8058" /\ row[a].state = "failed" /\ row[a].code = Retryable
  \/ MethodOf(a) = "mailto" /\ row[a].state = "needs_user" /\ row[a].code = Unauthorized

RetryEligibleAnyCode(a) ==
  /\ row[a].retries = 0
  /\ \/ MethodOf(a) = "rfc8058" /\ row[a].state = "failed"
     \/ MethodOf(a) = "mailto" /\ row[a].state = "needs_user"

RetryEligible(a) ==
  /\ row[a].retries = 0
  /\ \/ MethodOf(a) = "rfc8058" /\ row[a].state = "failed" /\ row[a].code = Retryable
     \/ MethodOf(a) = "mailto" /\ row[a].state = "needs_user" /\ row[a].code = Unauthorized

(* The allowance is consumed in a transaction of its own, first.           *)
RetryEnter(t, a) ==
  /\ up /\ pc[t] = "idle" /\ LoopFree(t) /\ lock = None
  /\ RetryEligible(a)
  /\ lock' = t
  /\ row'  = [row EXCEPT ![a].retries = @ + 1]
  /\ op'   = [op  EXCEPT ![t] = "retry"]
  /\ act'  = [act EXCEPT ![t] = a]
  /\ Goto(t, "retrying")
  /\ UNCHANGED <<up, catalog, plan, session, rest, result, worldVars, history, bounds>>

(* The transactions that lead back to EXECUTING: directly for a mail,      *)
(* through reviewed, selected and confirmed_by_user for a POST.            *)
RetryPath == [failed |-> "reviewed", reviewed |-> "selected",
              selected |-> "confirmed_by_user", confirmed_by_user |-> "executing",
              needs_user |-> "executing"]

RetryAdvance(t) ==
  /\ pc[t] = "retrying" /\ LoopFree(t)
  /\ row[act[t]].state \in DOMAIN RetryPath
  /\ LET s == RetryPath[row[act[t]].state] IN
       /\ SetState(act[t], s, "other", FALSE)
       /\ Goto(t, IF s = "executing" THEN "call" ELSE "retrying")
  /\ UNCHANGED <<memory, op, act, rest, result, worldVars, history, bounds>>

(* The stored payload cannot be decrypted or is not the reviewed one.      *)
RetryPayloadUnavailable(t) ==
  /\ pc[t] = "call" /\ op[t] = "retry" /\ LoopFree(t)
  /\ Return(t, Res("failed", "other", FALSE), "record")
  /\ UNCHANGED <<row, memory, worldVars, history, bounds>>

-----------------------------------------------------------------------------
(* Rfc8058Executor.execute (and validate_at_plan_time before a retry).     *)

Calls(t, m) == pc[t] = "call" /\ LoopFree(t) /\ MethodOf(act[t]) = m

RfcTargetRefused(t) ==
  /\ Calls(t, "rfc8058")
  /\ Return(t, Res("failed", "other", FALSE), "record")
  /\ UNCHANGED <<row, memory, worldVars, history, bounds>>

RfcPost(t) ==
  /\ Calls(t, "rfc8058")
  /\ Contact(act[t])
  /\ Goto(t, "posted")
  /\ UNCHANGED <<row, memory, op, act, rest, result, worldVars, refused, bounds>>

(* 2xx, a redirect that is not followed or no (complete) response, and a   *)
(* rejection.                                                              *)
RfcOutcome == {Res("submitted", "other", FALSE),
               Res("needs_user", "other", FALSE),
               Res("failed", "other", FALSE)}

RfcAnswered(t) ==
  /\ pc[t] = "posted" /\ LoopFree(t)
  /\ \E r \in RfcOutcome : Return(t, r, "record")
  /\ UNCHANGED <<row, memory, worldVars, history, bounds>>

(* 429 or 503: the server states that it did not process the request.      *)
RfcTurnedAway(t) ==
  /\ pc[t] = "posted" /\ LoopFree(t)
  /\ Return(t, Res("failed", Retryable, FALSE), "record")
  /\ refused' = [refused EXCEPT ![act[t]] = @ + 1]
  /\ UNCHANGED <<row, memory, worldVars, contacts, bounds>>

-----------------------------------------------------------------------------
(* MailtoExecutor.execute.                                                 *)

MailUnauthorized(t) ==
  /\ Calls(t, "mailto") /\ ~scope
  /\ Return(t, Res("needs_user", Unauthorized, FALSE), "record")
  /\ UNCHANGED <<row, memory, worldVars, history, bounds>>

(* Variant: the mail is sent without a journaled Message-ID.               *)
MailJournalSkipped(t) ==
  /\ Calls(t, "mailto") /\ scope
  /\ Goto(t, "send")
  /\ UNCHANGED <<row, memory, op, act, rest, result, worldVars, history, bounds>>

(* persist_outbound_message_id: the deterministic Message-ID is durable    *)
(* before Gmail is called.                                                 *)
MailJournal(t) ==
  /\ Calls(t, "mailto") /\ scope
  /\ row' = [row EXCEPT ![act[t]].journaled = TRUE]
  /\ Goto(t, "send")
  /\ UNCHANGED <<memory, op, act, rest, result, worldVars, history, bounds>>

MailSend(t) ==
  /\ pc[t] = "send" /\ LoopFree(t)
  /\ Contact(act[t])
  /\ Goto(t, "sending")
  /\ UNCHANGED <<row, memory, op, act, rest, result, worldVars, refused, bounds>>

(* Gmail files a mail it was asked to send; perhaps long after the caller  *)
(* has given up or the process has died, perhaps never.                    *)
GmailFiles(a) ==
  /\ MethodOf(a) = "mailto" /\ contacts[a] > 0 /\ ~sent[a]
  /\ sent' = [sent EXCEPT ![a] = TRUE]
  /\ UNCHANGED <<row, memory, taskVars, scope, history, bounds>>

MailAccepted(t) ==
  /\ pc[t] = "sending" /\ LoopFree(t)
  /\ sent[act[t]]
  /\ Return(t, Res("submitted", "other", TRUE), "record")
  /\ UNCHANGED <<row, memory, worldVars, history, bounds>>

MailSendRaises(t) ==
  /\ pc[t] = "sending" /\ LoopFree(t)
  /\ Goto(t, "lookup")
  /\ UNCHANGED <<row, memory, op, act, rest, result, worldVars, history, bounds>>

(* find_sent_by_message_id sees only mail that is in Sent.                 *)
MailFound(t) ==
  /\ pc[t] = "lookup" /\ LoopFree(t)
  /\ sent[act[t]]
  /\ Return(t, Res("submitted", "other", TRUE), "record")
  /\ UNCHANGED <<row, memory, worldVars, history, bounds>>

(* Variants: a failed send reported like a missing permission, and a       *)
(* lookup repeated until the mail shows up.                                *)
MailNotFoundRetryable(t) ==
  /\ pc[t] = "lookup" /\ LoopFree(t)
  /\ Return(t, Res("needs_user", Unauthorized, FALSE), "record")
  /\ UNCHANGED <<row, memory, worldVars, history, bounds>>

MailNotFoundWaits(t) ==
  /\ pc[t] = "lookup" /\ LoopFree(t) /\ sent[act[t]]
  /\ Return(t, Res("submitted", "other", TRUE), "record")
  /\ UNCHANGED <<row, memory, worldVars, history, bounds>>

MailNotFound(t) ==
  /\ pc[t] = "lookup" /\ LoopFree(t)
  /\ Return(t, Res("needs_user", "other", FALSE), "record")
  /\ UNCHANGED <<row, memory, worldVars, history, bounds>>

-----------------------------------------------------------------------------
(* BrowserExecutor.execute and resume.                                     *)

(* No browser, an unsafe target, or a browser that does not launch.        *)
BrowserUnavailable(t) ==
  /\ Calls(t, "browser")
  /\ \E s \in {"needs_user", "failed"} : Return(t, Res(s, "other", FALSE), "record")
  /\ UNCHANGED <<row, memory, worldVars, history, bounds>>

BrowserOpen(t) ==
  /\ Calls(t, "browser")
  /\ session' = [session EXCEPT ![act[t]].open = TRUE]
  /\ Goto(t, "advance")
  /\ UNCHANGED <<row, up, catalog, plan, lock, op, act, rest, result, worldVars, history, bounds>>

(* _advance: final_click_issued is set, then the control is clicked.       *)
BrowserClick(t) ==
  /\ pc[t] = "advance" /\ LoopFree(t)
  /\ session' = [session EXCEPT ![act[t]].clicked = TRUE]
  /\ Contact(act[t])
  /\ Goto(t, "clicked")
  /\ UNCHANGED <<row, up, catalog, plan, lock, op, act, rest, result, worldVars, refused, bounds>>

(* _needs_user: the session stays open.                                    *)
BrowserPause(t) ==
  /\ pc[t] \in {"advance", "clicked", "evaluate"} /\ LoopFree(t)
  /\ Return(t, Res("needs_user", "other", TRUE), "record")
  /\ UNCHANGED <<row, memory, worldVars, history, bounds>>

(* Variant: leaving the page counts as submitted without a click.          *)
BrowserOutcomeClickless(a) == {"submitted", "confirmed", "failed"}

(* BrowserOutcomePolicy.evaluate, the outcomes that close the session.     *)
BrowserOutcome(a) ==
  IF session[a].clicked THEN {"submitted", "confirmed", "failed"} ELSE {"confirmed"}

BrowserFinish(t) ==
  /\ pc[t] \in {"advance", "clicked", "evaluate"} /\ LoopFree(t)
  /\ \E s \in BrowserOutcome(act[t]) : Return(t, Res(s, "other", FALSE), "closing")
  /\ session' = [session EXCEPT ![act[t]].open = FALSE]
  /\ UNCHANGED <<row, up, catalog, plan, lock, worldVars, history, bounds>>

(* _close: the browser context has been closed.                            *)
BrowserClosed(t) ==
  /\ pc[t] = "closing" /\ LoopFree(t)
  /\ Goto(t, "record")
  /\ UNCHANGED <<row, memory, op, act, rest, result, worldVars, history, bounds>>

-----------------------------------------------------------------------------
(* BrowserSessionService, which takes no lock.  A client can name a        *)
(* session once the activity view has shown its id.                        *)

TakeOver(a) ==
  /\ up /\ LoopIdle
  /\ session[a].open /\ session[a].shown
  /\ session' = [session EXCEPT ![a].manual = TRUE]
  /\ UNCHANGED <<row, up, catalog, plan, lock, taskVars, worldVars, history, bounds>>

(* Variants: the page is driven on after a click, and the row's state is   *)
(* overwritten without a look at the transition table.                     *)
ResumeBrowserAdvance(t, a) ==
  /\ up /\ pc[t] = "idle" /\ LoopFree(t) /\ resumes < MaxResumes
  /\ session[a].open /\ session[a].shown
  /\ SetState(a, "executing", "other", FALSE)
  /\ op'  = [op  EXCEPT ![t] = "resume"]
  /\ act' = [act EXCEPT ![t] = a]
  /\ Goto(t, IF session[a].manual THEN "evaluate" ELSE "advance")
  /\ resumes' = resumes + 1
  /\ UNCHANGED <<memory, rest, result, worldVars, history, crashes, faults>>

ResumeBrowserOverwrites(t, a) ==
  /\ up /\ pc[t] = "idle" /\ LoopFree(t) /\ resumes < MaxResumes
  /\ session[a].open /\ session[a].shown
  /\ row' = [row EXCEPT ![a].state = "executing"]
  /\ op'  = [op  EXCEPT ![t] = "resume"]
  /\ act' = [act EXCEPT ![t] = a]
  /\ Goto(t, IF session[a].manual \/ session[a].clicked THEN "evaluate" ELSE "advance")
  /\ resumes' = resumes + 1
  /\ UNCHANGED <<memory, rest, result, worldVars, history, crashes, faults>>

ResumeBrowser(t, a) ==
  /\ up /\ pc[t] = "idle" /\ LoopFree(t) /\ resumes < MaxResumes
  /\ session[a].open /\ session[a].shown
  /\ SetState(a, "executing", "other", FALSE)
  /\ op'  = [op  EXCEPT ![t] = "resume"]
  /\ act' = [act EXCEPT ![t] = a]
  /\ Goto(t, IF session[a].manual \/ session[a].clicked THEN "evaluate" ELSE "advance")
  /\ resumes' = resumes + 1
  /\ UNCHANGED <<memory, rest, result, worldVars, history, crashes, faults>>

(* cancel removes and closes the session before the row is touched.        *)
CancelBrowser(t, a) ==
  /\ up /\ pc[t] = "idle" /\ LoopFree(t)
  /\ session[a].open /\ session[a].shown
  /\ session' = [session EXCEPT ![a].open = FALSE]
  /\ op'     = [op     EXCEPT ![t] = "cancel"]
  /\ act'    = [act    EXCEPT ![t] = a]
  /\ result' = [result EXCEPT ![t] = Res("reviewed", "other", FALSE)]
  /\ Goto(t, "closing")
  /\ UNCHANGED <<row, up, catalog, plan, lock, rest, worldVars, history, bounds>>

-----------------------------------------------------------------------------
(* The result is recorded; the loop goes on or the request ends.           *)

Record(t) ==
  /\ pc[t] = "record" /\ LoopFree(t)
  /\ SetState(act[t], result[t].state, result[t].code, result[t].ext)
  /\ session' = IF MethodOf(act[t]) = "browser" /\ result[t].ext
                THEN [session EXCEPT ![act[t]].shown = TRUE] ELSE session
  /\ IF rest[t] # {}
     THEN /\ Goto(t, "start")
          /\ act'    = [act    EXCEPT ![t] = None]
          /\ result' = [result EXCEPT ![t] = None]
          /\ UNCHANGED <<op, rest, lock>>
     ELSE Leave(t)
  /\ UNCHANGED <<up, catalog, plan, worldVars, history, bounds>>

(* InvalidTransition.                                                      *)
RecordRejected(t) ==
  /\ pc[t] = "record" /\ LoopFree(t)
  /\ result[t].state \notin Allowed[row[act[t]].state]
  /\ Leave(t)
  /\ UNCHANGED <<row, up, catalog, plan, session, worldVars, history, bounds>>

(* Any other exception, from the database, the keyring, Gmail's Sent       *)
(* lookup or the page, ends the request where it is.                       *)
Raise(t) ==
  /\ pc[t] # "idle" /\ LoopFree(t) /\ faults < MaxFaults
  /\ Leave(t)
  /\ faults' = faults + 1
  /\ UNCHANGED <<row, up, catalog, plan, session, worldVars, history, crashes, resumes>>

-----------------------------------------------------------------------------
(* Connecting and disconnecting the Gmail account.                         *)
ChangeScope ==
  /\ up /\ LoopIdle
  /\ scope' = ~scope
  /\ UNCHANGED <<row, memory, taskVars, sent, history, bounds>>

(* The process stops, at any point, and is started again.                  *)
Crash ==
  /\ crashes < MaxCrashes
  /\ crashes' = crashes + 1
  /\ up'      = FALSE
  /\ catalog' = [c \in Candidate |-> 0]
  /\ plan'    = [p \in Plan |-> NoPlan]
  /\ lock'    = None
  /\ session' = [a \in Action |-> NoSession]
  /\ pc'      = [t \in Task |-> "idle"]
  /\ op'      = [t \in Task |-> "none"]
  /\ act'     = [t \in Task |-> None]
  /\ rest'    = [t \in Task |-> {}]
  /\ result'  = [t \in Task |-> None]
  /\ faults'  = 0
  /\ UNCHANGED <<row, worldVars, history, resumes>>

(* RecoveryService.run: three passes over the rows, before requests.       *)
InState(s) == {a \in Action : row[a].state = s}
Recovers   == ~up /\ UNCHANGED <<memory, taskVars, worldVars, history, bounds>>

(* Variants: a journaled mail is taken for a sent one; a row whose Sent    *)
(* lookup raised is skipped; readiness does not wait for all three passes. *)
RecoverJournaledMail(a) ==
  /\ a \in InState("executing")
  /\ MethodOf(a) = "mailto" /\ row[a].journaled
  /\ SetState(a, "submitted", "other", TRUE)
  /\ Recovers

RecoverSkipped(a) ==
  /\ a \in InState("executing")
  /\ IF MethodOf(a) = "mailto" /\ row[a].journaled
     THEN UNCHANGED row
     ELSE SetState(a, "needs_user", "other", FALSE)
  /\ Recovers

RecoveryDoneEarly ==
  /\ ~up
  /\ InState("executing") = {}
  /\ up' = TRUE
  /\ UNCHANGED <<row, catalog, plan, lock, session, taskVars, worldVars, history, bounds>>

RecoverSentMail(a) ==
  /\ a \in InState("executing")
  /\ MethodOf(a) = "mailto" /\ row[a].journaled /\ sent[a]
  /\ SetState(a, "submitted", "other", TRUE)
  /\ Recovers

(* No mail, or the lookup found nothing or raised.                         *)
RecoverInterrupted(a) ==
  /\ a \in InState("executing")
  /\ SetState(a, "needs_user", "other", FALSE)
  /\ Recovers

RecoverUnstarted(a) ==
  /\ InState("executing") = {} /\ a \in InState("confirmed_by_user")
  /\ SetState(a, "reviewed", "other", FALSE)
  /\ Recovers

LostSessions == {a \in InState("needs_user") :
                   MethodOf(a) = "browser" /\ row[a].ext /\ ~session[a].open}

RecoverLostSession(a) ==
  /\ InState("executing") \cup InState("confirmed_by_user") = {} /\ a \in LostSessions
  /\ SetState(a, "reviewed", "other", FALSE)
  /\ Recovers

RecoveryDone ==
  /\ ~up
  /\ InState("executing") \cup InState("confirmed_by_user") \cup LostSessions = {}
  /\ up' = TRUE
  /\ UNCHANGED <<row, catalog, plan, lock, session, taskVars, worldVars, history, bounds>>

-----------------------------------------------------------------------------
UserStep(t) ==
  \/ \E p \in Plan : ConfirmEnter(t, p)
  \/ \E a \in Action : RetryEnter(t, a) \/ ResumeBrowser(t, a) \/ CancelBrowser(t, a)

ConfirmStep(t) ==
  \/ ConfirmAuthorized(t) \/ ConfirmUnauthorized(t) \/ ConfirmPlan(t) \/ ConfirmStale(t)
  \/ CreateConfirmedPlan(t) \/ StartAction(t)

ExecutorStep(t) ==
  \/ RfcTargetRefused(t) \/ RfcPost(t) \/ RfcAnswered(t) \/ RfcTurnedAway(t)
  \/ MailUnauthorized(t) \/ MailJournal(t) \/ MailSend(t) \/ MailAccepted(t)
  \/ MailSendRaises(t) \/ MailFound(t) \/ MailNotFound(t)
  \/ BrowserUnavailable(t) \/ BrowserOpen(t) \/ BrowserClick(t) \/ BrowserPause(t)
  \/ BrowserFinish(t) \/ BrowserClosed(t)

(* What the event loop and the timeouts of the executors bring about.      *)
TaskStep(t) ==
  \/ ConfirmStep(t)
  \/ RetryAdvance(t) \/ RetryPayloadUnavailable(t)
  \/ ExecutorStep(t)
  \/ Record(t) \/ RecordRejected(t)

RecoveryStep ==
  \/ \E a \in Action : RecoverSentMail(a) \/ RecoverInterrupted(a)
                       \/ RecoverUnstarted(a) \/ RecoverLostSession(a)
  \/ RecoveryDone

EnvironmentStep ==
  \/ \E c \in Candidate : Discover(c) \/ Correct(c)
  \/ \E p \in Plan, S \in SUBSET Candidate : CreatePlan(p, S)
  \/ \E a \in Action : TakeOver(a) \/ GmailFiles(a)
  \/ ChangeScope
  \/ Crash

Next ==
  \/ \E t \in Task : UserStep(t) \/ TaskStep(t) \/ Raise(t)
  \/ RecoveryStep
  \/ EnvironmentStep

Spec == Init /\ [][Next]_vars

FairSpec == Spec /\ WF_vars(RecoveryStep) /\ \A t \in Task : WF_vars(TaskStep(t))

-----------------------------------------------------------------------------
(* Properties.                                                             *)

(* The variables have their types.                                         *)
TypeOK ==
  /\ row \in [Action -> Row]
  /\ up \in BOOLEAN
  /\ catalog \in [Candidate -> 0..MaxRevision]
  /\ plan \in [Plan -> [items : SUBSET Action, confirmed : BOOLEAN]]
  /\ lock \in Task \cup {None}
  /\ session \in [Action -> Session]
  /\ pc \in [Task -> PC]
  /\ op \in [Task -> Op]
  /\ act \in [Task -> Action \cup Plan \cup {None}]
  /\ rest \in [Task -> SUBSET Action]
  /\ result \in [Task -> Result \cup {None}]
  /\ scope \in BOOLEAN
  /\ sent \in [Action -> BOOLEAN]
  /\ contacts \in [Action -> Nat]
  /\ refused \in [Action -> Nat]
  /\ crashes \in Nat /\ faults \in Nat /\ resumes \in Nat

Outstanding(a) == contacts[a] > refused[a]

(* The task is between the start of an action and the record of its result.*)
InCall == {"call", "posted", "send", "sending", "lookup", "advance", "clicked",
           "evaluate", "closing", "record"}
Drives(t, a) == pc[t] \in InCall /\ op[t] # "cancel" /\ act[t] = a

(* A side effect that may have happened is never repeated: of all contacts *)
(* made for an action, through confirmation, retry, resume and restart, at *)
(* most one is not known to be without effect, and there are two at most.  *)
NoRepeatedSideEffect ==
  \A a \in Action : contacts[a] <= refused[a] + 1 /\ contacts[a] <= 2

(* A retry is offered only for an action nothing of which can be in effect *)
(* (the guard of review_and_retry and retry_available in api/activity.py). *)
RetryOnlyWithoutEffect ==
  \A a \in Action : RetryEligible(a) => ~Outstanding(a)

(* "submitted" is never claimed without a contact that can have had an     *)
(* effect, and for mail never unless the message is in Gmail Sent.         *)
SubmittedIsBacked ==
  \A a \in Action : row[a].state = "submitted" =>
    Outstanding(a) /\ (MethodOf(a) = "mailto" => sent[a])

(* Write-ahead: while a task works on an action its row says "executing",  *)
(* and a mail that may have been sent has its Message-ID in the row, so    *)
(* that a crash at any point is seen by startup recovery.                  *)
IntentIsDurable ==
  /\ \A t \in Task, a \in Action : Drives(t, a) => row[a].state = "executing"
  /\ \A a \in Action : MethodOf(a) = "mailto" /\ contacts[a] > 0 => row[a].journaled

(* Confirm and retry under the lock and the unlocked browser requests      *)
(* never work on the same action at the same time.                         *)
OneDriver ==
  \A t, u \in Task, a \in Action : Drives(t, a) /\ Drives(u, a) => t = u

(* While requests are served and none has failed unexpectedly, an action   *)
(* is "executing" or "confirmed_by_user" only if some task is seeing to    *)
(* it: recovery and the end of every request leave none behind.            *)
NoOrphan ==
  up /\ faults = 0 => \A a \in Action :
    /\ row[a].state = "executing" => \E t \in Task : Drives(t, a)
    /\ row[a].state = "confirmed_by_user" =>
         \E t \in Task : a \in rest[t] \/ (pc[t] = "retrying" /\ act[t] = a)

(* An action is recorded for execution only if its candidate is still at   *)
(* the revision the user reviewed, whatever happened during the awaits     *)
(* between the review and the confirmation.                                *)
ConsentIsCurrent ==
  [][\A a \in Action : row[a].state = "absent" /\ row'[a].state # "absent"
       => catalog[a[1]] = a[2]]_vars

(* What the user confirms is what is executed: the actions recorded in one *)
(* step are the items of one plan, all of them.                            *)
PlanIsRecordedWhole ==
  [][\A a \in Action : row[a].state = "absent" /\ row'[a].state # "absent"
       => \E p \in Plan : /\ plan[p].confirmed /\ a \in plan[p].items
                          /\ \A b \in plan[p].items : row'[b].state = "confirmed_by_user"]_vars

(* The detailed system implements the product's promise.                   *)
Lifecycle == INSTANCE ActionLifecycle WITH status <- [a \in Action |-> row[a].state]
ImplementsLifecycle == Lifecycle!Spec

(* Every started action gets an outcome, unless a request fails            *)
(* unexpectedly (then only the next start of the process settles it).      *)
EveryActionSettles ==
  \A a \in Action : row[a].state = "executing" ~> (row[a].state # "executing" \/ faults > 0)

(* The coordinator lock is never kept: awaits end, errors release it.      *)
LockIsReleased == \A t \in Task : lock = t ~> lock # t

(* Startup recovery terminates and the program becomes ready.              *)
RecoveryCompletes == ~up ~> up

(* README.md, and the message of ActionAlreadyAttempted: a plan is turned  *)
(* away only for an action that was already attempted.                     *)
RefusedOnlyIfAttempted ==
  \A p \in Plan, a \in Action :
    up /\ ~plan[p].confirmed /\ a \in plan[p].items /\ row[a].state = "reviewed"
      => contacts[a] > 0

=============================================================================
