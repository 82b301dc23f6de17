--------------------------- MODULE BrowserSession ---------------------------
(***************************************************************************)
(* The life of one browser session (backend/app/executors/browser.py,      *)
(* actions/browser_sessions.py): the call that opens it, the requests that *)
(* resume, take over and stop it without a lock, and the page, whose       *)
(* navigations, windows and dialogs reach the program as callbacks between *)
(* any two awaits.  Execution has the same session in coarse steps;        *)
(* StepsOfExecution says that it leaves nothing out.                       *)
(*                                                                         *)
(* What the page shows is not a state: whenever the program looks, it may  *)
(* see anything an open page can show.                                     *)
(***************************************************************************)
EXTENDS ActionStates, Naturals

CONSTANTS
  Task,            \* concurrent request coroutines
  None,            \* no task, no result
  MaxResumes,      \* bound: resumed sessions
  MaxNavigations   \* bound: navigations of the main frame

ASSUME SessionAssumption ==
  None \notin Task /\ MaxResumes \in Nat /\ MaxNavigations \in Nat

VARIABLES
  row,             \* the action's state and whether it has an external id
  lock,            \* the task that holds ExecutionCoordinator._lock
  pc, op, result,  \* per task: program point, request, ExecutionResult
  registered,      \* BrowserSessionRegistry has the session
  shown,           \* a client has seen the session's id
  context,         \* the Chromium process: none, open, guarded, closed
  pageOpen,        \* ~page.is_closed()
  blocked,         \* blocker_code is not empty
  navigations,     \* navigation_count
  clicked,         \* final_click_issued
  manual,          \* manual_takeover
  routing,         \* main-frame requests in a route handler's await
  \* history
  clicks,          \* clicks on the final control
  admitted,        \* navigations let through before the click
  doubtful,        \* a click was reported as uncertain
  stopped,         \* the user stopped the session
  \* counters that bound the behaviours
  resumes, faults, started

sessionVars == <<registered, shown, context, pageOpen, blocked, navigations, clicked, manual, routing>>
history     == <<clicks, admitted, doubtful, stopped>>
bounds      == <<resumes, faults, started>>
vars        == <<row, lock, pc, op, result, sessionVars, history, bounds>>

-----------------------------------------------------------------------------
Result == [state : ActionState, ext : BOOLEAN]
Res(s, e) == [state |-> s, ext |-> e]

ASSUME ResultAssumption == None \notin Result

PC == {"idle", "call", "launching", "guarding", "goto", "resuming", "advance",
       "reading", "fields", "controls", "preflight", "clicking", "clicked",
       "evaluating", "resumed", "closing", "record"}

(* A step of a task, a callback and a request need every other coroutine   *)
(* to be in an await.                                                      *)
Suspended == PC \ {"resuming", "advance", "clicked", "record"}
LoopFree(t) == \A u \in Task \ {t} : pc[u] \in Suspended
LoopIdle    == \A u \in Task : pc[u] \in Suspended

At(t, l) == pc[t] = l /\ LoopFree(t)
Goto(t, l) == pc' = [pc EXCEPT ![t] = l]

Return(t, r, l) ==
  /\ Goto(t, l)
  /\ result' = [result EXCEPT ![t] = r]

Leave(t) ==
  /\ Goto(t, "idle")
  /\ op'     = [op     EXCEPT ![t] = "none"]
  /\ result' = [result EXCEPT ![t] = None]
  /\ lock'   = IF lock = t THEN None ELSE lock

(* The coordinator has moved the action to EXECUTING and calls execute.    *)
Init ==
  /\ row = [state |-> "executing", ext |-> FALSE]
  /\ lock \in Task
  /\ pc     = [t \in Task |-> IF t = lock THEN "call" ELSE "idle"]
  /\ op     = [t \in Task |-> IF t = lock THEN "confirm" ELSE "none"]
  /\ result = [t \in Task |-> None]
  /\ registered = FALSE /\ shown = FALSE /\ context = "none" /\ pageOpen = FALSE
  /\ blocked = FALSE /\ navigations = 0 /\ clicked = FALSE /\ manual = FALSE
  /\ routing = 0
  /\ clicks = 0 /\ admitted = 0 /\ doubtful = FALSE /\ stopped = FALSE
  /\ resumes = 0 /\ faults = 0 /\ started = 0

-----------------------------------------------------------------------------
(* BrowserExecutor.execute.                                                *)

(* The target fails its last check, or Chromium does not start; then       *)
(* _launch has stopped what it had started.                                *)
Unavailable(t) ==
  /\ At(t, "call") \/ At(t, "launching")
  /\ Return(t, Res("failed", FALSE), "record")
  /\ UNCHANGED <<row, lock, op, sessionVars, history, bounds>>

Revalidate(t) ==
  /\ At(t, "call")
  /\ Goto(t, "launching")
  /\ UNCHANGED <<row, lock, op, result, sessionVars, history, bounds>>

(* The session is registered before the guards are installed.              *)
Launch(t) ==
  /\ At(t, "launching")
  /\ context' = "open" /\ pageOpen' = TRUE /\ registered' = TRUE
  /\ Goto(t, "guarding")
  /\ UNCHANGED <<row, lock, op, result, shown, blocked, navigations, clicked, manual,
                 routing, history, bounds>>

InstallGuards(t) ==
  /\ At(t, "guarding") /\ context = "open"
  /\ context' = "guarded"
  /\ Goto(t, "goto")
  /\ UNCHANGED <<row, lock, op, result, registered, shown, pageOpen, blocked, navigations,
                 clicked, manual, routing, history, bounds>>

(* page.goto returns, or raises and is recorded as a blocker.              *)
PageOpened(t) ==
  /\ At(t, "goto")
  /\ blocked' \in {blocked, TRUE}
  /\ Goto(t, "advance")
  /\ UNCHANGED <<row, lock, op, result, registered, shown, context, pageOpen, navigations,
                 clicked, manual, routing, history, bounds>>

-----------------------------------------------------------------------------
(* BrowserExecutor._advance.                                               *)

(* Variant: the session is closed although the user is needed.             *)
PauseClosing(t) ==
  /\ registered' = FALSE
  /\ Return(t, Res("needs_user", TRUE), "closing")
  /\ UNCHANGED <<row, lock, op, shown, context, pageOpen, blocked, navigations, clicked,
                 manual, routing, clicks, admitted, stopped, bounds>>

(* _needs_user: the reason is the session's blocker from now on.           *)
Pause(t) ==
  /\ blocked' = TRUE
  /\ Return(t, Res("needs_user", TRUE), "record")
  /\ UNCHANGED <<row, lock, op, registered, shown, context, pageOpen, navigations, clicked,
                 manual, routing, clicks, admitted, stopped, bounds>>

(* _finish and _close: the session leaves the registry at once, Chromium   *)
(* is gone when the await is over.                                         *)
Finish(t, s) ==
  /\ registered' = FALSE
  /\ Return(t, Res(s, FALSE), "closing")
  /\ UNCHANGED <<row, lock, op, shown, context, pageOpen, blocked, navigations, clicked,
                 manual, routing, history, bounds>>

Obstructed == blocked \/ ~pageOpen

AdvanceBlocked(t) ==
  /\ At(t, "advance") /\ Obstructed
  /\ Pause(t) /\ UNCHANGED doubtful

Advance(t) ==
  /\ At(t, "advance") /\ ~Obstructed
  /\ Goto(t, "reading")
  /\ UNCHANGED <<row, lock, op, result, sessionVars, history, bounds>>

(* BrowserOutcomePolicy.evaluate of what is visible, which on a closed     *)
(* page is nothing.                                                        *)
Outcome(final_click_issued) ==
  IF final_click_issued
  THEN {"submitted"} \cup IF pageOpen THEN {"failed", "confirmed"} ELSE {}
  ELSE {"needs_user"} \cup IF pageOpen THEN {"confirmed"} ELSE {}

(* The page says already that the unsubscription is done.                  *)
AlreadyAccepted(t) ==
  /\ At(t, "reading") /\ "confirmed" \in Outcome(FALSE)
  /\ Finish(t, "confirmed")

(* Looking on: the text (empty if it cannot be read), password fields, the *)
(* controls, the attributes of the control.  Each look is an await of its  *)
(* own, and all but the first raise on a closed page.                      *)
NextLook == [reading |-> "fields", fields |-> "controls", controls |-> "preflight"]

LookOn(t) ==
  /\ pc[t] \in DOMAIN NextLook /\ LoopFree(t)
  /\ pc[t] = "reading" \/ pageOpen
  /\ Goto(t, NextLook[pc[t]])
  /\ UNCHANGED <<row, lock, op, result, sessionVars, history, bounds>>

(* A login, no or several controls, a control that leads elsewhere.        *)
LookPauses(t) ==
  /\ pc[t] \in {"fields", "controls", "preflight"} /\ LoopFree(t) /\ pageOpen
  /\ Pause(t) /\ UNCHANGED doubtful

(* final_click_issued is set, then the control is clicked.                 *)
Click(t) ==
  /\ At(t, "preflight") /\ pageOpen
  /\ clicked' = TRUE
  /\ clicks' = clicks + 1
  /\ Goto(t, "clicking")
  /\ UNCHANGED <<row, lock, op, result, registered, shown, context, pageOpen, blocked,
                 navigations, manual, routing, admitted, doubtful, stopped, bounds>>

ClickUncertain(t) ==
  /\ At(t, "clicking")
  /\ Pause(t) /\ doubtful' = TRUE

ClickReturns(t) ==
  /\ At(t, "clicking")
  /\ Goto(t, "clicked")
  /\ UNCHANGED <<row, lock, op, result, sessionVars, history, bounds>>

ClickBlocked(t) ==
  /\ At(t, "clicked") /\ Obstructed
  /\ Pause(t) /\ UNCHANGED doubtful

ReadOutcome(t) ==
  /\ At(t, "clicked") /\ ~Obstructed
  /\ Goto(t, "evaluating")
  /\ UNCHANGED <<row, lock, op, result, sessionVars, history, bounds>>

Evaluated(t) ==
  /\ At(t, "evaluating")
  /\ \E s \in Outcome(TRUE) : Finish(t, s)

-----------------------------------------------------------------------------
(* BrowserSessionService and BrowserExecutor.resume, take_over, cancel.    *)

Reachable == registered /\ shown

(* Variants: a resumed session may navigate twice again; the page is       *)
(* driven on although the control was clicked.                             *)
ResumeRestartsCount(t) ==
  /\ At(t, "idle") /\ Reachable /\ resumes < MaxResumes
  /\ "executing" \in Allowed[row.state]
  /\ row' = [state |-> "executing", ext |-> FALSE]
  /\ op'  = [op EXCEPT ![t] = "resume"]
  /\ resumes' = resumes + 1
  /\ navigations' = 0
  /\ Goto(t, "resuming")
  /\ UNCHANGED <<lock, result, registered, shown, context, pageOpen, blocked, clicked, manual,
                 routing, history, faults, started>>

ResumeAdvanceAlways(t) ==
  /\ At(t, "resuming") /\ pageOpen
  /\ blocked' = FALSE
  /\ Goto(t, IF manual THEN "resumed" ELSE "advance")
  /\ UNCHANGED <<row, lock, op, result, registered, shown, context, pageOpen, navigations,
                 clicked, manual, routing, history, bounds>>

(* Variant: the row is overwritten whatever state it is in.                *)
ResumeUnchecked(t) ==
  /\ At(t, "idle") /\ Reachable /\ resumes < MaxResumes
  /\ row' = [state |-> "executing", ext |-> FALSE]
  /\ op'  = [op EXCEPT ![t] = "resume"]
  /\ resumes' = resumes + 1
  /\ Goto(t, "resuming")
  /\ UNCHANGED <<lock, result, sessionVars, history, faults, started>>

(* set_state(EXECUTING), one transaction.                                  *)
Resume(t) ==
  /\ At(t, "idle") /\ Reachable /\ resumes < MaxResumes
  /\ "executing" \in Allowed[row.state]
  /\ row' = [state |-> "executing", ext |-> FALSE]
  /\ op'  = [op EXCEPT ![t] = "resume"]
  /\ resumes' = resumes + 1
  /\ Goto(t, "resuming")
  /\ UNCHANGED <<lock, result, sessionVars, history, faults, started>>

ResumeClosed(t) ==
  /\ At(t, "resuming") /\ ~pageOpen
  /\ Pause(t) /\ UNCHANGED doubtful

(* The blocker is forgotten.  After a takeover or a click the page is only *)
(* read, otherwise it is driven on.                                        *)
ResumeOpen(t) ==
  /\ At(t, "resuming") /\ pageOpen
  /\ blocked' = FALSE
  /\ Goto(t, IF manual \/ clicked THEN "resumed" ELSE "advance")
  /\ UNCHANGED <<row, lock, op, result, registered, shown, context, pageOpen, navigations,
                 clicked, manual, routing, history, bounds>>

ResumeUnresolved(t) ==
  /\ At(t, "resumed") /\ "needs_user" \in Outcome(clicked)
  /\ Pause(t) /\ UNCHANGED doubtful

ResumeResolved(t) ==
  /\ At(t, "resumed")
  /\ \E s \in Outcome(clicked) \ {"needs_user"} : Finish(t, s)

TakeOver ==
  /\ LoopIdle /\ Reachable
  /\ manual' = TRUE
  /\ UNCHANGED <<row, lock, pc, op, result, registered, shown, context, pageOpen, blocked,
                 navigations, clicked, routing, history, bounds>>

(* Variant: the session leaves the registry when Chromium is closed.       *)
CancelLate(t) ==
  /\ At(t, "idle") /\ Reachable
  /\ stopped' = TRUE
  /\ op' = [op EXCEPT ![t] = "cancel"]
  /\ Return(t, Res("reviewed", FALSE), "closing")
  /\ UNCHANGED <<row, lock, sessionVars, clicks, admitted, doubtful, bounds>>

Cancel(t) ==
  /\ At(t, "idle") /\ Reachable
  /\ registered' = FALSE
  /\ stopped' = TRUE
  /\ op' = [op EXCEPT ![t] = "cancel"]
  /\ Return(t, Res("reviewed", FALSE), "closing")
  /\ UNCHANGED <<row, lock, shown, context, pageOpen, blocked, navigations, clicked, manual,
                 routing, clicks, admitted, doubtful, bounds>>

Closed(t) ==
  /\ At(t, "closing")
  /\ context' = "closed" /\ pageOpen' = FALSE /\ routing' = 0
  /\ Goto(t, "record")
  /\ UNCHANGED <<row, lock, op, result, registered, shown, blocked, navigations, clicked,
                 manual, history, bounds>>

(* set_state in the coordinator or in BrowserSessionService.               *)
Record(t) ==
  /\ At(t, "record")
  /\ IF result[t].state \in Allowed[row.state]
     THEN /\ row' = result[t]
          /\ shown' = (shown \/ result[t].ext)
     ELSE UNCHANGED <<row, shown>>
  /\ Leave(t)
  /\ UNCHANGED <<registered, context, pageOpen, blocked, navigations, clicked, manual,
                 routing, history, bounds>>

(* Awaits whose exceptions nobody catches before the request ends.  That   *)
(* of _close stops Chromium all the same.                                  *)
Raise(t) ==
  /\ pc[t] \in {"call", "guarding", "fields", "controls", "preflight", "record"} /\ LoopFree(t)
  /\ Leave(t)
  /\ faults' = faults + 1
  /\ UNCHANGED <<row, sessionVars, history, resumes, started>>

(* Variant: no finally; a context that does not close stays as it is.      *)
CloseRaisesOpen(t) ==
  /\ At(t, "closing")
  /\ Leave(t)
  /\ faults' = faults + 1
  /\ UNCHANGED <<row, sessionVars, history, resumes, started>>

CloseRaises(t) ==
  /\ At(t, "closing")
  /\ context' = "closed" /\ pageOpen' = FALSE /\ routing' = 0
  /\ Leave(t)
  /\ faults' = faults + 1
  /\ UNCHANGED <<row, registered, shown, blocked, navigations, clicked, manual, history,
                 resumes, started>>

-----------------------------------------------------------------------------
(* The page.  Callbacks run while every coroutine is in an await.          *)
Live == context = "guarded" /\ pageOpen /\ LoopIdle

(* A request to navigate the main frame; its handler first awaits the      *)
(* verdict of the URL policy.                                              *)
Navigate ==
  /\ Live /\ started < MaxNavigations
  /\ started' = started + 1
  /\ routing' = routing + 1
  /\ UNCHANGED <<row, lock, pc, op, result, registered, shown, context, pageOpen, blocked,
                 navigations, clicked, manual, history, resumes, faults>>

(* An address that is not public, or another origin.                       *)
RouteRefused ==
  /\ Live /\ routing > 0
  /\ routing' = routing - 1
  /\ blocked' = TRUE
  /\ UNCHANGED <<row, lock, pc, op, result, registered, shown, context, pageOpen,
                 navigations, clicked, manual, history, bounds>>

RouteLimited ==
  /\ Live /\ routing > 0 /\ ~clicked /\ navigations >= 2
  /\ routing' = routing - 1
  /\ navigations' = navigations + 1
  /\ blocked' = TRUE
  /\ UNCHANGED <<row, lock, pc, op, result, registered, shown, context, pageOpen,
                 clicked, manual, history, bounds>>

RouteCounted ==
  /\ Live /\ routing > 0 /\ ~clicked /\ navigations < 2
  /\ routing' = routing - 1
  /\ navigations' = navigations + 1
  /\ admitted' = admitted + 1
  /\ UNCHANGED <<row, lock, pc, op, result, registered, shown, context, pageOpen, blocked,
                 clicked, manual, clicks, doubtful, stopped, bounds>>

RouteAfterClick ==
  /\ Live /\ routing > 0 /\ clicked
  /\ routing' = routing - 1
  /\ UNCHANGED <<row, lock, pc, op, result, registered, shown, context, pageOpen, blocked,
                 navigations, clicked, manual, history, bounds>>

(* A popup, a download, a dialog, or a navigation that fails after the     *)
(* click.  _block keeps the first of several reasons.                      *)
Block ==
  /\ Live /\ ~blocked
  /\ blocked' = TRUE
  /\ UNCHANGED <<row, lock, pc, op, result, registered, shown, context, pageOpen,
                 navigations, clicked, manual, routing, history, bounds>>

(* The user, or the page, closes the window.                               *)
CloseWindow ==
  /\ pageOpen /\ LoopIdle
  /\ pageOpen' = FALSE /\ routing' = 0
  /\ UNCHANGED <<row, lock, pc, op, result, registered, shown, context, blocked,
                 navigations, clicked, manual, history, bounds>>

-----------------------------------------------------------------------------
ExecuteStep(t) ==
  Unavailable(t) \/ Revalidate(t) \/ Launch(t) \/ InstallGuards(t) \/ PageOpened(t)

AdvanceStep(t) ==
  \/ AdvanceBlocked(t) \/ Advance(t) \/ AlreadyAccepted(t) \/ LookOn(t) \/ LookPauses(t)
  \/ Click(t) \/ ClickUncertain(t) \/ ClickReturns(t) \/ ClickBlocked(t) \/ ReadOutcome(t)
  \/ Evaluated(t)

ServiceStep(t) ==
  \/ Resume(t) \/ ResumeClosed(t) \/ ResumeOpen(t) \/ ResumeUnresolved(t) \/ ResumeResolved(t)
  \/ Cancel(t) \/ Closed(t) \/ Record(t) \/ Raise(t) \/ CloseRaises(t)

PageStep ==
  Navigate \/ RouteRefused \/ RouteLimited \/ RouteCounted \/ RouteAfterClick \/ Block \/ CloseWindow

Next ==
  \/ \E t \in Task : ExecuteStep(t) \/ AdvanceStep(t) \/ ServiceStep(t)
  \/ TakeOver
  \/ PageStep

Spec == Init /\ [][Next]_vars

-----------------------------------------------------------------------------
(* Properties.                                                             *)

(* The variables have their types.                                         *)
TypeOK ==
  /\ row \in Result
  /\ lock \in Task \cup {None}
  /\ pc \in [Task -> PC]
  /\ op \in [Task -> {"none", "confirm", "resume", "cancel"}]
  /\ result \in [Task -> Result \cup {None}]
  /\ registered \in BOOLEAN /\ shown \in BOOLEAN
  /\ context \in {"none", "open", "guarded", "closed"}
  /\ pageOpen \in BOOLEAN /\ blocked \in BOOLEAN /\ clicked \in BOOLEAN /\ manual \in BOOLEAN
  /\ navigations \in Nat /\ routing \in Nat
  /\ clicks \in Nat /\ admitted \in Nat /\ doubtful \in BOOLEAN /\ stopped \in BOOLEAN
  /\ resumes \in Nat /\ faults \in Nat /\ started \in Nat

(* The page gets at most two navigations before the final click, over all  *)
(* resumes of the session and however many are on their way at once.       *)
TwoNavigations == admitted <= 2

(* The final control is clicked once at most, in spite of resumes.         *)
OneClick == clicks <= 1

(* An action that waits for the user has the id of its session, and that   *)
(* session can still be taken over, resumed and stopped, unless the user   *)
(* has stopped it.                                                         *)
PausedIsReachable ==
  row.state = "needs_user" => row.ext /\ (registered \/ stopped)

(* No Chromium runs on unnoticed: it is in the registry, which the program *)
(* closes when it stops, or some request is closing it, and no request     *)
(* ends between these two, not even by an exception.                       *)
BrowserIsOwned ==
  context \in {"open", "guarded"} => registered \/ \E t \in Task : pc[t] = "closing"

(* Every step of the session is a step of Execution, or none: what holds   *)
(* of Execution's browser sessions (one click, one driver, outcomes with   *)
(* something to show) holds of them in this detail.                        *)
CoarsePC(t) ==
  CASE pc[t] \in {"call", "launching"} -> "call"
    [] pc[t] \in {"guarding", "goto", "advance", "reading", "fields", "controls", "preflight"} -> "advance"
    [] pc[t] \in {"clicking", "clicked", "evaluating"} -> "clicked"
    [] pc[t] = "resumed" -> "evaluate"
    [] pc[t] = "resuming" -> IF manual \/ clicked THEN "evaluate" ELSE "advance"
    [] OTHER -> pc[t]

TheAction == <<"sender", 1>>
ForAction(v) == [a \in {TheAction} |-> v]

CoarseRow      == ForAction([state |-> row.state, code |-> "other", retries |-> 0,
                             journaled |-> FALSE, ext |-> row.ext])
CoarseSession  == ForAction([open |-> registered, shown |-> shown, clicked |-> clicked,
                             manual |-> manual])
CoarseContacts == ForAction(clicks)
CoarsePCs      == [t \in Task |-> CoarsePC(t)]
CoarseAct      == [t \in Task |-> IF pc[t] = "idle" THEN None ELSE TheAction]
CoarseResult   == [t \in Task |-> IF result[t] = None THEN None
                                  ELSE [state |-> result[t].state, code |-> "other",
                                        ext |-> result[t].ext]]

E == INSTANCE Execution WITH
       Candidate <- {"sender"}, Method <- [c \in {"sender"} |-> "browser"], MaxRevision <- 1,
       Plan <- {"plan"}, MaxCrashes <- 0, MaxFaults <- MaxResumes + 2,
       row <- CoarseRow, session <- CoarseSession, contacts <- CoarseContacts,
       pc <- CoarsePCs, act <- CoarseAct, result <- CoarseResult,
       up <- TRUE, catalog <- [c \in {"sender"} |-> 1],
       plan <- [p \in {"plan"} |-> [items |-> {TheAction}, confirmed |-> TRUE]],
       rest <- [t \in Task |-> {}],
       scope <- FALSE, sent <- ForAction(FALSE), refused <- ForAction(0), crashes <- 0

StepsOfExecution == [][E!Next]_(E!vars)

(* docs/06-detailed-technical-design.md, section 11: a page that does not  *)
(* tell is "submitted" only if the final click was credibly issued, and    *)
(* "needs_user" if it is uncertain whether it was.                         *)
SubmittedIfCredible == row.state = "submitted" => ~doubtful

-----------------------------------------------------------------------------
(* The inductive invariant of BrowserSessionProofs.                        *)

Drives(t) == pc[t] # "idle" /\ op[t] # "cancel"

BeforeClick == {"call", "launching", "guarding", "goto", "advance", "reading", "fields",
                "controls", "preflight"}
InSession == PC \ {"idle", "call", "launching", "closing", "record"}

(* What holds of the task that drives the session, and of one that stops it.*)
TaskInv(t) ==
  /\ pc[t] = "idle" <=> op[t] = "none"
  /\ Drives(t) => row.state = "executing"
  /\ Drives(t) /\ pc[t] \in BeforeClick => ~clicked
  /\ Drives(t) /\ pc[t] \in InSession => registered \/ stopped
  /\ pc[t] \in {"closing", "record"} => result[t] \in Result
  /\ pc[t] = "closing" => result[t].state # "needs_user"
  /\ Drives(t) /\ pc[t] = "record" /\ result[t].state = "needs_user"
       => result[t].ext /\ (registered \/ stopped)
  /\ op[t] = "cancel" => pc[t] \in {"closing", "record"} /\ result[t].state = "reviewed"

IInv ==
  /\ TypeOK
  /\ \A t \in Task : TaskInv(t)
  /\ \A t, u \in Task : Drives(t) /\ Drives(u) => t = u
  /\ clicks = IF clicked THEN 1 ELSE 0
  /\ admitted <= navigations /\ admitted <= 2
  /\ PausedIsReachable
  /\ BrowserIsOwned

(* What the steps of Execution rely on besides: a session is stopped once, *)
(* opened for an action nobody has seen yet, and the exceptions stay below *)
(* the bound of Execution, because one request opened the session, each    *)
(* resume and the stop are one more, and each of them raises once at most. *)
Driven  == \E t \in Task : Drives(t)
Stopping == \E t \in Task : op[t] = "cancel"
One(b)  == IF b THEN 1 ELSE 0

CoarseInv ==
  /\ \A t \in Task : pc[t] \in {"clicking", "clicked", "evaluating"} => clicked
  /\ \A t \in Task : pc[t] \in {"call", "launching"} => ~registered /\ ~shown /\ ~stopped
  /\ \A t, u \in Task : op[t] = "cancel" /\ op[u] = "cancel" => t = u
  /\ \A t \in Task : op[t] = "cancel" => stopped
  /\ registered => ~stopped
  /\ resumes <= MaxResumes
  /\ faults + One(Driven) + One(Stopping) <= 1 + resumes + One(stopped)

SessionInv == IInv /\ CoarseInv

=============================================================================
