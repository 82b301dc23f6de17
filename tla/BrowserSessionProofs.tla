------------------------ MODULE BrowserSessionProofs ------------------------
(***************************************************************************)
(* Proofs about BrowserSession, for any number of concurrent requests,     *)
(* resumes and navigations.  The argument is isolation: the row admits one *)
(* driver of the session at a time, so a step of the driver finds every    *)
(* other request idle or stopping the session, and those depend on nothing *)
(* but their own program point.                                            *)
(*                                                                         *)
(* The second half shows that the session takes only steps of Execution,   *)
(* and takes the invariant of Execution over to it.                        *)
(***************************************************************************)
EXTENDS BrowserSession, TLAPS

USE SessionAssumption

(* The initial state has one driver, and no session.                       *)
LEMMA InitInv == Init => IInv
<1> SUFFICES ASSUME Init PROVE IInv
  OBVIOUS
<1>1. TypeOK
  BY DEF Init, TypeOK, Result, ActionState, PC
<1>2. \A t \in Task : TaskInv(t)
  BY DEF Init, TaskInv, Drives, BeforeClick, InSession, PC
<1>3. \A t, u \in Task : Drives(t) /\ Drives(u) => t = u
  BY DEF Init, Drives
<1> QED
  BY <1>1, <1>2, <1>3 DEF Init, IInv, PausedIsReachable, BrowserIsOwned

(* A request that does not drive the session keeps its part of the         *)
(* invariant when its own variables stay and stopped is not taken back.    *)
LEMMA OthersKeep ==
  ASSUME NEW u \in Task, TaskInv(u), ~Drives(u),
         pc'[u] = pc[u], op'[u] = op[u], result'[u] = result[u]
  PROVE  TaskInv(u)' /\ ~Drives(u)'
BY DEF TaskInv, Drives

(* Types.  What a task returns is a Result, whatever its fields.           *)
LEMMA ResultType == \A s \in ActionState, e \in BOOLEAN : Res(s, e) \in Result
BY DEF Res, Result

(* Every step keeps the types.                                             *)
LEMMA TypeStep ==
  ASSUME TypeOK, \A t \in Task : TaskInv(t), [Next]_vars
  PROVE  TypeOK'
<1> USE ResultType DEF TypeOK, Goto, sessionVars, history, bounds
<1>1. ASSUME NEW t \in Task, ExecuteStep(t) PROVE TypeOK'
  <2>1. CASE Unavailable(t)
    BY ZenonT(60), <2>1 DEF Unavailable, Return, PC, ActionState
  <2>2. CASE Revalidate(t)
    BY <2>2 DEF Revalidate, PC
  <2>3. CASE PageOpened(t)
    <3>1. blocked' \in BOOLEAN
      BY <2>3 DEF PageOpened
    <3> QED BY <2>3, <3>1 DEF PageOpened, PC
  <2>4. CASE Launch(t)
    BY <2>4 DEF Launch, PC
  <2>5. CASE InstallGuards(t)
    BY <2>5 DEF InstallGuards, PC
  <2> QED BY <1>1, <2>1, <2>2, <2>3, <2>4, <2>5 DEF ExecuteStep
<1>2. ASSUME NEW t \in Task, Pause(t), doubtful' \in BOOLEAN PROVE TypeOK'
  BY <1>2 DEF Pause, Return, PC, ActionState
<1>3. ASSUME NEW t \in Task, NEW s \in {"failed", "confirmed", "submitted"}, Finish(t, s) PROVE TypeOK'
  <2>1. Res(s, FALSE) \in Result
    BY DEF ActionState
  <2> QED BY ZenonT(60), <1>3, <2>1 DEF Finish, Return, PC
<1>4. ASSUME NEW t \in Task, AdvanceStep(t) PROVE TypeOK'
  <2>1. CASE AdvanceBlocked(t) \/ LookPauses(t) \/ ClickUncertain(t) \/ ClickBlocked(t)
    BY <2>1, <1>2 DEF AdvanceBlocked, LookPauses, ClickUncertain, ClickBlocked
  <2>2. CASE AlreadyAccepted(t)
    BY <2>2, <1>3 DEF AlreadyAccepted
  <2>3. CASE Advance(t) \/ ClickReturns(t) \/ ReadOutcome(t)
    BY <2>3 DEF Advance, ClickReturns, ReadOutcome, PC
  <2>4. CASE Click(t)
    BY <2>4 DEF Click, PC
  <2>5. CASE LookOn(t)
    <3>1. NextLook[pc[t]] \in PC
      BY <2>5 DEF LookOn, NextLook, PC
    <3> QED BY <2>5, <3>1 DEF LookOn
  <2>6. CASE Evaluated(t)
    <3>1. PICK s \in Outcome(TRUE) : Finish(t, s)
      BY <2>6 DEF Evaluated
    <3>2. s \in ActionState
      BY DEF Outcome, ActionState
    <3> QED BY ZenonT(60), <3>1, <3>2 DEF Finish, Return, PC
  <2> QED BY <1>4, <2>1, <2>2, <2>3, <2>4, <2>5, <2>6 DEF AdvanceStep
<1>5. ASSUME NEW t \in Task, ServiceStep(t) PROVE TypeOK'
  <2>1. CASE ResumeClosed(t) \/ ResumeUnresolved(t)
    BY <2>1, <1>2 DEF ResumeClosed, ResumeUnresolved
  <2>2. CASE ResumeResolved(t)
    BY <2>2, <1>3 DEF ResumeResolved, Outcome
  <2>3. CASE Resume(t)
    <3>1. [state |-> "executing", ext |-> FALSE] \in Result
      BY DEF Result, ActionState
    <3> QED BY <2>3, <3>1 DEF Resume, PC
  <2>4. CASE ResumeOpen(t)
    BY <2>4 DEF ResumeOpen, PC
  <2>5. CASE Cancel(t)
    BY <2>5 DEF Cancel, Return, PC, ActionState
  <2>6. CASE Closed(t)
    BY <2>6 DEF Closed, PC
  <2>7. CASE Record(t)
    <3>1. row' \in Result /\ shown' \in BOOLEAN
      <4>1. result[t] \in Result
        BY <2>7 DEF Record, At, TaskInv
      <4>2. CASE result[t].state \in Allowed[row.state]
        <5>1. row' = result[t] /\ shown' = (shown \/ result[t].ext)
          BY <2>7, <4>2 DEF Record
        <5>2. (shown \/ result[t].ext) \in BOOLEAN
          BY <4>1 DEF Result
        <5> QED BY <4>1, <5>1, <5>2
      <4>3. CASE result[t].state \notin Allowed[row.state]
        BY <2>7, <4>3 DEF Record
      <4> QED BY <4>2, <4>3
    <3> QED BY <2>7, <3>1 DEF Record, Leave, PC
  <2>8. CASE Raise(t)
    BY <2>8 DEF Raise, Leave, PC
  <2>9. CASE CloseRaises(t)
    <3>1. /\ pc' \in [Task -> PC] /\ lock' \in Task \cup {None}
          /\ op' \in [Task -> {"none", "confirm", "resume", "cancel"}]
          /\ result' \in [Task -> Result \cup {None}]
      BY <2>9 DEF CloseRaises, Leave, PC
    <3>2. /\ UNCHANGED <<row, registered, shown, blocked, navigations, clicked, manual, history, resumes, started>>
          /\ context' = "closed" /\ pageOpen' = FALSE /\ routing' = 0 /\ faults' = faults + 1
      BY <2>9 DEF CloseRaises
    <3>3. context' \in {"none", "open", "guarded", "closed"} /\ pageOpen' \in BOOLEAN
      BY <3>2
    <3>4. /\ row' \in Result
          /\ registered' \in BOOLEAN /\ shown' \in BOOLEAN /\ blocked' \in BOOLEAN
          /\ clicked' \in BOOLEAN /\ manual' \in BOOLEAN
          /\ doubtful' \in BOOLEAN /\ stopped' \in BOOLEAN
      BY <3>2
    <3>5. /\ navigations' \in Nat /\ routing' \in Nat /\ clicks' \in Nat /\ admitted' \in Nat
          /\ resumes' \in Nat /\ faults' \in Nat /\ started' \in Nat
      BY <3>2
    <3> QED BY <3>1, <3>3, <3>4, <3>5
  <2> QED BY <1>5, <2>1, <2>2, <2>3, <2>4, <2>5, <2>6, <2>7, <2>8, <2>9 DEF ServiceStep
<1>6. CASE TakeOver
  BY <1>6 DEF TakeOver
<1>7. ASSUME PageStep PROVE TypeOK'
  <2>1. CASE Block
    BY <2>1 DEF Block
  <2>7. CASE RouteAfterClick
    BY <2>7 DEF RouteAfterClick
  <2>2. CASE CloseWindow
    BY ZenonT(60), <2>2 DEF CloseWindow
  <2>3. CASE Navigate
    BY <2>3 DEF Navigate
  <2>4. CASE RouteRefused
    BY <2>4 DEF RouteRefused
  <2>5. CASE RouteLimited
    BY <2>5 DEF RouteLimited
  <2>6. CASE RouteCounted
    BY <2>6 DEF RouteCounted
  <2> QED BY <1>7, <2>1, <2>2, <2>3, <2>4, <2>5, <2>6, <2>7 DEF PageStep
<1>8. ASSUME UNCHANGED vars PROVE TypeOK'
  BY <1>8 DEF vars
<1> QED BY <1>1, <1>4, <1>5, <1>6, <1>7, <1>8 DEF Next

(* What a step of the driver t leaves to show for the others: they do not  *)
(* drive, and keep their own variables.                                    *)
LEMMA DriverStep ==
  ASSUME IInv, NEW t \in Task, Drives(t), TypeOK', TaskInv(t)',
         \A u \in Task \ {t} : pc'[u] = pc[u] /\ op'[u] = op[u] /\ result'[u] = result[u]
  PROVE  /\ (\A u \in Task : TaskInv(u))'
         /\ (\A u, v \in Task : Drives(u) /\ Drives(v) => u = v)'
<1>1. \A u \in Task \ {t} : TaskInv(u) /\ ~Drives(u)
  BY DEF IInv
<1>2. \A u \in Task \ {t} : TaskInv(u)' /\ ~Drives(u)'
  BY <1>1, OthersKeep
<1> QED BY <1>2

(* A step that ends or stops a request that does not drive, or none, and   *)
(* changes nothing the driver depends on.                                  *)
LEMMA OtherStep ==
  ASSUME IInv, NEW T \in SUBSET Task,
         \A t \in T : ~Drives(t)' /\ TaskInv(t)',
         \A u \in Task \ T : pc'[u] = pc[u] /\ op'[u] = op[u] /\ result'[u] = result[u],
         \/ \A u \in Task : ~Drives(u)
         \/ row' = row /\ clicked' = clicked /\ (registered => registered' \/ stopped') /\ (stopped => stopped')
  PROVE  /\ (\A u \in Task : TaskInv(u))'
         /\ (\A u, v \in Task : Drives(u) /\ Drives(v) => u = v)'
<1>1. ASSUME NEW u \in Task \ T PROVE TaskInv(u)' /\ (Drives(u)' => Drives(u))
  <2>1. TaskInv(u)
    BY DEF IInv
  <2>2. Drives(u)' <=> Drives(u)
    BY DEF Drives
  <2> QED BY <2>1, <2>2 DEF TaskInv
<1> QED BY <1>1 DEF IInv

(* Only the driver is between its call and the end of its session.         *)
LEMMA AtWork ==
  ASSUME IInv, NEW t \in Task, pc[t] \notin {"idle", "closing", "record"}
  PROVE  Drives(t) /\ row.state = "executing" /\ op[t] \notin {"none", "cancel"}
BY DEF IInv, TypeOK, TaskInv, Drives

(* The driver goes on in the session.                                      *)
LEMMA MoveStep ==
  ASSUME IInv, TypeOK', NEW t \in Task, NEW l \in InSession \cup {"launching"},
         pc[t] \notin {"idle", "closing", "record"}, Goto(t, l),
         UNCHANGED <<row, op, result, clicked, stopped, clicks, admitted, navigations>>,
         registered => registered',
         l \in BeforeClick => ~clicked,
         l \in InSession => registered' \/ stopped,
         context' \in {"open", "guarded"} => registered' \/ context \in {"open", "guarded"}
  PROVE  IInv'
<1>1. Drives(t) /\ row.state = "executing" /\ op[t] \notin {"none", "cancel"}
  BY AtWork
<1>2. pc'[t] = l /\ l \notin {"idle", "closing", "record"} /\ \A u \in Task \ {t} : pc'[u] = pc[u]
  BY DEF Goto, IInv, TypeOK, InSession, PC
<1>3. TaskInv(t)'
  BY <1>1, <1>2 DEF TaskInv, Drives
<1>4. /\ (\A u \in Task : TaskInv(u))'
      /\ (\A u, v \in Task : Drives(u) /\ Drives(v) => u = v)'
  BY <1>1, <1>2, <1>3, DriverStep
<1>5. PausedIsReachable'
  BY <1>1 DEF PausedIsReachable
<1>6. BrowserIsOwned'
  BY <1>2 DEF IInv, BrowserIsOwned
<1> QED BY <1>4, <1>5, <1>6 DEF IInv

(* _needs_user leaves a session that can be reached.                       *)
LEMMA PauseStep ==
  ASSUME IInv, TypeOK', NEW t \in Task, pc[t] \in InSession, Pause(t)
  PROVE  IInv'
<1>1. Drives(t) /\ row.state = "executing" /\ op[t] \notin {"none", "cancel"}
  BY AtWork DEF InSession
<1>2. /\ pc'[t] = "record" /\ result'[t] = Res("needs_user", TRUE)
      /\ \A u \in Task \ {t} : pc'[u] = pc[u] /\ result'[u] = result[u]
  BY DEF Pause, Return, Goto, IInv, TypeOK
<1>3. UNCHANGED <<row, op, registered, clicked, stopped, clicks, admitted, navigations, context>>
  BY DEF Pause, bounds
<1>4. registered \/ stopped
  BY <1>1 DEF IInv, TaskInv
<1>5. TaskInv(t)'
  <2>1. result'[t] \in Result /\ result'[t].state = "needs_user" /\ result'[t].ext
    BY <1>2 DEF Res, Result, ActionState
  <2> QED BY <1>1, <1>2, <1>3, <1>4, <2>1 DEF TaskInv, Drives, BeforeClick, InSession
<1>6. /\ (\A u \in Task : TaskInv(u))'
      /\ (\A u, v \in Task : Drives(u) /\ Drives(v) => u = v)'
  BY <1>1, <1>2, <1>3, <1>5, DriverStep
<1>7. PausedIsReachable'
  BY <1>1, <1>3 DEF PausedIsReachable
<1>8. BrowserIsOwned'
  BY <1>2, <1>3 DEF IInv, BrowserIsOwned, InSession
<1> QED BY <1>3, <1>6, <1>7, <1>8 DEF IInv

(* _finish: the registry has given the session up, the driver closes it.   *)
LEMMA FinishStep ==
  ASSUME IInv, TypeOK', NEW t \in Task, pc[t] \in InSession,
         NEW s \in ActionState \ {"needs_user"}, Finish(t, s)
  PROVE  IInv'
<1>1. Drives(t) /\ row.state = "executing" /\ op[t] \notin {"none", "cancel"}
  BY AtWork DEF InSession
<1>2. /\ pc'[t] = "closing" /\ result'[t] = Res(s, FALSE)
      /\ \A u \in Task \ {t} : pc'[u] = pc[u] /\ result'[u] = result[u]
  BY DEF Finish, Return, Goto, IInv, TypeOK
<1>3. UNCHANGED <<row, op, clicked, stopped, clicks, admitted, navigations, context>>
  BY DEF Finish, history
<1>4. TaskInv(t)'
  <2>1. result'[t] \in Result /\ result'[t].state # "needs_user"
    BY <1>2 DEF Res, Result
  <2> QED BY <1>1, <1>2, <1>3, <2>1 DEF TaskInv, Drives, BeforeClick, InSession
<1>5. /\ (\A u \in Task : TaskInv(u))'
      /\ (\A u, v \in Task : Drives(u) /\ Drives(v) => u = v)'
  BY <1>1, <1>2, <1>3, <1>4, DriverStep
<1>6. PausedIsReachable'
  BY <1>1, <1>3 DEF PausedIsReachable
<1>7. BrowserIsOwned'
  BY <1>2 DEF BrowserIsOwned
<1> QED BY <1>3, <1>5, <1>6, <1>7 DEF IInv

(* execute, up to the first look at the page.                              *)
LEMMA ExecuteInv ==
  ASSUME IInv, TypeOK', NEW t \in Task, ExecuteStep(t)
  PROVE  IInv'
<1>1. CASE Unavailable(t)
  <2>1. pc[t] \in {"call", "launching"}
    BY <1>1 DEF Unavailable, At
  <2>2. Drives(t) /\ row.state = "executing" /\ op[t] \notin {"none", "cancel"}
    BY <2>1, AtWork
  <2>3. /\ pc'[t] = "record" /\ result'[t] = Res("failed", FALSE)
        /\ \A u \in Task \ {t} : pc'[u] = pc[u] /\ result'[u] = result[u]
    BY <1>1 DEF Unavailable, Return, Goto, IInv, TypeOK
  <2>4. UNCHANGED <<row, op, registered, clicked, stopped, clicks, admitted, navigations, context>>
    BY <1>1 DEF Unavailable, sessionVars, history
  <2>5. TaskInv(t)'
    <3>1. result'[t] \in Result /\ result'[t].state = "failed"
      BY <2>3 DEF Res, Result, ActionState
    <3> QED BY <2>2, <2>3, <2>4, <3>1 DEF TaskInv, Drives, BeforeClick, InSession
  <2>6. /\ (\A u \in Task : TaskInv(u))'
        /\ (\A u, v \in Task : Drives(u) /\ Drives(v) => u = v)'
    BY <2>2, <2>3, <2>4, <2>5, DriverStep
  <2>7. PausedIsReachable' /\ BrowserIsOwned'
    BY <2>1, <2>2, <2>3, <2>4 DEF IInv, PausedIsReachable, BrowserIsOwned
  <2> QED BY <2>4, <2>6, <2>7 DEF IInv
<1>2. CASE Revalidate(t)
  <2>1. ~clicked
    BY <1>2, AtWork DEF Revalidate, At, IInv, TaskInv, BeforeClick
  <2> QED BY <1>2, <2>1, MoveStep DEF Revalidate, At, sessionVars, history, InSession, PC
<1>3. CASE Launch(t)
  <2>1. ~clicked
    BY <1>3, AtWork DEF Launch, At, IInv, TaskInv, BeforeClick
  <2>2. "guarding" \in InSession
    BY DEF InSession, PC
  <2> QED BY <1>3, <2>1, <2>2, MoveStep DEF Launch, At, history
<1>4. CASE InstallGuards(t)
  <2>1. ~clicked /\ (registered \/ stopped)
    BY <1>4, AtWork DEF InstallGuards, At, IInv, TaskInv, BeforeClick, InSession, PC
  <2>2. "goto" \in InSession
    BY DEF InSession, PC
  <2>3. pc[t] = "guarding" /\ registered' = registered /\ context = "open"
    BY <1>4 DEF InstallGuards, At
  <2> QED BY <1>4, <2>1, <2>2, <2>3, MoveStep DEF InstallGuards, history
<1>5. CASE PageOpened(t)
  <2>1. ~clicked /\ (registered \/ stopped)
    BY <1>5, AtWork DEF PageOpened, At, IInv, TaskInv, BeforeClick, InSession, PC
  <2>2. "advance" \in InSession
    BY DEF InSession, PC
  <2> QED BY <1>5, <2>1, <2>2, MoveStep DEF PageOpened, At, history
<1> QED BY <1>1, <1>2, <1>3, <1>4, <1>5 DEF ExecuteStep

(* _advance: before the click nobody has clicked; the click counts it.     *)
LEMMA AdvanceInv ==
  ASSUME IInv, TypeOK', NEW t \in Task, AdvanceStep(t)
  PROVE  IInv'
<1> USE DEF At
<1>1. CASE AdvanceBlocked(t) \/ LookPauses(t) \/ ClickUncertain(t) \/ ClickBlocked(t)
  BY <1>1, PauseStep DEF AdvanceBlocked, LookPauses, ClickUncertain, ClickBlocked, InSession, PC
<1>2. CASE AlreadyAccepted(t)
  BY <1>2, FinishStep DEF AlreadyAccepted, InSession, PC, ActionState
<1>3. CASE Evaluated(t)
  <2>1. PICK s \in Outcome(TRUE) : Finish(t, s)
    BY <1>3 DEF Evaluated
  <2>2. pc[t] \in InSession /\ s \in ActionState \ {"needs_user"}
    BY <1>3 DEF Evaluated, InSession, PC, Outcome, ActionState
  <2> QED BY <2>1, <2>2, FinishStep
<1>4. CASE LookOn(t)
  <2>1. NextLook[pc[t]] \in InSession /\ pc[t] \in {"reading", "fields", "controls"}
    BY <1>4 DEF LookOn, NextLook, InSession, PC
  <2>2. ~clicked /\ (registered \/ stopped)
    BY <2>1, AtWork DEF IInv, TaskInv, BeforeClick, InSession, PC
  <2> QED BY <1>4, <2>1, <2>2, MoveStep DEF LookOn, sessionVars, history
<1>5. CASE Advance(t)
  <2>1. ~clicked /\ (registered \/ stopped) /\ "reading" \in InSession
    BY <1>5, AtWork DEF Advance, IInv, TaskInv, BeforeClick, InSession, PC
  <2> QED BY <1>5, <2>1, MoveStep DEF Advance, sessionVars, history
<1>6. CASE ClickReturns(t) \/ ReadOutcome(t)
  <2>1. PICK l \in {"clicked", "evaluating"} : Goto(t, l)
    BY <1>6 DEF ClickReturns, ReadOutcome
  <2>2. l \in InSession /\ l \notin BeforeClick /\ pc[t] \in {"clicking", "clicked"}
    BY <1>6 DEF ClickReturns, ReadOutcome, InSession, BeforeClick, PC
  <2>3. registered \/ stopped
    BY <2>2, AtWork DEF IInv, TaskInv, InSession, PC
  <2> QED BY <1>6, <2>1, <2>2, <2>3, MoveStep DEF ClickReturns, ReadOutcome, sessionVars, history
<1>7. CASE Click(t)
  <2>1. Drives(t) /\ row.state = "executing" /\ op[t] \notin {"none", "cancel"}
    BY <1>7, AtWork DEF Click
  <2>2. ~clicked /\ (registered \/ stopped)
    BY <1>7, <2>1 DEF Click, IInv, TaskInv, BeforeClick, InSession, PC
  <2>3. pc'[t] = "clicking" /\ \A u \in Task \ {t} : pc'[u] = pc[u]
    BY <1>7 DEF Click, Goto, IInv, TypeOK
  <2>4. /\ UNCHANGED <<row, op, result, registered, stopped, admitted, navigations, context>>
        /\ clicked' = TRUE /\ clicks' = clicks + 1
    BY <1>7 DEF Click
  <2>5. TaskInv(t)'
    BY <2>1, <2>2, <2>3, <2>4 DEF TaskInv, Drives, BeforeClick, InSession
  <2>6. /\ (\A u \in Task : TaskInv(u))'
        /\ (\A u, v \in Task : Drives(u) /\ Drives(v) => u = v)'
    BY <2>1, <2>3, <2>4, <2>5, DriverStep
  <2>7. PausedIsReachable' /\ BrowserIsOwned'
    BY <1>7, <2>1, <2>3, <2>4 DEF Click, IInv, PausedIsReachable, BrowserIsOwned
  <2>8. clicks' = IF clicked' THEN 1 ELSE 0
    BY <2>2, <2>4 DEF IInv
  <2> QED BY <2>4, <2>6, <2>7, <2>8 DEF IInv
<1> QED BY <1>1, <1>2, <1>3, <1>4, <1>5, <1>6, <1>7 DEF AdvanceStep

(* The end of a request, with or without a record.  A driver records while *)
(* the row is executing and no other drives; a cancel records only when    *)
(* nobody does.                                                            *)
LEMMA LeaveStep ==
  ASSUME IInv, TypeOK', NEW t \in Task, Record(t) \/ Raise(t) \/ CloseRaises(t)
  PROVE  IInv'
<1>1. /\ pc'[t] = "idle" /\ op'[t] = "none"
      /\ \A u \in Task \ {t} : pc'[u] = pc[u] /\ op'[u] = op[u] /\ result'[u] = result[u]
  BY DEF Record, Raise, CloseRaises, Leave, Goto, IInv, TypeOK
<1>2. UNCHANGED <<registered, clicked, stopped, clicks, admitted, navigations>>
  BY DEF Record, Raise, CloseRaises, sessionVars, history
<1>3. ~Drives(t)' /\ TaskInv(t)'
  BY <1>1 DEF TaskInv, Drives, BeforeClick, InSession
<1>4. /\ row' # row => row' = result[t] /\ pc[t] = "record" /\ result[t].state \in Allowed[row.state]
      /\ context' = context \/ context' = "closed"
      /\ pc[t] = "closing" => context' = "closed"
  BY DEF Record, Raise, CloseRaises, At, sessionVars
<1>5. TaskInv(t) /\ TypeOK
  BY DEF IInv
<1>6. row' = row \/ \A u \in Task \ {t} : ~Drives(u)
  <2>1. SUFFICES ASSUME row' # row, NEW u \in Task \ {t}, Drives(u) PROVE FALSE
    OBVIOUS
  <2>2. row.state = "executing" /\ result[t].state \in {"confirmed", "submitted", "needs_user", "failed"}
    BY <1>4, <2>1 DEF IInv, TaskInv, Allowed
  <2>3. Drives(t)
    BY <1>4, <1>5, <2>1, <2>2 DEF TaskInv, Drives
  <2> QED BY <2>1, <2>3 DEF IInv
<1>7. /\ (\A u \in Task : TaskInv(u))'
      /\ (\A u, v \in Task : Drives(u) /\ Drives(v) => u = v)'
  <2>1. ASSUME NEW u \in Task \ {t} PROVE TaskInv(u)' /\ (Drives(u)' => Drives(u))
    <3>1. TaskInv(u) /\ (Drives(u)' <=> Drives(u))
      BY <1>1 DEF IInv, Drives
    <3>2. CASE row' = row
      BY <1>1, <1>2, <3>1, <3>2 DEF TaskInv
    <3>3. CASE ~Drives(u)
      BY <1>1, <3>1, <3>3, OthersKeep
    <3> QED BY <1>6, <3>2, <3>3
  <2> QED BY <1>3, <2>1 DEF IInv
<1>8. PausedIsReachable'
  <2>1. CASE row' = row
    BY <1>2, <2>1 DEF IInv, PausedIsReachable
  <2>2. CASE row' # row /\ row'.state = "needs_user"
    <3>1. Drives(t)
      BY <1>4, <1>5, <2>2 DEF TaskInv, Drives
    <3> QED BY <1>2, <1>4, <1>5, <2>2, <3>1 DEF TaskInv, PausedIsReachable
  <2> QED BY <2>1, <2>2 DEF PausedIsReachable
<1>9. BrowserIsOwned'
  BY <1>1, <1>2, <1>4 DEF IInv, BrowserIsOwned
<1> QED BY <1>2, <1>7, <1>8, <1>9 DEF IInv

(* resume and cancel: the row, not a lock, keeps two drivers apart.        *)
LEMMA ServiceInv ==
  ASSUME IInv, TypeOK', NEW t \in Task, ServiceStep(t)
  PROVE  IInv'
<1> USE DEF At
<1>1. CASE Resume(t)
  <2>1. row.state # "executing" /\ row' = [state |-> "executing", ext |-> FALSE] /\ registered
    BY <1>1 DEF Resume, Allowed, Reachable, IInv, TypeOK, Result, ActionState
  <2>2. \A u \in Task : ~Drives(u)
    BY <2>1 DEF IInv, TaskInv
  <2>3. /\ pc'[t] = "resuming" /\ op'[t] = "resume"
        /\ \A u \in Task \ {t} : pc'[u] = pc[u] /\ op'[u] = op[u]
    BY <1>1 DEF Resume, Goto, IInv, TypeOK
  <2>4. UNCHANGED <<result, registered, clicked, stopped, clicks, admitted, navigations, context>>
    BY <1>1 DEF Resume, sessionVars, history
  <2>5. \A u \in Task \ {t} : TaskInv(u)' /\ ~Drives(u)'
    <3>1. \A u \in Task \ {t} : TaskInv(u) /\ ~Drives(u) /\ result'[u] = result[u]
      BY <2>2, <2>4 DEF IInv
    <3> QED BY <2>3, <3>1, OthersKeep
  <2>6. TaskInv(t)'
    BY <2>1, <2>3, <2>4 DEF TaskInv, Drives, BeforeClick
  <2>7. PausedIsReachable' /\ BrowserIsOwned'
    BY <2>1, <2>4 DEF PausedIsReachable, BrowserIsOwned
  <2> QED BY <2>4, <2>5, <2>6, <2>7 DEF IInv
<1>2. CASE ResumeClosed(t)
  BY <1>2, PauseStep DEF ResumeClosed, InSession, PC
<1>3. CASE ResumeOpen(t)
  <2>1. PICK l \in {"resumed", "advance"} : Goto(t, l) /\ (l = "advance" => ~clicked)
    BY <1>3 DEF ResumeOpen
  <2>2. l \in InSession /\ (l \in BeforeClick => ~clicked) /\ pc[t] = "resuming"
    BY <1>3, <2>1 DEF ResumeOpen, InSession, BeforeClick, PC
  <2>3. registered \/ stopped
    BY <2>2, AtWork DEF IInv, TaskInv, InSession, PC
  <2> QED BY <1>3, <2>1, <2>2, <2>3, MoveStep DEF ResumeOpen, history
<1>4. CASE ResumeUnresolved(t)
  BY <1>4, PauseStep DEF ResumeUnresolved, InSession, PC
<1>5. CASE ResumeResolved(t)
  <2>1. PICK s \in Outcome(clicked) \ {"needs_user"} : Finish(t, s)
    BY <1>5 DEF ResumeResolved
  <2>2. pc[t] \in InSession /\ s \in ActionState \ {"needs_user"}
    BY <1>5 DEF ResumeResolved, InSession, PC, Outcome, ActionState
  <2> QED BY <2>1, <2>2, FinishStep
<1>6. CASE Cancel(t)
  <2>1. /\ pc'[t] = "closing" /\ op'[t] = "cancel" /\ result'[t] = Res("reviewed", FALSE) /\ stopped' = TRUE
        /\ \A u \in Task \ {t} : pc'[u] = pc[u] /\ op'[u] = op[u] /\ result'[u] = result[u]
    BY <1>6 DEF Cancel, Return, Goto, IInv, TypeOK
  <2>2. UNCHANGED <<row, clicked, clicks, admitted, navigations, context>>
    BY <1>6 DEF Cancel
  <2>3. ~Drives(t)' /\ TaskInv(t)'
    <3>1. result'[t] \in Result /\ result'[t].state = "reviewed"
      BY <2>1 DEF Res, Result, ActionState
    <3> QED BY <2>1, <2>2, <3>1 DEF TaskInv, Drives, BeforeClick, InSession
  <2>4. /\ (\A u \in Task : TaskInv(u))'
        /\ (\A u, v \in Task : Drives(u) /\ Drives(v) => u = v)'
    <3> DEFINE T == {t}
    <3>1. \A u \in T : ~Drives(u)' /\ TaskInv(u)'
      BY <2>3
    <3>2. T \in SUBSET Task /\ \A u \in Task \ T : pc'[u] = pc[u] /\ op'[u] = op[u] /\ result'[u] = result[u]
      BY <2>1
    <3> HIDE DEF T
    <3> QED BY <2>1, <2>2, <3>1, <3>2, OtherStep
  <2>5. PausedIsReachable' /\ BrowserIsOwned'
    BY <2>1, <2>2 DEF IInv, PausedIsReachable, BrowserIsOwned
  <2> QED BY <2>2, <2>4, <2>5 DEF IInv
<1>7. CASE Closed(t)
  <2>1. /\ pc[t] = "closing" /\ pc'[t] = "record"
        /\ \A u \in Task \ {t} : pc'[u] = pc[u]
    BY <1>7 DEF Closed, Goto, IInv, TypeOK
  <2>2. /\ context' = "closed"
        /\ UNCHANGED <<row, op, result, registered, clicked, stopped, clicks, admitted, navigations>>
    BY <1>7 DEF Closed, history
  <2>3. TaskInv(t)'
    BY <2>1, <2>2 DEF IInv, TaskInv, Drives, BeforeClick, InSession
  <2>4. \A u \in Task \ {t} : TaskInv(u)'
    <3>1. ASSUME NEW u \in Task \ {t} PROVE TaskInv(u)'
      <4>1. TaskInv(u) /\ pc'[u] = pc[u]
        BY <2>1 DEF IInv
      <4> QED BY <2>2, <4>1 DEF TaskInv, Drives
    <3> QED BY <3>1
  <2>5. (\A u, v \in Task : Drives(u) /\ Drives(v) => u = v)'
    BY <2>1, <2>2 DEF IInv, Drives
  <2>6. PausedIsReachable' /\ BrowserIsOwned'
    BY <2>2 DEF IInv, PausedIsReachable, BrowserIsOwned
  <2> QED BY <2>2, <2>3, <2>4, <2>5, <2>6 DEF IInv
<1>8. CASE Record(t) \/ Raise(t) \/ CloseRaises(t)
  BY <1>8, LeaveStep
<1> QED BY <1>1, <1>2, <1>3, <1>4, <1>5, <1>6, <1>7, <1>8 DEF ServiceStep

(* Callbacks and takeovers touch neither the row nor the requests.         *)
LEMMA PageInv ==
  ASSUME IInv, TypeOK', TakeOver \/ PageStep
  PROVE  IInv'
<1>1. UNCHANGED <<row, pc, op, result, registered, context, clicked, clicks, stopped>>
  BY DEF TakeOver, PageStep, Navigate, RouteRefused, RouteLimited, RouteCounted,
         RouteAfterClick, Block, CloseWindow, history
<1>2. \A t \in Task : TaskInv(t)'
  BY <1>1 DEF IInv, TaskInv, Drives
<1>3. (\A t, u \in Task : Drives(t) /\ Drives(u) => t = u)'
  BY <1>1 DEF IInv, Drives
<1>4. PausedIsReachable' /\ BrowserIsOwned'
  BY <1>1 DEF IInv, PausedIsReachable, BrowserIsOwned
<1>5. admitted' <= navigations' /\ admitted' <= 2
  <2>1. admitted \in Nat /\ navigations \in Nat /\ admitted <= navigations /\ admitted <= 2
    BY DEF IInv, TypeOK
  <2>2. \/ admitted' = admitted /\ navigations' = navigations
        \/ admitted' = admitted /\ navigations' = navigations + 1
        \/ admitted' = admitted + 1 /\ navigations' = navigations + 1 /\ navigations < 2
    BY DEF TakeOver, PageStep, Navigate, RouteRefused, RouteLimited, RouteCounted,
           RouteAfterClick, Block, CloseWindow, history
  <2> QED BY <2>1, <2>2
<1> QED BY <1>1, <1>2, <1>3, <1>4, <1>5 DEF IInv

(* The invariant is inductive.                                             *)
LEMMA StepInv == IInv /\ [Next]_vars => IInv'
<1> SUFFICES ASSUME IInv, [Next]_vars PROVE IInv'
  OBVIOUS
<1>1. TypeOK'
  BY TypeStep DEF IInv
<1>2. CASE UNCHANGED vars
  BY <1>2 DEF vars, sessionVars, history, bounds, IInv, TypeOK, TaskInv, Drives,
              PausedIsReachable, BrowserIsOwned
<1>3. CASE Next
  BY <1>1, <1>3, ExecuteInv, AdvanceInv, ServiceInv, PageInv DEF Next
<1> QED BY <1>2, <1>3

(* The invariant of browser sessions holds in every reachable state, with  *)
(* any number of requests, resumes and navigations.                        *)
LEMMA Invariance == Spec => []IInv
<1>1. Init => IInv
  BY InitInv
<1>2. IInv /\ [Next]_vars => IInv'
  BY StepInv
<1> QED BY <1>1, <1>2, PTL DEF Spec

(* At most two navigations before the final click (route_request).         *)
THEOREM NavigationLimit == Spec => []TwoNavigations
<1>1. IInv => TwoNavigations
  BY DEF IInv, TwoNavigations
<1> QED BY <1>1, Invariance, PTL

(* The final control is clicked once at most (_advance, resume).           *)
THEOREM ClickedOnce == Spec => []OneClick
<1>1. IInv => OneClick
  BY DEF IInv, OneClick
<1> QED BY <1>1, Invariance, PTL

(* A paused action has a session the user can reach (_needs_user, cancel). *)
THEOREM PausedReachable == Spec => []PausedIsReachable
<1>1. IInv => PausedIsReachable
  BY DEF IInv
<1> QED BY <1>1, Invariance, PTL

(* No browser process is lost from sight (_launch, _close).                *)
THEOREM BrowserOwned == Spec => []BrowserIsOwned
<1>1. IInv => BrowserIsOwned
  BY DEF IInv
<1> QED BY <1>1, Invariance, PTL

-----------------------------------------------------------------------------
(* What the steps of Execution rely on besides (CoarseInv).                *)

(* The session opens with one driver and nothing counted.                  *)
LEMMA CoarseInit == Init => CoarseInv
<1> SUFFICES ASSUME Init PROVE CoarseInv
  OBVIOUS
<1>1. ~Stopping /\ (Driven => One(Driven) = 1) /\ (~Driven => One(Driven) = 0)
  BY DEF Init, Stopping, One
<1>2. One(Stopping) = 0 /\ One(Driven) \in {0, 1} /\ One(stopped) = 0
  BY <1>1 DEF Init, One
<1>3. faults + One(Driven) + One(Stopping) <= 1 + resumes + One(stopped)
  BY <1>2 DEF Init
<1> QED BY <1>3 DEF Init, CoarseInv

(* Nobody calls execute but the driver.                                    *)
LEMMA CallerDrives ==
  ASSUME IInv, NEW t \in Task, pc[t] \in {"call", "launching"}
  PROVE  Drives(t)
BY AtWork

(* A request that moves on, neither starting nor ending, changes none of   *)
(* the counts.                                                             *)
LEMMA CountStays ==
  ASSUME TypeOK, NEW t \in Task, NEW l \in PC \ {"idle"}, pc[t] # "idle", Goto(t, l),
         UNCHANGED <<op, stopped, resumes, faults>>, CoarseInv
  PROVE  /\ (faults + One(Driven) + One(Stopping) <= 1 + resumes + One(stopped))'
         /\ resumes' <= MaxResumes
         /\ (\A u, v \in Task : op[u] = "cancel" /\ op[v] = "cancel" => u = v)'
         /\ (\A u \in Task : op[u] = "cancel" => stopped)'
<1>1. \A u \in Task : Drives(u)' <=> Drives(u)
  BY DEF Goto, TypeOK, Drives
<1>2. (Driven' <=> Driven) /\ (Stopping' <=> Stopping)
  BY <1>1 DEF Driven, Stopping
<1>3. One(Driven)' = One(Driven) /\ One(Stopping)' = One(Stopping) /\ One(stopped)' = One(stopped)
  BY <1>2 DEF One
<1> QED BY <1>3 DEF CoarseInv

(* A step of the session's driver that neither registers nor shows it.     *)
LEMMA CoarseMove ==
  ASSUME SessionInv, NEW t \in Task, NEW l \in PC \ {"idle"}, pc[t] # "idle", Goto(t, l),
         UNCHANGED <<op, stopped, resumes, faults, shown>>,
         registered' => registered, clicked => clicked',
         l \in {"clicking", "clicked", "evaluating"} => clicked',
         l \in {"call", "launching"} => pc[t] \in {"call", "launching"}
  PROVE  CoarseInv'
<1>1. IInv /\ TypeOK /\ CoarseInv
  BY DEF SessionInv, IInv
<1>2. \A u \in Task : pc'[u] = IF u = t THEN l ELSE pc[u]
  BY <1>1 DEF Goto, TypeOK
<1>3. (\A u \in Task : pc[u] \in {"clicking", "clicked", "evaluating"} => clicked)'
  BY <1>1, <1>2 DEF CoarseInv
<1>4. (\A u \in Task : pc[u] \in {"call", "launching"} => ~registered /\ ~shown /\ ~stopped)'
  BY <1>1, <1>2 DEF CoarseInv
<1>5. registered' => ~stopped'
  BY <1>1 DEF CoarseInv
<1> QED BY <1>1, <1>3, <1>4, <1>5, CountStays DEF CoarseInv

(* _launch registers the session of an action that has none.               *)
LEMMA CoarseLaunch ==
  ASSUME SessionInv, NEW t \in Task, Launch(t)
  PROVE  CoarseInv'
<1>1. IInv /\ TypeOK /\ CoarseInv /\ pc[t] = "launching"
  BY DEF SessionInv, IInv, Launch, At
<1>2. /\ Goto(t, "guarding") /\ UNCHANGED <<op, stopped, resumes, faults, shown, clicked>>
      /\ \A u \in Task : pc'[u] = IF u = t THEN "guarding" ELSE pc[u]
  BY <1>1 DEF Launch, Goto, TypeOK, history, bounds
<1>3. \A u \in Task \ {t} : pc[u] \notin {"call", "launching"}
  BY <1>1, CallerDrives DEF IInv
<1>4. (\A u \in Task : pc[u] \in {"clicking", "clicked", "evaluating"} => clicked)'
  BY <1>1, <1>2 DEF CoarseInv
<1>5. (\A u \in Task : pc[u] \in {"call", "launching"} => ~registered /\ ~shown /\ ~stopped)'
  BY <1>2, <1>3
<1>6. ~stopped'
  BY <1>1, <1>2 DEF CoarseInv
<1>7. "guarding" \in PC \ {"idle"}
  BY DEF PC
<1> QED BY <1>1, <1>2, <1>4, <1>5, <1>6, <1>7, CountStays DEF CoarseInv

(* The end of a request takes it from the counts, and raises once at most. *)
LEMMA CoarseLeave ==
  ASSUME SessionInv, NEW t \in Task, Record(t) \/ Raise(t) \/ CloseRaises(t)
  PROVE  CoarseInv'
<1>1. IInv /\ TypeOK /\ CoarseInv /\ TaskInv(t) /\ pc[t] # "idle"
  BY DEF SessionInv, IInv, Record, Raise, CloseRaises, At
<1>2. /\ pc'[t] = "idle" /\ op'[t] = "none"
      /\ \A u \in Task \ {t} : pc'[u] = pc[u] /\ op'[u] = op[u]
      /\ UNCHANGED <<registered, clicked, stopped, resumes>>
  BY <1>1 DEF Record, Raise, CloseRaises, Leave, Goto, TypeOK, sessionVars, history, bounds
<1>3. faults' \in {faults, faults + 1}
  BY DEF Record, Raise, CloseRaises, bounds
<1>4. shown' = shown \/ \A u \in Task \ {t} : ~Drives(u)
  <2>1. SUFFICES ASSUME shown' # shown, NEW u \in Task \ {t}, Drives(u) PROVE FALSE
    OBVIOUS
  <2>2. pc[t] = "record" /\ result[t].state \in Allowed[row.state]
    BY <2>1 DEF Record, Raise, CloseRaises, At, sessionVars
  <2>3. row.state = "executing" /\ result[t].state # "reviewed"
    BY <1>1, <2>1, <2>2 DEF IInv, TaskInv, Allowed
  <2>4. Drives(t)
    BY <1>1, <2>2, <2>3 DEF TaskInv, Drives
  <2> QED BY <1>1, <2>1, <2>4 DEF IInv
<1>5. (\A u \in Task : pc[u] \in {"call", "launching"} => ~registered /\ ~shown /\ ~stopped)'
  <2>1. SUFFICES ASSUME NEW u \in Task, pc'[u] \in {"call", "launching"}
                 PROVE  ~registered' /\ ~shown' /\ ~stopped'
    OBVIOUS
  <2>2. u # t /\ pc[u] \in {"call", "launching"}
    BY <1>2, <2>1
  <2>3. Drives(u) /\ ~registered /\ ~shown /\ ~stopped
    BY <1>1, <2>2, CallerDrives DEF CoarseInv
  <2> QED BY <1>2, <1>4, <2>2, <2>3
<1>6. (\A u \in Task : pc[u] \in {"clicking", "clicked", "evaluating"} => clicked)'
  BY <1>1, <1>2 DEF CoarseInv
<1>7. /\ (\A u, v \in Task : op[u] = "cancel" /\ op[v] = "cancel" => u = v)'
      /\ (\A u \in Task : op[u] = "cancel" => stopped)'
  BY <1>1, <1>2 DEF CoarseInv
<1>8. One(Driven)' + One(Stopping)' + 1 <= One(Driven) + One(Stopping)
  <2>1. \A u \in Task : (Drives(u)' => u # t /\ Drives(u)) /\ (op'[u] = "cancel" => u # t /\ op[u] = "cancel")
    BY <1>2 DEF Drives
  <2>2. CASE op[t] = "cancel"
    <3>1. Stopping /\ ~Stopping' /\ (Driven' => Driven)
      BY <1>1, <2>1, <2>2 DEF Stopping, Driven, CoarseInv
    <3> QED BY <3>1 DEF One
  <2>3. CASE Drives(t)
    <3>1. Driven /\ ~Driven' /\ (Stopping' => Stopping)
      BY <1>1, <2>1, <2>3 DEF Stopping, Driven, IInv
    <3> QED BY <3>1 DEF One
  <2> QED BY <1>1, <2>2, <2>3 DEF Drives
<1>9. (faults + One(Driven) + One(Stopping) <= 1 + resumes + One(stopped))'
  <2>1. /\ faults \in Nat /\ resumes \in Nat /\ resumes' = resumes /\ One(stopped)' = One(stopped)
        /\ faults + One(Driven) + One(Stopping) <= 1 + resumes + One(stopped)
    BY <1>1, <1>2 DEF TypeOK, CoarseInv, One
  <2>2. /\ One(Driven) \in {0, 1} /\ One(Stopping) \in {0, 1} /\ One(stopped) \in {0, 1}
        /\ One(Driven)' \in {0, 1} /\ One(Stopping)' \in {0, 1}
    BY DEF One
  <2> QED BY <1>3, <1>8, <2>1, <2>2
<1> QED BY <1>1, <1>2, <1>5, <1>6, <1>7, <1>9 DEF CoarseInv

(* A resume starts only when nobody drives, and is counted.                *)
LEMMA CoarseResume ==
  ASSUME SessionInv, NEW t \in Task, Resume(t)
  PROVE  CoarseInv'
<1>1. IInv /\ TypeOK /\ CoarseInv /\ resumes < MaxResumes
  BY DEF SessionInv, IInv, Resume
<1>2. row.state # "executing"
  BY <1>1 DEF Resume, Allowed, TypeOK, Result, ActionState
<1>3. \A u \in Task : ~Drives(u)
  BY <1>1, <1>2 DEF IInv, TaskInv
<1>4. /\ \A u \in Task : pc'[u] = IF u = t THEN "resuming" ELSE pc[u]
      /\ \A u \in Task : op'[u] = IF u = t THEN "resume" ELSE op[u]
      /\ UNCHANGED <<registered, shown, clicked, stopped, faults>> /\ resumes' = resumes + 1
  BY <1>1 DEF Resume, Goto, TypeOK, sessionVars, history
<1>5. op[t] # "cancel"
  BY <1>1 DEF Resume, At, IInv, TaskInv
<1>6. ~Driven /\ (Stopping' <=> Stopping)
  BY <1>3, <1>4, <1>5 DEF Driven, Stopping
<1>7. (faults + One(Driven) + One(Stopping) <= 1 + resumes + One(stopped))'
  <2>1. One(Driven) = 0 /\ One(Driven)' \in {0, 1} /\ One(Stopping)' = One(Stopping) /\ One(stopped)' = One(stopped)
    BY <1>4, <1>6 DEF One
  <2>2. One(Stopping) \in {0, 1} /\ One(stopped) \in {0, 1} /\ faults \in Nat /\ resumes \in Nat
    BY <1>1 DEF One, TypeOK
  <2>3. faults + One(Driven) + One(Stopping) <= 1 + resumes + One(stopped)
    BY <1>1 DEF CoarseInv
  <2> QED BY <1>4, <2>1, <2>2, <2>3
<1>8. /\ (\A u \in Task : pc[u] \in {"clicking", "clicked", "evaluating"} => clicked)'
      /\ (\A u \in Task : pc[u] \in {"call", "launching"} => ~registered /\ ~shown /\ ~stopped)'
      /\ (\A u, v \in Task : op[u] = "cancel" /\ op[v] = "cancel" => u = v)'
      /\ (\A u \in Task : op[u] = "cancel" => stopped)'
  BY <1>1, <1>4 DEF CoarseInv
<1>9. resumes' <= MaxResumes /\ (registered' => ~stopped')
  BY <1>1, <1>4 DEF CoarseInv, TypeOK
<1> QED BY <1>7, <1>8, <1>9 DEF CoarseInv

(* A session in the registry has not been stopped before.                  *)
LEMMA CoarseCancel ==
  ASSUME SessionInv, NEW t \in Task, Cancel(t)
  PROVE  CoarseInv'
<1>1. IInv /\ TypeOK /\ CoarseInv /\ registered /\ shown /\ pc[t] = "idle"
  BY DEF SessionInv, IInv, Cancel, Reachable, At
<1>2. /\ \A u \in Task : pc'[u] = IF u = t THEN "closing" ELSE pc[u]
      /\ \A u \in Task : op'[u] = IF u = t THEN "cancel" ELSE op[u]
      /\ UNCHANGED <<shown, clicked, faults, resumes>> /\ ~registered' /\ stopped'
  BY <1>1 DEF Cancel, Return, Goto, TypeOK, bounds
<1>3. ~stopped /\ \A u \in Task : op[u] # "cancel"
  BY <1>1 DEF CoarseInv
<1>4. ~Stopping /\ (Driven' => Driven)
  BY <1>2, <1>3 DEF Stopping, Driven, Drives
<1>5. (faults + One(Driven) + One(Stopping) <= 1 + resumes + One(stopped))'
  <2>1. /\ One(stopped) = 0 /\ One(stopped)' = 1 /\ One(Stopping) = 0 /\ One(Stopping)' \in {0, 1}
        /\ One(Driven) \in {0, 1} /\ One(Driven)' \in {0, 1} /\ One(Driven)' <= One(Driven)
    BY <1>2, <1>3, <1>4 DEF One
  <2>2. faults \in Nat /\ resumes \in Nat
    BY <1>1 DEF TypeOK
  <2>3. faults + One(Driven) + One(Stopping) <= 1 + resumes + One(stopped)
    BY <1>1 DEF CoarseInv
  <2>4. faults' = faults /\ resumes' = resumes
    BY <1>2
  <2> QED BY <2>1, <2>2, <2>3, <2>4
<1>6. /\ (\A u \in Task : pc[u] \in {"clicking", "clicked", "evaluating"} => clicked)'
      /\ (\A u, v \in Task : op[u] = "cancel" /\ op[v] = "cancel" => u = v)'
      /\ (\A u \in Task : op[u] = "cancel" => stopped)'
  BY <1>1, <1>2, <1>3 DEF CoarseInv
<1>7. (\A u \in Task : pc[u] \in {"call", "launching"} => ~registered /\ ~shown /\ ~stopped)'
  BY <1>1, <1>2 DEF CoarseInv
<1> QED BY <1>1, <1>2, <1>5, <1>6, <1>7 DEF CoarseInv

(* Callbacks and takeovers change nothing CoarseInv speaks of.             *)
LEMMA CoarseFrame ==
  ASSUME CoarseInv, UNCHANGED <<pc, op, registered, shown, clicked, stopped, resumes, faults>>
  PROVE  CoarseInv'
<1>1. (Driven' <=> Driven) /\ (Stopping' <=> Stopping)
  BY DEF Driven, Stopping, Drives
<1>2. One(Driven)' = One(Driven) /\ One(Stopping)' = One(Stopping) /\ One(stopped)' = One(stopped)
  BY <1>1 DEF One
<1> QED BY <1>2 DEF CoarseInv

(* CoarseInv is preserved by every step.                                   *)
LEMMA CoarseStepInv == SessionInv /\ [Next]_vars => CoarseInv'
<1> SUFFICES ASSUME SessionInv, [Next]_vars PROVE CoarseInv'
  OBVIOUS
<1>0. IInv /\ CoarseInv
  BY DEF SessionInv
<1> USE DEF At, sessionVars, history, bounds
<1>1. ASSUME NEW t \in Task, pc[t] \in InSession, Pause(t) PROVE CoarseInv'
  BY <1>1, CoarseMove DEF Pause, Return, InSession, PC
<1>2. ASSUME NEW t \in Task, pc[t] \in InSession, NEW s, Finish(t, s) PROVE CoarseInv'
  BY <1>2, CoarseMove DEF Finish, Return, InSession, PC
<1>3. ASSUME NEW t \in Task, ExecuteStep(t) PROVE CoarseInv'
  <2>1. CASE Unavailable(t)
    BY <2>1, CoarseMove DEF Unavailable, Return, PC
  <2>2. CASE Revalidate(t)
    BY <2>2, CoarseMove DEF Revalidate, PC
  <2>3. CASE InstallGuards(t)
    BY <2>3, CoarseMove DEF InstallGuards, PC
  <2>4. CASE PageOpened(t)
    BY <2>4, CoarseMove DEF PageOpened, PC
  <2> QED BY <1>3, <2>1, <2>2, <2>3, <2>4, CoarseLaunch DEF ExecuteStep
<1>4. ASSUME NEW t \in Task, AdvanceStep(t) PROVE CoarseInv'
  <2>1. CASE AdvanceBlocked(t) \/ LookPauses(t) \/ ClickUncertain(t) \/ ClickBlocked(t)
    BY <1>1, <2>1 DEF AdvanceBlocked, LookPauses, ClickUncertain, ClickBlocked, InSession, PC
  <2>2. CASE AlreadyAccepted(t) \/ Evaluated(t)
    BY <1>2, <2>2 DEF AlreadyAccepted, Evaluated, InSession, PC
  <2>3. CASE Advance(t)
    BY <2>3, CoarseMove DEF Advance, PC
  <2>4. CASE LookOn(t)
    <3>1. NextLook[pc[t]] \in {"fields", "controls", "preflight"} /\ pc[t] # "idle"
      BY <2>4 DEF LookOn, NextLook
    <3> QED BY <2>4, <3>1, CoarseMove DEF LookOn, PC
  <2>5. CASE Click(t)
    BY <2>5, CoarseMove DEF Click, PC
  <2>6. CASE ClickReturns(t) \/ ReadOutcome(t)
    <3>1. clicked
      BY <1>0, <2>6 DEF ClickReturns, ReadOutcome, CoarseInv
    <3>2. PICK l \in {"clicked", "evaluating"} : Goto(t, l)
      BY <2>6 DEF ClickReturns, ReadOutcome
    <3>3. /\ pc[t] \in {"clicking", "clicked"}
          /\ UNCHANGED <<op, registered, shown, clicked, stopped, resumes, faults>>
      BY <2>6 DEF ClickReturns, ReadOutcome
    <3>4. l \in PC \ {"idle"} /\ pc[t] # "idle" /\ l \notin {"call", "launching"}
      BY <3>3 DEF PC
    <3> QED BY <3>1, <3>2, <3>3, <3>4, CoarseMove
  <2> QED BY <1>4, <2>1, <2>2, <2>3, <2>4, <2>5, <2>6 DEF AdvanceStep
<1>5. ASSUME NEW t \in Task, ServiceStep(t) PROVE CoarseInv'
  <2>1. CASE ResumeClosed(t) \/ ResumeUnresolved(t)
    BY <1>1, <2>1 DEF ResumeClosed, ResumeUnresolved, InSession, PC
  <2>2. CASE ResumeResolved(t)
    BY <1>2, <2>2 DEF ResumeResolved, InSession, PC
  <2>3. CASE ResumeOpen(t)
    BY <2>3, CoarseMove DEF ResumeOpen, PC
  <2>4. CASE Closed(t)
    BY <2>4, CoarseMove DEF Closed, PC
  <2> QED BY <1>5, <2>1, <2>2, <2>3, <2>4, CoarseResume, CoarseCancel, CoarseLeave DEF ServiceStep
<1>6. ASSUME TakeOver \/ PageStep PROVE CoarseInv'
  <2>1. UNCHANGED <<pc, op, registered, shown, clicked, stopped, resumes, faults>>
    BY <1>6 DEF TakeOver, PageStep, Navigate, RouteRefused, RouteLimited, RouteCounted,
                RouteAfterClick, Block, CloseWindow
  <2> QED BY <1>0, <2>1, CoarseFrame
<1>7. CASE UNCHANGED vars
  BY <1>0, <1>7, CoarseFrame DEF vars
<1> QED BY <1>3, <1>4, <1>5, <1>6, <1>7 DEF Next

(* Both parts of the invariant hold in every reachable state.              *)
THEOREM SessionInvariance == Spec => []SessionInv
<1>1. Init => SessionInv
  BY InitInv, CoarseInit DEF SessionInv
<1>2. SessionInv /\ [Next]_vars => SessionInv'
  BY StepInv, CoarseStepInv DEF SessionInv
<1> QED BY <1>1, <1>2, PTL DEF Spec

-----------------------------------------------------------------------------
(* Every step of the session is a step of Execution or none.               *)

(* The one action of the coarse view is a browser action.                  *)
LEMMA CoarseAction ==
  /\ TheAction \in E!Action /\ E!MethodOf(TheAction) = "browser"
  /\ \A a \in E!Action : a = TheAction
BY DEF TheAction, E!Action, E!MethodOf

(* What is suspended here is suspended there.                              *)
LEMMA CoarseLoop ==
  ASSUME TypeOK, NEW t \in Task, LoopFree(t)
  PROVE  E!LoopFree(t)
BY DEF TypeOK, LoopFree, Suspended, PC, CoarsePCs, CoarsePC, E!LoopFree, E!Suspended

(* The event loop is idle in both views at once.                           *)
LEMMA CoarseIdle ==
  ASSUME TypeOK, LoopIdle
  PROVE  E!LoopIdle
BY DEF TypeOK, LoopIdle, Suspended, PC, CoarsePCs, CoarsePC, E!LoopIdle, E!Suspended

(* A move of one task is a move of that task only: takeover and click,     *)
(* which the view of a resuming task depends on, find nobody resuming.     *)
LEMMA CoarseGoto ==
  ASSUME TypeOK, NEW t \in Task, NEW l \in PC, Goto(t, l), LoopFree(t), NEW k, CoarsePC(t)' = k
  PROVE  E!Goto(t, k)
<1>1. \A u \in Task \ {t} : pc'[u] = pc[u] /\ pc[u] # "resuming"
  BY DEF TypeOK, Goto, LoopFree, Suspended, PC
<1>2. \A u \in Task \ {t} : CoarsePC(u)' = CoarsePC(u)
  BY <1>1 DEF CoarsePC
<1> QED BY <1>2 DEF CoarsePCs, E!Goto

(* The action of a request that goes on, starts or ends.                   *)
LEMMA CoarseActs ==
  ASSUME TypeOK, NEW t \in Task, NEW l \in PC, Goto(t, l)
  PROVE  CoarseAct' = [CoarseAct EXCEPT ![t] = IF l = "idle" THEN None ELSE TheAction]
BY DEF TypeOK, Goto, CoarseAct

(* A task that goes on drives the action it drove before.                  *)
LEMMA CoarseActsStay ==
  ASSUME TypeOK, NEW t \in Task, NEW l \in PC, Goto(t, l), pc[t] # "idle", l # "idle"
  PROVE  CoarseAct' = CoarseAct
BY DEF TypeOK, Goto, CoarseAct

(* A result is never taken for none.                                       *)
LEMMA CoarseResults ==
  ASSUME TypeOK, NEW t \in Task, NEW r \in Result, result' = [result EXCEPT ![t] = r]
  PROVE  CoarseResult' = [CoarseResult EXCEPT ![t] = E!Res(r.state, "other", r.ext)]
BY ResultAssumption DEF TypeOK, CoarseResult, E!Res

(* An executor's return is that of Execution.                              *)
LEMMA CoarseReturn ==
  ASSUME TypeOK, NEW t \in Task, NEW s \in ActionState, NEW e \in BOOLEAN, NEW l \in {"closing", "record"},
         Return(t, Res(s, e), l), LoopFree(t), pc[t] # "idle", UNCHANGED op
  PROVE  E!Return(t, E!Res(s, "other", e), l)
<1>1. Res(s, e) \in Result /\ Res(s, e).state = s /\ Res(s, e).ext = e /\ l \in PC
  BY ResultType DEF Res, PC
<1>2. Goto(t, l) /\ result' = [result EXCEPT ![t] = Res(s, e)]
  BY DEF Return
<1>3. CoarsePC(t)' = l
  BY <1>2 DEF Goto, TypeOK, CoarsePC
<1>4. E!Goto(t, l)
  BY <1>1, <1>2, <1>3, CoarseGoto
<1>5. CoarseAct' = CoarseAct
  BY <1>1, <1>2, CoarseActsStay
<1>6. CoarseResult' = [CoarseResult EXCEPT ![t] = E!Res(s, "other", e)]
  BY <1>1, <1>2, CoarseResults
<1> QED BY <1>4, <1>5, <1>6 DEF E!Return

(* The end of a request is that of Execution.                              *)
LEMMA CoarseLeft ==
  ASSUME TypeOK, NEW t \in Task, Leave(t), LoopFree(t)
  PROVE  E!Leave(t)
<1>1. Goto(t, "idle") /\ "idle" \in PC /\ result' = [result EXCEPT ![t] = None]
  BY DEF Leave, PC
<1>2. CoarsePC(t)' = "idle"
  BY <1>1 DEF Goto, TypeOK, CoarsePC
<1>3. E!Goto(t, "idle")
  BY <1>1, <1>2, CoarseGoto
<1>4. CoarseAct' = [CoarseAct EXCEPT ![t] = None]
  BY <1>1, CoarseActs
<1>5. CoarseResult' = [CoarseResult EXCEPT ![t] = None]
  BY <1>1 DEF TypeOK, CoarseResult
<1> QED BY <1>3, <1>4, <1>5 DEF Leave, E!Leave, E!Goto

(* The variables behind each variable of Execution.                        *)
LEMMA CoarseSame ==
  /\ UNCHANGED row => UNCHANGED CoarseRow
  /\ UNCHANGED <<registered, shown, clicked, manual>> => UNCHANGED CoarseSession
  /\ UNCHANGED clicks => UNCHANGED CoarseContacts
  /\ UNCHANGED result => UNCHANGED CoarseResult
  /\ UNCHANGED pc => UNCHANGED CoarseAct
  /\ UNCHANGED <<pc, manual, clicked>> => UNCHANGED CoarsePCs
<1>1. UNCHANGED row => UNCHANGED CoarseRow
  BY DEF CoarseRow, ForAction
<1>2. UNCHANGED <<registered, shown, clicked, manual>> => UNCHANGED CoarseSession
  BY DEF CoarseSession, ForAction
<1>3. UNCHANGED clicks => UNCHANGED CoarseContacts
  BY DEF CoarseContacts, ForAction
<1>4. UNCHANGED result => UNCHANGED CoarseResult
  BY DEF CoarseResult
<1>5. UNCHANGED pc => UNCHANGED CoarseAct
  BY DEF CoarseAct
<1>6. UNCHANGED <<pc, manual, clicked>> => UNCHANGED CoarsePCs
  BY DEF CoarsePCs, CoarsePC
<1> QED BY <1>1, <1>2, <1>3, <1>4, <1>5, <1>6

(* Steps below the grain of Execution.                                     *)
LEMMA CoarseStutter ==
  ASSUME UNCHANGED <<CoarseRow, lock, CoarseSession, CoarsePCs, op, CoarseAct, CoarseResult,
                     CoarseContacts, faults, resumes>>
  PROVE  UNCHANGED E!vars
BY DEF E!vars, E!memory, E!taskVars, E!worldVars, E!history, E!bounds, ForAction

(* A move within one place of the coarse view is no step of it.            *)
LEMMA CoarseStays ==
  ASSUME TypeOK, NEW t \in Task, NEW l \in PC, Goto(t, l), LoopFree(t), pc[t] # "idle", l # "idle",
         CoarsePC(t)' = CoarsePC(t),
         UNCHANGED <<row, lock, op, result, registered, shown, clicked, manual, clicks, faults, resumes>>
  PROVE  UNCHANGED E!vars
<1>1. CoarsePCs' = CoarsePCs
  BY CoarseGoto DEF E!Goto, CoarsePCs
<1> QED BY <1>1, CoarseActsStay, CoarseSame, CoarseStutter


(* _needs_user: the session stays open.                                    *)
LEMMA CoarsePause ==
  ASSUME TypeOK, NEW t \in Task, pc[t] \in InSession, LoopFree(t), Pause(t)
  PROVE  E!BrowserPause(t)
<1>1. CoarsePCs[t] \in {"advance", "clicked", "evaluate"}
  BY DEF InSession, PC, CoarsePCs, CoarsePC
<1>2. E!LoopFree(t)
  BY CoarseLoop
<1>3. E!Return(t, E!Res("needs_user", "other", TRUE), "record")
  BY CoarseReturn DEF Pause, ActionState, InSession
<1>4. UNCHANGED <<CoarseRow, CoarseSession, CoarseContacts, lock, faults, resumes>>
  BY CoarseSame DEF Pause, bounds
<1> QED BY <1>1, <1>2, <1>3, <1>4
    DEF E!BrowserPause, E!memory, E!worldVars, E!history, E!bounds, ForAction

(* _finish: the outcome is one the coarse view allows.                     *)
LEMMA CoarseFinish ==
  ASSUME TypeOK, NEW t \in Task, pc[t] \in InSession, LoopFree(t),
         NEW s \in (IF clicked THEN {"submitted", "confirmed", "failed"} ELSE {"confirmed"}), Finish(t, s)
  PROVE  E!BrowserFinish(t)
<1>1. CoarsePCs[t] \in {"advance", "clicked", "evaluate"} /\ CoarseAct[t] = TheAction
  BY DEF InSession, PC, CoarsePCs, CoarsePC, CoarseAct
<1>2. E!LoopFree(t)
  BY CoarseLoop
<1>3. E!Return(t, E!Res(s, "other", FALSE), "closing")
  BY CoarseReturn DEF Finish, ActionState, InSession
<1>4. UNCHANGED <<CoarseRow, CoarseContacts, lock, faults, resumes>>
  BY CoarseSame DEF Finish, history, bounds
<1>5. s \in E!BrowserOutcome(CoarseAct[t])
  BY <1>1 DEF E!BrowserOutcome, CoarseSession, ForAction
<1>6. CoarseSession' = [CoarseSession EXCEPT ![CoarseAct[t]].open = FALSE]
  BY <1>1 DEF CoarseSession, ForAction, Finish
<1> QED BY <1>1, <1>2, <1>3, <1>4, <1>5, <1>6
    DEF E!BrowserFinish, E!worldVars, E!history, E!bounds, ForAction

(* execute: no browser for the target, or a session that is registered.    *)
LEMMA CoarseUnavailable ==
  ASSUME TypeOK, NEW t \in Task, Unavailable(t)
  PROVE  E!BrowserUnavailable(t)
<1>1. pc[t] \in {"call", "launching"} /\ LoopFree(t)
  BY DEF Unavailable, At
<1>2. E!Calls(t, "browser")
  BY <1>1, CoarseLoop, CoarseAction DEF E!Calls, CoarsePCs, CoarsePC, CoarseAct
<1>3. E!Return(t, E!Res("failed", "other", FALSE), "record")
  BY <1>1, CoarseReturn DEF Unavailable, ActionState
<1>4. UNCHANGED <<CoarseRow, CoarseSession, CoarseContacts, lock, faults, resumes>>
  BY CoarseSame DEF Unavailable, sessionVars, history, bounds
<1> QED BY <1>2, <1>3, <1>4
    DEF E!BrowserUnavailable, E!memory, E!worldVars, E!history, E!bounds, ForAction

(* The launch of a context opens the session (_context).                   *)
LEMMA CoarseOpen ==
  ASSUME TypeOK, NEW t \in Task, Launch(t)
  PROVE  E!BrowserOpen(t)
<1>1. pc[t] = "launching" /\ LoopFree(t) /\ Goto(t, "guarding") /\ "guarding" \in PC
  BY DEF Launch, At, PC
<1>2. E!Calls(t, "browser") /\ CoarseAct[t] = TheAction
  BY <1>1, CoarseLoop, CoarseAction DEF E!Calls, CoarsePCs, CoarsePC, CoarseAct
<1>3. E!Goto(t, "advance")
  <2>1. CoarsePC(t)' = "advance"
    BY <1>1 DEF Goto, TypeOK, CoarsePC
  <2> QED BY <1>1, <2>1, CoarseGoto
<1>4. UNCHANGED <<CoarseRow, CoarseAct, CoarseResult, CoarseContacts, op, lock, faults, resumes>>
  BY <1>1, CoarseSame, CoarseActsStay DEF Launch, history, bounds
<1>5. CoarseSession' = [CoarseSession EXCEPT ![CoarseAct[t]].open = TRUE]
  BY <1>2 DEF CoarseSession, ForAction, Launch
<1> QED BY <1>2, <1>3, <1>4, <1>5
    DEF E!BrowserOpen, E!worldVars, E!history, E!bounds, ForAction

(* The click is the contact.                                               *)
LEMMA CoarseClick ==
  ASSUME TypeOK, NEW t \in Task, Click(t)
  PROVE  E!BrowserClick(t)
<1>1. pc[t] = "preflight" /\ LoopFree(t) /\ Goto(t, "clicking") /\ "clicking" \in PC
  BY DEF Click, At, PC
<1>2. CoarsePCs[t] = "advance" /\ CoarseAct[t] = TheAction /\ E!LoopFree(t)
  BY <1>1, CoarseLoop DEF CoarsePCs, CoarsePC, CoarseAct
<1>3. E!Goto(t, "clicked")
  <2>1. CoarsePC(t)' = "clicked"
    BY <1>1 DEF Goto, TypeOK, CoarsePC
  <2> QED BY <1>1, <2>1, CoarseGoto
<1>4. UNCHANGED <<CoarseRow, CoarseAct, CoarseResult, op, lock, faults, resumes>>
  BY <1>1, CoarseSame, CoarseActsStay DEF Click, bounds
<1>5. /\ CoarseSession' = [CoarseSession EXCEPT ![CoarseAct[t]].clicked = TRUE]
      /\ CoarseContacts' = [CoarseContacts EXCEPT ![CoarseAct[t]] = @ + 1]
  BY <1>2 DEF CoarseSession, CoarseContacts, ForAction, Click
<1> QED BY <1>2, <1>3, <1>4, <1>5
    DEF E!BrowserClick, E!Contact, E!worldVars, E!bounds, ForAction

(* set_state of the row is set_state of the coarse row.                    *)
LEMMA CoarseSet ==
  ASSUME NEW s, NEW e, s \in Allowed[row.state], row'.state = s, row'.ext = e
  PROVE  E!SetState(TheAction, s, "other", e)
<1>1. PICK j, d, n : j = FALSE /\ d = "other" /\ n = 0
  OBVIOUS
<1> DEFINE r == [state |-> row.state, code |-> d, retries |-> n, journaled |-> j, ext |-> row.ext]
           q == [state |-> s, code |-> d, retries |-> n, journaled |-> j, ext |-> e]
<1>2. CoarseRow = [a \in {TheAction} |-> r]
  BY <1>1, Zenon DEF CoarseRow, ForAction
<1>3. CoarseRow' = [a \in {TheAction} |-> q]
  BY <1>1, Zenon DEF CoarseRow, ForAction
<1>4. [r EXCEPT !.state = s, !.code = d, !.ext = e] = q
  <2>1. [r EXCEPT !.state = s]
        = [state |-> s, code |-> d, retries |-> n, journaled |-> j, ext |-> row.ext]
    OBVIOUS
  <2>2. [[state |-> s, code |-> d, retries |-> n, journaled |-> j, ext |-> row.ext] EXCEPT !.code = d]
        = [state |-> s, code |-> d, retries |-> n, journaled |-> j, ext |-> row.ext]
    OBVIOUS
  <2>3. [[state |-> s, code |-> d, retries |-> n, journaled |-> j, ext |-> row.ext] EXCEPT !.ext = e] = q
    OBVIOUS
  <2> QED BY <2>1, <2>2, <2>3, Zenon
<1>5. r.state = row.state
  OBVIOUS
<1> HIDE DEF r, q
<1>6. CoarseRow[TheAction] = r /\ CoarseRow' = [CoarseRow EXCEPT ![TheAction] = q]
  BY <1>2, <1>3
<1>7. CoarseRow' = [CoarseRow EXCEPT ![TheAction] =
                      [CoarseRow[TheAction] EXCEPT !.state = s, !.code = "other", !.ext = e]]
  BY <1>1, <1>4, <1>6, Zenon
<1>8. s \in E!Allowed[CoarseRow[TheAction].state]
  BY <1>5, <1>6 DEF Allowed, E!Allowed
<1> QED BY <1>7, <1>8, Zenon DEF E!SetState

(* BrowserSessionService.                                                  *)
LEMMA CoarseResumed ==
  ASSUME TypeOK, NEW t \in Task, Resume(t)
  PROVE  E!ResumeBrowser(t, TheAction)
<1>1. /\ pc[t] = "idle" /\ LoopFree(t) /\ Goto(t, "resuming") /\ "resuming" \in PC
      /\ registered /\ shown /\ resumes < MaxResumes /\ "executing" \in Allowed[row.state]
  BY DEF Resume, Reachable, At, PC
<1>2. CoarsePCs[t] = "idle" /\ E!LoopFree(t)
  BY <1>1, CoarseLoop DEF CoarsePCs, CoarsePC
<1>3. CoarseSession[TheAction].open /\ CoarseSession[TheAction].shown
      /\ CoarseSession[TheAction].manual = manual /\ CoarseSession[TheAction].clicked = clicked
  BY <1>1 DEF CoarseSession, ForAction
<1>4. E!SetState(TheAction, "executing", "other", FALSE)
  BY <1>1, CoarseSet DEF Resume
<1>5. E!Goto(t, IF manual \/ clicked THEN "evaluate" ELSE "advance")
  <2>1. CoarsePC(t)' = IF manual \/ clicked THEN "evaluate" ELSE "advance"
    BY <1>1 DEF Goto, TypeOK, CoarsePC, Resume, sessionVars
  <2> QED BY <1>1, <2>1, CoarseGoto
<1>6. CoarseAct' = [CoarseAct EXCEPT ![t] = TheAction]
  BY <1>1, CoarseActs
<1>7. /\ UNCHANGED <<CoarseSession, CoarseResult, CoarseContacts, lock, faults>>
      /\ op' = [op EXCEPT ![t] = "resume"] /\ resumes' = resumes + 1
  BY CoarseSame DEF Resume, sessionVars, history
<1> QED BY <1>1, <1>2, <1>3, <1>4, <1>5, <1>6, <1>7
    DEF E!ResumeBrowser, E!memory, E!worldVars, E!history, ForAction

(* The takeover of a session (take_over).                                  *)
LEMMA CoarseTakeOver ==
  ASSUME TypeOK, TakeOver
  PROVE  E!TakeOver(TheAction)
<1>1. LoopIdle /\ registered /\ shown /\ E!LoopIdle
  BY CoarseIdle DEF TakeOver, Reachable
<1>2. CoarseSession[TheAction].open /\ CoarseSession[TheAction].shown
  BY <1>1 DEF CoarseSession, ForAction
<1>3. CoarseSession' = [CoarseSession EXCEPT ![TheAction].manual = TRUE]
  BY DEF CoarseSession, ForAction, TakeOver
<1>4. CoarsePCs' = CoarsePCs
  <2>1. \A u \in Task : pc'[u] = pc[u] /\ pc[u] # "resuming"
    BY <1>1 DEF TakeOver, LoopIdle, Suspended
  <2>2. \A u \in Task : CoarsePC(u)' = CoarsePC(u)
    BY <2>1 DEF CoarsePC
  <2> QED BY <2>2 DEF CoarsePCs
<1>5. UNCHANGED <<CoarseRow, CoarseAct, CoarseResult, CoarseContacts, op, lock, faults, resumes>>
  BY CoarseSame DEF TakeOver, history, bounds
<1> QED BY <1>1, <1>2, <1>3, <1>4, <1>5
    DEF E!TakeOver, E!taskVars, E!worldVars, E!history, E!bounds, ForAction

(* The cancellation of a session starts (cancel).                          *)
LEMMA CoarseCancelled ==
  ASSUME TypeOK, NEW t \in Task, Cancel(t)
  PROVE  E!CancelBrowser(t, TheAction)
<1>1. /\ pc[t] = "idle" /\ LoopFree(t) /\ registered /\ shown
      /\ Goto(t, "closing") /\ "closing" \in PC /\ result' = [result EXCEPT ![t] = Res("reviewed", FALSE)]
  BY DEF Cancel, Reachable, At, PC, Return
<1>2. CoarsePCs[t] = "idle" /\ E!LoopFree(t)
  BY <1>1, CoarseLoop DEF CoarsePCs, CoarsePC
<1>3. CoarseSession[TheAction].open /\ CoarseSession[TheAction].shown
  BY <1>1 DEF CoarseSession, ForAction
<1>4. CoarseSession' = [CoarseSession EXCEPT ![TheAction].open = FALSE]
  BY DEF CoarseSession, ForAction, Cancel
<1>5. E!Goto(t, "closing")
  <2>1. CoarsePC(t)' = "closing"
    BY <1>1 DEF Goto, TypeOK, CoarsePC
  <2> QED BY <1>1, <2>1, CoarseGoto
<1>6. CoarseAct' = [CoarseAct EXCEPT ![t] = TheAction]
  BY <1>1, CoarseActs
<1>7. CoarseResult' = [CoarseResult EXCEPT ![t] = E!Res("reviewed", "other", FALSE)]
  <2>1. Res("reviewed", FALSE) \in Result /\ Res("reviewed", FALSE).state = "reviewed" /\ Res("reviewed", FALSE).ext = FALSE
    BY ResultType DEF ActionState, Res
  <2> QED BY <1>1, <2>1, CoarseResults
<1>8. /\ UNCHANGED <<CoarseRow, CoarseContacts, lock, faults, resumes>>
      /\ op' = [op EXCEPT ![t] = "cancel"]
  BY CoarseSame DEF Cancel, bounds
<1> QED BY <1>1, <1>2, <1>3, <1>4, <1>5, <1>6, <1>7, <1>8
    DEF E!CancelBrowser, E!worldVars, E!history, E!bounds, ForAction

(* _close.                                                                 *)
LEMMA CoarseClosed ==
  ASSUME TypeOK, NEW t \in Task, Closed(t)
  PROVE  E!BrowserClosed(t)
<1>1. pc[t] = "closing" /\ LoopFree(t) /\ Goto(t, "record") /\ "record" \in PC
  BY DEF Closed, At, PC
<1>2. CoarsePCs[t] = "closing" /\ E!LoopFree(t)
  BY <1>1, CoarseLoop DEF CoarsePCs, CoarsePC
<1>3. E!Goto(t, "record")
  <2>1. CoarsePC(t)' = "record"
    BY <1>1 DEF Goto, TypeOK, CoarsePC
  <2> QED BY <1>1, <2>1, CoarseGoto
<1>4. UNCHANGED <<CoarseRow, CoarseSession, CoarseAct, CoarseResult, CoarseContacts, op, lock, faults, resumes>>
  BY <1>1, CoarseSame, CoarseActsStay DEF Closed, history, bounds
<1> QED BY <1>2, <1>3, <1>4
    DEF E!BrowserClosed, E!memory, E!worldVars, E!history, E!bounds, ForAction

(* set_state, accepted or refused.                                         *)
LEMMA CoarseRecord ==
  ASSUME IInv, NEW t \in Task, Record(t)
  PROVE  E!Record(t) \/ E!RecordRejected(t)
<1>1. /\ pc[t] = "record" /\ LoopFree(t) /\ Leave(t) /\ TypeOK /\ result[t] \in Result
      /\ UNCHANGED <<registered, clicked, manual, clicks, faults, resumes>>
  BY DEF Record, At, IInv, TaskInv, history, bounds
<1>2. CoarsePCs[t] = "record" /\ CoarseAct[t] = TheAction /\ E!LoopFree(t) /\ E!Leave(t)
  BY <1>1, CoarseLoop, CoarseLeft DEF CoarsePCs, CoarsePC, CoarseAct
<1>3. CoarseResult[t] = [state |-> result[t].state, code |-> "other", ext |-> result[t].ext]
  BY <1>1, ResultAssumption DEF CoarseResult
<1>4. CoarseRow[TheAction].state = row.state
  BY DEF CoarseRow, ForAction
<1>5. UNCHANGED CoarseContacts
  BY <1>1, CoarseSame
<1>6. CASE result[t].state \in Allowed[row.state]
  <2>1. row' = result[t] /\ shown' = (shown \/ result[t].ext)
    BY <1>6 DEF Record
  <2>2. E!SetState(TheAction, result[t].state, "other", result[t].ext)
    BY <1>6, <2>1, CoarseSet
  <2>3. CoarseSession' = IF result[t].ext THEN [CoarseSession EXCEPT ![TheAction].shown = TRUE]
                                          ELSE CoarseSession
    <3>1. CASE result[t].ext
      BY <1>1, <2>1, <3>1 DEF CoarseSession, ForAction
    <3>2. CASE ~result[t].ext
      BY <1>1, <2>1, <3>2 DEF CoarseSession, ForAction, TypeOK
    <3> QED BY <3>1, <3>2
  <2> QED BY <1>1, <1>2, <1>3, <1>5, <2>2, <2>3, CoarseAction
      DEF E!Record, E!worldVars, E!history, E!bounds, ForAction
<1>7. CASE result[t].state \notin Allowed[row.state]
  <2>1. UNCHANGED <<CoarseRow, CoarseSession>>
    BY <1>1, <1>7, CoarseSame DEF Record
  <2>2. CoarseResult[t].state \notin E!Allowed[CoarseRow[CoarseAct[t]].state]
    BY <1>2, <1>3, <1>4, <1>7 DEF Allowed, E!Allowed
  <2> QED BY <1>1, <1>2, <1>5, <2>1, <2>2
      DEF E!RecordRejected, E!worldVars, E!history, E!bounds, ForAction
<1> QED BY <1>6, <1>7

(* An exception that ends the request is within the bound of Execution.    *)
LEMMA CoarseRaise ==
  ASSUME SessionInv, NEW t \in Task, Raise(t) \/ CloseRaises(t)
  PROVE  E!Raise(t)
<1>1. /\ pc[t] # "idle" /\ LoopFree(t) /\ Leave(t) /\ TypeOK /\ faults' = faults + 1
      /\ UNCHANGED <<row, registered, shown, clicked, manual, clicks, resumes>>
  BY DEF Raise, CloseRaises, At, SessionInv, IInv, sessionVars, history
<1>2. CoarsePCs[t] # "idle" /\ E!LoopFree(t) /\ E!Leave(t)
  BY <1>1, CoarseLoop, CoarseLeft DEF CoarsePCs, CoarsePC, TypeOK, PC
<1>3. UNCHANGED <<CoarseRow, CoarseSession, CoarseContacts>>
  BY <1>1, CoarseSame
<1>4. faults < MaxResumes + 2
  <2>1. Driven \/ Stopping
    BY <1>1 DEF Driven, Stopping, Drives
  <2>2. One(Driven) + One(Stopping) >= 1 /\ One(stopped) <= 1
    BY <2>1 DEF One
  <2>3. /\ faults + One(Driven) + One(Stopping) <= 1 + resumes + One(stopped)
        /\ resumes <= MaxResumes
    BY DEF SessionInv, CoarseInv
  <2>4. /\ faults \in Nat /\ resumes \in Nat /\ MaxResumes \in Nat
        /\ One(Driven) \in {0, 1} /\ One(Stopping) \in {0, 1} /\ One(stopped) \in {0, 1}
    BY <1>1 DEF TypeOK, One
  <2> QED BY <2>2, <2>3, <2>4
<1> QED BY <1>1, <1>2, <1>3, <1>4
    DEF E!Raise, E!worldVars, E!history, ForAction


(* The steps of Execution a session takes.                                 *)
CoarseStep ==
  \/ \E t \in Task :
       \/ E!BrowserUnavailable(t) \/ E!BrowserOpen(t) \/ E!BrowserClick(t)
       \/ E!BrowserPause(t) \/ E!BrowserFinish(t) \/ E!BrowserClosed(t)
       \/ E!Record(t) \/ E!RecordRejected(t) \/ E!Raise(t)
       \/ E!ResumeBrowser(t, TheAction) \/ E!CancelBrowser(t, TheAction)
  \/ E!TakeOver(TheAction)

(* What the steps above map to are steps of Execution.                     *)
LEMMA CoarseNext == CoarseStep => E!Next
BY CoarseAction DEF CoarseStep, E!Next, E!UserStep, E!TaskStep, E!ExecutorStep, E!EnvironmentStep

(* Each step of execute is one step of Execution or none.                  *)
LEMMA ExecuteIsCoarse ==
  ASSUME SessionInv, NEW t \in Task, ExecuteStep(t)
  PROVE  CoarseStep \/ UNCHANGED E!vars
<1> USE DEF At, sessionVars, history, bounds
<1>1. TypeOK
  BY DEF SessionInv, IInv
<1>2. CASE Unavailable(t)
  BY <1>1, <1>2, CoarseUnavailable DEF CoarseStep
<1>3. CASE Launch(t)
  BY <1>1, <1>3, CoarseOpen DEF CoarseStep
<1>4. ASSUME NEW l \in PC, Goto(t, l), LoopFree(t),
             \/ pc[t] = "call" /\ l = "launching"
             \/ pc[t] = "guarding" /\ l = "goto"
             \/ pc[t] = "goto" /\ l = "advance",
             UNCHANGED <<row, lock, op, result, registered, shown, clicked, manual, clicks, faults, resumes>>
      PROVE  UNCHANGED E!vars
  <2>1. CoarsePC(t)' = CoarsePC(t) /\ pc[t] # "idle" /\ l # "idle"
    BY <1>1, <1>4 DEF Goto, TypeOK, CoarsePC
  <2> QED BY <1>1, <1>4, <2>1, CoarseStays
<1>5. CASE Revalidate(t)
  BY <1>4, <1>5 DEF Revalidate, PC
<1>6. CASE InstallGuards(t)
  BY <1>4, <1>6 DEF InstallGuards, PC
<1>7. CASE PageOpened(t)
  BY <1>4, <1>7 DEF PageOpened, PC
<1> QED BY <1>2, <1>3, <1>5, <1>6, <1>7 DEF ExecuteStep

(* Each step of _advance is one step of Execution or none.                 *)
LEMMA AdvanceIsCoarse ==
  ASSUME SessionInv, NEW t \in Task, AdvanceStep(t)
  PROVE  CoarseStep \/ UNCHANGED E!vars
<1> USE DEF At, sessionVars, history, bounds
<1>1. TypeOK
  BY DEF SessionInv, IInv
<1>2. CASE AdvanceBlocked(t) \/ LookPauses(t) \/ ClickUncertain(t) \/ ClickBlocked(t)
  <2>1. pc[t] \in InSession /\ LoopFree(t) /\ Pause(t)
    BY <1>2 DEF AdvanceBlocked, LookPauses, ClickUncertain, ClickBlocked, InSession, PC
  <2> QED BY <1>1, <2>1, CoarsePause DEF CoarseStep
<1>3. CASE AlreadyAccepted(t)
  <2>1. pc[t] \in InSession /\ LoopFree(t) /\ Finish(t, "confirmed")
    BY <1>3 DEF AlreadyAccepted, InSession, PC
  <2> QED BY <1>1, <2>1, CoarseFinish DEF CoarseStep
<1>4. CASE Evaluated(t)
  <2>1. PICK s \in Outcome(TRUE) : Finish(t, s)
    BY <1>4 DEF Evaluated
  <2>2. clicked /\ pc[t] \in InSession /\ LoopFree(t)
    BY <1>4 DEF Evaluated, SessionInv, CoarseInv, InSession, PC
  <2>3. s \in IF clicked THEN {"submitted", "confirmed", "failed"} ELSE {"confirmed"}
    BY <2>2 DEF Outcome
  <2> QED BY <1>1, <2>1, <2>2, <2>3, CoarseFinish DEF CoarseStep
<1>5. CASE Click(t)
  BY <1>1, <1>5, CoarseClick DEF CoarseStep
<1>6. ASSUME NEW l \in PC, Goto(t, l), LoopFree(t),
             \/ pc[t] = "advance" /\ l = "reading"
             \/ pc[t] \in DOMAIN NextLook /\ l = NextLook[pc[t]]
             \/ pc[t] = "clicking" /\ l = "clicked"
             \/ pc[t] = "clicked" /\ l = "evaluating",
             UNCHANGED <<row, lock, op, result, registered, shown, clicked, manual, clicks, faults, resumes>>
      PROVE  UNCHANGED E!vars
  <2>1. CoarsePC(t)' = CoarsePC(t) /\ pc[t] # "idle" /\ l # "idle"
    BY <1>1, <1>6 DEF Goto, TypeOK, CoarsePC, NextLook
  <2> QED BY <1>1, <1>6, <2>1, CoarseStays
<1>7. CASE Advance(t)
  BY <1>6, <1>7 DEF Advance, PC
<1>8. CASE LookOn(t)
  <2>1. NextLook[pc[t]] \in PC
    BY <1>8 DEF LookOn, NextLook, PC
  <2> QED BY <1>6, <1>8, <2>1 DEF LookOn
<1>9. CASE ClickReturns(t)
  BY <1>6, <1>9 DEF ClickReturns, PC
<1>10. CASE ReadOutcome(t)
  BY <1>6, <1>10 DEF ReadOutcome, PC
<1> QED BY <1>2, <1>3, <1>4, <1>5, <1>7, <1>8, <1>9, <1>10 DEF AdvanceStep

(* Each step of resume and cancel is one step of Execution or none.        *)
LEMMA ServiceIsCoarse ==
  ASSUME SessionInv, NEW t \in Task, ServiceStep(t)
  PROVE  CoarseStep \/ UNCHANGED E!vars
<1> USE DEF At, sessionVars, history, bounds
<1>1. TypeOK /\ IInv
  BY DEF SessionInv, IInv
<1>2. CASE ResumeClosed(t) \/ ResumeUnresolved(t)
  <2>1. pc[t] \in InSession /\ LoopFree(t) /\ Pause(t)
    BY <1>2 DEF ResumeClosed, ResumeUnresolved, InSession, PC
  <2> QED BY <1>1, <2>1, CoarsePause DEF CoarseStep
<1>3. CASE ResumeResolved(t)
  <2>1. PICK s \in Outcome(clicked) \ {"needs_user"} : Finish(t, s)
    BY <1>3 DEF ResumeResolved
  <2>2. pc[t] \in InSession /\ LoopFree(t)
    BY <1>3 DEF ResumeResolved, InSession, PC
  <2>3. s \in IF clicked THEN {"submitted", "confirmed", "failed"} ELSE {"confirmed"}
    BY DEF Outcome
  <2> QED BY <1>1, <2>1, <2>2, <2>3, CoarseFinish DEF CoarseStep
<1>4. CASE ResumeOpen(t)
  <2>1. PICK l \in {"resumed", "advance"} : Goto(t, l) /\ (l = "resumed" <=> manual \/ clicked)
    BY <1>4 DEF ResumeOpen
  <2>2. /\ pc[t] = "resuming" /\ LoopFree(t) /\ l \in PC
        /\ UNCHANGED <<row, lock, op, result, registered, shown, clicked, manual, clicks, faults, resumes>>
    BY <1>4 DEF ResumeOpen, PC
  <2>3. CoarsePC(t)' = CoarsePC(t)
    BY <1>1, <2>1, <2>2 DEF Goto, TypeOK, CoarsePC
  <2> QED BY <1>1, <2>1, <2>2, <2>3, CoarseStays
<1>5. CASE Resume(t) \/ Cancel(t) \/ Closed(t)
  BY <1>1, <1>5, CoarseResumed, CoarseCancelled, CoarseClosed DEF CoarseStep
<1>6. CASE Record(t)
  BY <1>1, <1>6, CoarseRecord DEF CoarseStep
<1>7. CASE Raise(t) \/ CloseRaises(t)
  BY <1>7, CoarseRaise DEF CoarseStep
<1> QED BY <1>2, <1>3, <1>4, <1>5, <1>6, <1>7 DEF ServiceStep

(* What the user and the page do is one step of Execution or none.         *)
LEMMA PageIsCoarse ==
  ASSUME SessionInv, TakeOver \/ PageStep
  PROVE  CoarseStep \/ UNCHANGED E!vars
<1>1. CASE TakeOver
  <2>1. E!TakeOver(TheAction)
    BY <1>1, CoarseTakeOver DEF SessionInv, IInv
  <2> QED BY <2>1 DEF CoarseStep
<1>2. CASE PageStep
  <2>1. UNCHANGED <<row, lock, pc, op, result, registered, shown, clicked, manual, clicks, faults, resumes>>
    BY <1>2 DEF PageStep, Navigate, RouteRefused, RouteLimited, RouteCounted,
                RouteAfterClick, Block, CloseWindow, history, bounds
  <2> QED BY <2>1, CoarseSame, CoarseStutter
<1> QED BY <1>1, <1>2

(* The step simulation.                                                    *)
LEMMA StepIsCoarse == SessionInv /\ [Next]_vars => [CoarseStep]_(E!vars)
<1> SUFFICES ASSUME SessionInv, [Next]_vars PROVE CoarseStep \/ UNCHANGED E!vars
  OBVIOUS
<1>1. CASE UNCHANGED vars
  BY <1>1, CoarseSame, CoarseStutter DEF vars, sessionVars, history, bounds
<1> QED BY <1>1, ExecuteIsCoarse, AdvanceIsCoarse, ServiceIsCoarse, PageIsCoarse DEF Next

(* A session in full detail takes only steps of Execution: the coarse      *)
(* browser actions there (executors/browser.py) leave no behaviour out.    *)
THEOREM SessionSteps == Spec => StepsOfExecution
<1>1. SessionInv /\ [Next]_vars => [E!Next]_(E!vars)
  BY StepIsCoarse, CoarseNext
<1> QED BY <1>1, SessionInvariance, PTL DEF Spec, StepsOfExecution

-----------------------------------------------------------------------------
(* What is proved of Execution holds of the session.                       *)

EP == INSTANCE ExecutionProofs WITH
        Candidate <- {"sender"}, Method <- [c \in {"sender"} |-> "browser"], MaxRevision <- 1,
        Plan <- {"plan"}, MaxCrashes <- 0, MaxFaults <- MaxResumes + 2,
        row <- CoarseRow, session <- CoarseSession, contacts <- CoarseContacts,
        pc <- CoarsePCs, act <- CoarseAct, result <- CoarseResult,
        up <- TRUE, catalog <- [c \in {"sender"} |-> 1],
        plan <- [p \in {"plan"} |-> [items |-> {TheAction}, confirmed |-> TRUE]],
        rest <- [t \in Task |-> {}],
        scope <- FALSE, sent <- ForAction(FALSE), refused <- ForAction(0), crashes <- 0

(* The instance satisfies the assumption of Execution.                     *)
LEMMA CoarseConstants == EP!ConstantsAssumption
BY DEF EP!ConstantsAssumption, EP!Methods

(* The session starts where Execution has started an action.               *)
LEMMA CoarseInitInv == Init => EP!IInv
<1> SUFFICES ASSUME Init PROVE EP!IInv
  OBVIOUS
<1>1. PICK t0 \in Task : lock = t0
  BY DEF Init
<1>2. /\ CoarseRow = ForAction([state |-> "executing", code |-> "other", retries |-> 0,
                                journaled |-> FALSE, ext |-> FALSE])
      /\ CoarseSession = ForAction([open |-> FALSE, shown |-> FALSE, clicked |-> FALSE, manual |-> FALSE])
      /\ CoarseContacts = ForAction(0)
      /\ CoarsePCs = [t \in Task |-> IF t = t0 THEN "call" ELSE "idle"]
      /\ CoarseAct = [t \in Task |-> IF t = t0 THEN TheAction ELSE None]
      /\ CoarseResult = [t \in Task |-> None]
      /\ op = [t \in Task |-> IF t = t0 THEN "confirm" ELSE "none"] /\ faults = 0 /\ resumes = 0
  BY <1>1 DEF Init, CoarseRow, CoarseSession, CoarseContacts, CoarsePCs, CoarsePC, CoarseAct, CoarseResult
<1>3. EP!Action = {TheAction} /\ EP!MethodOf(TheAction) = "browser"
  BY DEF EP!Action, EP!MethodOf, TheAction
<1>4. EP!TypeOK
  BY <1>1, <1>2, <1>3 DEF EP!TypeOK, EP!Row, EP!RowState, EP!ActionState, EP!Code, EP!Session, EP!Result,
     EP!PC, EP!Op, ForAction
<1>5. EP!LockInv /\ EP!DownInv
  BY <1>1, <1>2 DEF EP!LockInv, EP!DownInv
<1>6. \A t \in Task : EP!ControlInv(t)
  BY <1>2, <1>3 DEF EP!ControlInv, EP!InCall
<1>7. \A a \in EP!Action : EP!RowInv(a) /\ EP!SessionInv(a)
  BY <1>2, <1>3 DEF EP!RowInv, EP!SessionInv, EP!RetryEligible, ForAction
<1>8. \A t \in Task, a \in EP!Action : EP!CallInv(t, a)
  BY <1>2, <1>3 DEF EP!CallInv, EP!Drives, EP!Outstanding, ForAction
<1>9. \A t \in Task : EP!RestInv(t) /\ EP!RetryInv(t) /\ EP!CancelInv(t)
  BY <1>2 DEF EP!RestInv, EP!RetryInv, EP!CancelInv
<1>10. EP!OneDriver
  BY <1>2, <1>3 DEF EP!OneDriver, EP!Drives, EP!InCall
<1> QED BY <1>4, <1>5, <1>6, <1>7, <1>8, <1>9, <1>10 DEF EP!IInv

(* A step of the one instance is a step of the other.                      *)
LEMMA CoarseStepOfProofs == CoarseStep => EP!Next
<1> SUFFICES ASSUME CoarseStep PROVE EP!Next
  OBVIOUS
<1>1. \/ \E t \in Task :
           \/ EP!BrowserUnavailable(t) \/ EP!BrowserOpen(t) \/ EP!BrowserClick(t)
           \/ EP!BrowserPause(t) \/ EP!BrowserFinish(t) \/ EP!BrowserClosed(t)
           \/ EP!Record(t) \/ EP!RecordRejected(t) \/ EP!Raise(t)
           \/ EP!ResumeBrowser(t, TheAction) \/ EP!CancelBrowser(t, TheAction)
      \/ EP!TakeOver(TheAction)
  BY DEF  CoarseStep, E!Allowed, EP!Allowed, E!BrowserClick, EP!BrowserClick, E!BrowserClosed,
          EP!BrowserClosed, E!BrowserFinish, EP!BrowserFinish, E!BrowserOpen,
          EP!BrowserOpen, E!BrowserOutcome, EP!BrowserOutcome, E!BrowserPause,
          EP!BrowserPause, E!BrowserUnavailable, EP!BrowserUnavailable, E!Calls,
          EP!Calls, E!CancelBrowser, EP!CancelBrowser, E!Contact, EP!Contact, E!Goto,
          EP!Goto, E!Leave, EP!Leave, E!LoopFree, EP!LoopFree, E!LoopIdle, EP!LoopIdle,
          E!MethodOf, EP!MethodOf, E!Raise, EP!Raise, E!Record, EP!Record,
          E!RecordRejected, EP!RecordRejected, E!Res, EP!Res, E!ResumeBrowser,
          EP!ResumeBrowser, E!Return, EP!Return, E!SetState, EP!SetState, E!Suspended,
          EP!Suspended, E!TakeOver, EP!TakeOver, E!bounds, EP!bounds, E!history,
          EP!history, E!memory, EP!memory, E!taskVars, EP!taskVars, E!worldVars,
          EP!worldVars
<1>2. TheAction \in EP!Action
  BY DEF EP!Action, TheAction
<1> QED BY <1>1, <1>2
    DEF EP!Next, EP!UserStep, EP!TaskStep, EP!ExecutorStep, EP!EnvironmentStep

(* The instance of the proofs sees the same variables.                     *)
LEMMA CoarseStutterOfProofs == UNCHANGED E!vars => UNCHANGED EP!vars
BY DEF E!vars, E!memory, E!taskVars, E!worldVars, E!history, E!bounds,
       EP!vars, EP!memory, EP!taskVars, EP!worldVars, EP!history, EP!bounds

(* The invariant of Execution holds of every session in full detail: its   *)
(* proof is that of Execution, step by step.                               *)
LEMMA CoarseInvariance == Spec => []EP!IInv
<1>1. Init => EP!IInv
  BY CoarseInitInv
<1>2. SessionInv /\ [Next]_vars => [EP!Next]_(EP!vars)
  BY StepIsCoarse, CoarseStepOfProofs, CoarseStutterOfProofs
<1>3. EP!IInv /\ [EP!Next]_(EP!vars) => EP!IInv'
  BY EP!NextInv, CoarseConstants DEF EP!ConstantsAssumption
<1>4. EP!IInv /\ SessionInv /\ [Next]_vars => EP!IInv'
  BY <1>2, <1>3
<1> QED BY <1>1, <1>4, SessionInvariance, PTL DEF Spec

(* So the safety properties of Execution hold with the page, its callbacks *)
(* and every await of the executor in view: no second contact, nothing     *)
(* "submitted" without a click, one driver, and a row that says            *)
(* "executing" while the session is driven.                                *)
THEOREM SessionKeepsPromises ==
  Spec => [](E!NoRepeatedSideEffect /\ E!SubmittedIsBacked /\ E!IntentIsDurable /\ E!OneDriver)
<1> SUFFICES ASSUME EP!IInv
             PROVE  E!NoRepeatedSideEffect /\ E!SubmittedIsBacked /\ E!IntentIsDurable /\ E!OneDriver
  BY CoarseInvariance, PTL
<1>1. /\ E!Action = EP!Action /\ E!MethodOf(TheAction) = "browser" /\ EP!MethodOf(TheAction) = "browser"
      /\ EP!Action = {TheAction}
  BY DEF E!Action, EP!Action, E!MethodOf, EP!MethodOf, TheAction
<1>2. /\ CoarseContacts[TheAction] = clicks /\ clicks \in Nat /\ ForAction(0)[TheAction] = 0
      /\ clicks <= CoarseRow[TheAction].retries + 1 /\ CoarseRow[TheAction].retries = 0
      /\ CoarseRow[TheAction].state = "submitted" => clicks > 0
  <2>1. EP!RowInv(TheAction) /\ EP!TypeOK
    BY <1>1 DEF EP!IInv
  <2>2. CoarseContacts[TheAction] = clicks /\ ForAction(0)[TheAction] = 0 /\ CoarseRow[TheAction].retries = 0
    BY DEF CoarseContacts, CoarseRow, ForAction
  <2>3. clicks \in Nat
    BY <1>1, <2>1, <2>2 DEF EP!TypeOK
  <2> QED BY <2>1, <2>2, <2>3 DEF EP!RowInv, EP!Outstanding
<1>3. E!NoRepeatedSideEffect
  BY <1>1, <1>2 DEF E!NoRepeatedSideEffect
<1>4. E!SubmittedIsBacked
  BY <1>1, <1>2 DEF E!SubmittedIsBacked, E!Outstanding
<1>5. E!IntentIsDurable
  BY <1>1 DEF EP!IInv, EP!CallInv, EP!Drives, EP!InCall, E!IntentIsDurable, E!Drives, E!InCall
<1>6. E!OneDriver
  BY <1>1 DEF EP!IInv, EP!OneDriver, EP!Drives, EP!InCall, E!OneDriver, E!Drives, E!InCall
<1> QED BY <1>3, <1>4, <1>5, <1>6

=============================================================================
