-------------------------- MODULE ExecutionProofs ---------------------------
(***************************************************************************)
(* Proofs about Execution: the inductive invariant of ExecutionInvariant   *)
(* holds for every set of candidates, plans and tasks and every number of  *)
(* restarts, and the safety properties follow from it.                     *)
(*                                                                         *)
(* The argument for the steps of one task is isolation: a step concerns    *)
(* one task t and at most one action x, no other task is concerned with x, *)
(* so it suffices to see to t and x (LocalStep, IsolationStep, DriverStep).*)
(***************************************************************************)
EXTENDS ExecutionInvariant, TLAPS

-----------------------------------------------------------------------------
(* Types.                                                                  *)

(* The transaction of set_state keeps the rows well-formed.                *)
LEMMA SetStateType ==
  ASSUME TypeOK, NEW a \in Action, NEW s \in ActionState, NEW c \in Code, NEW e \in BOOLEAN,
         SetState(a, s, c, e)
  PROVE  row' \in [Action -> Row]
<1>1. row[a] \in Row /\ s \in RowState
  BY DEF TypeOK, RowState
<1>2. [[[row[a] EXCEPT !.state = s] EXCEPT !.code = c] EXCEPT !.ext = e] \in Row
  BY <1>1 DEF Row
<1>3. row' = [row EXCEPT ![a] = [row[a] EXCEPT !.state = s, !.code = c, !.ext = e]]
  BY DEF SetState
<1> QED BY <1>2, <1>3, Zenon DEF TypeOK

(* ExecutionResults are built from states and evidence codes.              *)
LEMMA ResType ==
  ASSUME NEW s \in ActionState, NEW c \in Code, NEW e \in BOOLEAN
  PROVE  Res(s, c, e) \in Result
BY DEF Res, Result

(* The end of a request keeps the types. *)
LEMMA LeaveType ==
  ASSUME TypeOK, NEW t \in Task, Leave(t)
  PROVE  /\ pc' \in [Task -> PC] /\ op' \in [Task -> Op]
         /\ act' \in [Task -> Action \cup Plan \cup {None}]
         /\ rest' \in [Task -> SUBSET Action] /\ result' \in [Task -> Result \cup {None}]
         /\ lock' \in Task \cup {None}
BY DEF TypeOK, Leave, PC, Op

(* Returning an executor's result keeps the types. *)
LEMMA ReturnType ==
  ASSUME TypeOK, NEW t \in Task, NEW r \in Result, NEW l \in PC, Return(t, r, l)
  PROVE  /\ pc' \in [Task -> PC] /\ op' \in [Task -> Op]
         /\ act' \in [Task -> Action \cup Plan \cup {None}]
         /\ rest' \in [Task -> SUBSET Action] /\ result' \in [Task -> Result \cup {None}]
BY DEF TypeOK, Return, Goto

(* The two evidence codes that are read back are codes. *)
LEMMA CodeType == {Retryable, Unauthorized, "other"} \subseteq Code
BY DEF Code

(* The requests a client starts keep the types. *)
LEMMA UserType ==
  ASSUME IInv, NEW t \in Task, UserStep(t)
  PROVE  TypeOK'
<1> USE DEF memory, worldVars, history, bounds
<1>1. TypeOK BY DEF IInv
<1>2. ASSUME NEW p \in Plan, ConfirmEnter(t, p) PROVE TypeOK'
  BY <1>1, <1>2 DEF TypeOK, ConfirmEnter, Goto, PC, Op
<1>3. ASSUME NEW a \in Action, RetryEnter(t, a) PROVE TypeOK'
  <2>1. row' \in [Action -> Row]
    BY <1>1, <1>3 DEF TypeOK, RetryEnter, RetryEligible, Row
  <2> QED BY <1>1, <1>3, <2>1 DEF TypeOK, RetryEnter, Goto, PC, Op
<1>4. ASSUME NEW a \in Action, ResumeBrowser(t, a) PROVE TypeOK'
  <2>1. row' \in [Action -> Row]
    BY <1>1, <1>4, SetStateType, CodeType DEF ResumeBrowser, ActionState
  <2> QED BY <1>1, <1>4, <2>1 DEF TypeOK, ResumeBrowser, Goto, PC, Op
<1>5. ASSUME NEW a \in Action, CancelBrowser(t, a) PROVE TypeOK'
  <2>1. Res("reviewed", "other", FALSE) \in Result
    BY ResType, CodeType DEF ActionState
  <2>2. session' \in [Action -> Session]
    BY ZenonT(60), <1>1, <1>5 DEF TypeOK, CancelBrowser, Session
  <2> QED BY <1>1, <1>5, <2>1, <2>2 DEF TypeOK, CancelBrowser, Goto, PC, Op
<1> QED BY <1>2, <1>3, <1>4, <1>5 DEF UserStep

(* The steps of a confirmation keep the types. *)
LEMMA ConfirmType ==
  ASSUME IInv, NEW t \in Task, ConfirmStep(t)
  PROVE  TypeOK'
<1> USE DEF memory, worldVars, history, bounds
<1>1. TypeOK /\ ControlInv(t) BY DEF IInv
<1>2. CASE ConfirmAuthorized(t)
  BY <1>1, <1>2 DEF TypeOK, ConfirmAuthorized, Goto, PC
<1>3. CASE ConfirmUnauthorized(t)
  BY <1>1, <1>3, LeaveType DEF TypeOK, ConfirmUnauthorized
<1>4. CASE ConfirmPlan(t)
  BY ZenonT(60), <1>1, <1>4 DEF TypeOK, ControlInv, ConfirmPlan, Goto, PC
<1>5. CASE ConfirmStale(t)
  BY <1>1, <1>5, LeaveType DEF TypeOK, ConfirmStale
<1>6. CASE CreateConfirmedPlan(t)
  <2>1. NoRow \in Row
    BY CodeType DEF NoRow, Row, RowState
  <2>2. ConfirmedRow \in Row
    BY <2>1 DEF ConfirmedRow, Row, RowState, ActionState
  <2> QED BY <1>1, <1>6, <2>2 DEF TypeOK, CreateConfirmedPlan, Goto, PC
<1>7. CASE StartAction(t)
  <2>1. PICK a \in rest[t] : /\ SetState(a, "executing", "other", FALSE)
                             /\ act' = [act EXCEPT ![t] = a]
                             /\ rest' = [rest EXCEPT ![t] = @ \ {a}]
    BY <1>7 DEF StartAction
  <2>2. a \in Action BY <1>1 DEF TypeOK
  <2>3. row' \in [Action -> Row]
    BY <1>1, <2>1, <2>2, SetStateType, CodeType DEF ActionState
  <2> QED BY <1>1, <1>7, <2>1, <2>2, <2>3 DEF TypeOK, StartAction, Goto, PC
<1> QED BY <1>2, <1>3, <1>4, <1>5, <1>6, <1>7 DEF ConfirmStep

(* The steps of the three executors keep the types. *)
LEMMA ExecutorType ==
  ASSUME IInv, NEW t \in Task, ExecutorStep(t)
  PROVE  TypeOK'
<1> USE DEF memory, worldVars, history, bounds, Calls
<1>1. TypeOK /\ ControlInv(t) BY DEF IInv
<1>2. /\ {"record", "closing"} \subseteq PC
      /\ {"confirmed", "submitted", "needs_user", "failed"} \subseteq ActionState
  BY DEF PC, ActionState
<1>3. CASE RfcTargetRefused(t)
  BY <1>1, <1>2, <1>3, ReturnType, ResType, CodeType DEF TypeOK, RfcTargetRefused
<1>4. CASE RfcPost(t)
  BY <1>1, <1>4 DEF TypeOK, ControlInv, InCall, RfcPost, Contact, Goto, PC
<1>5. CASE RfcAnswered(t)
  <2>1. RfcOutcome \subseteq Result
    BY <1>2, ResType, CodeType DEF RfcOutcome
  <2> QED BY <1>1, <1>2, <1>5, <2>1, ReturnType DEF TypeOK, RfcAnswered
<1>6. CASE RfcTurnedAway(t)
  <2>1. refused' \in [Action -> Nat]
    BY <1>1, <1>6 DEF TypeOK, ControlInv, InCall, RfcTurnedAway
  <2> QED BY <1>1, <1>2, <1>6, <2>1, ReturnType, ResType, CodeType DEF TypeOK, RfcTurnedAway
<1>7. CASE MailUnauthorized(t)
  BY <1>1, <1>2, <1>7, ReturnType, ResType, CodeType DEF TypeOK, MailUnauthorized
<1>8. CASE MailJournal(t)
  <2>1. PICK a \in Action : a = act[t] /\ row[a] \in Row
    BY <1>1, <1>8 DEF TypeOK, MailJournal, ControlInv, InCall
  <2>2. [row[a] EXCEPT !.journaled = TRUE] \in Row
    BY <2>1 DEF Row
  <2>3. row' = [row EXCEPT ![a] = [row[a] EXCEPT !.journaled = TRUE]]
    BY <1>8, <2>1 DEF MailJournal
  <2>4. row' \in [Action -> Row]
    BY <1>1, <2>2, <2>3 DEF TypeOK
  <2> QED BY <1>1, <1>8, <2>4 DEF TypeOK, MailJournal, Goto, PC
<1>9. CASE MailSend(t)
  BY <1>1, <1>9 DEF TypeOK, ControlInv, InCall, MailSend, Contact, Goto, PC
<1>10. CASE MailAccepted(t)
  BY <1>1, <1>2, <1>10, ReturnType, ResType, CodeType DEF TypeOK, MailAccepted
<1>11. CASE MailSendRaises(t)
  BY <1>1, <1>11 DEF TypeOK, MailSendRaises, Goto, PC
<1>12. CASE MailFound(t)
  BY <1>1, <1>2, <1>12, ReturnType, ResType, CodeType DEF TypeOK, MailFound
<1>13. CASE MailNotFound(t)
  BY <1>1, <1>2, <1>13, ReturnType, ResType, CodeType DEF TypeOK, MailNotFound
<1>14. CASE BrowserUnavailable(t)
  BY <1>1, <1>2, <1>14, ReturnType, ResType, CodeType DEF TypeOK, BrowserUnavailable
<1>15. CASE BrowserOpen(t)
  <2>1. session' \in [Action -> Session]
    BY ZenonT(60), <1>1, <1>15 DEF TypeOK, BrowserOpen, Session
  <2> QED BY <1>1, <1>15, <2>1 DEF TypeOK, BrowserOpen, Goto, PC
<1>16. CASE BrowserClick(t)
  <2>1. session' \in [Action -> Session]
    BY ZenonT(60), <1>1, <1>16 DEF TypeOK, BrowserClick, Session
  <2> QED BY <1>1, <1>16, <2>1 DEF TypeOK, BrowserClick, Contact, Goto, PC
<1>17. CASE BrowserPause(t)
  BY <1>1, <1>2, <1>17, ReturnType, ResType, CodeType DEF TypeOK, BrowserPause
<1>18. CASE BrowserFinish(t)
  <2>1. session' \in [Action -> Session]
    BY ZenonT(60), <1>1, <1>18 DEF TypeOK, BrowserFinish, Session
  <2>2. PICK s \in BrowserOutcome(act[t]) : Return(t, Res(s, "other", FALSE), "closing")
    BY <1>18 DEF BrowserFinish
  <2>3. Res(s, "other", FALSE) \in Result
    BY <1>2, ResType, CodeType DEF BrowserOutcome
  <2> QED BY <1>1, <1>2, <1>18, <2>1, <2>2, <2>3, ReturnType DEF TypeOK, BrowserFinish
<1>19. CASE BrowserClosed(t)
  BY <1>1, <1>19 DEF TypeOK, BrowserClosed, Goto, PC
<1> QED BY <1>3, <1>4, <1>5, <1>6, <1>7, <1>8, <1>9, <1>10, <1>11, <1>12, <1>13,
           <1>14, <1>15, <1>16, <1>17, <1>18, <1>19 DEF ExecutorStep

(* The steps of a running request keep the types. *)
LEMMA TaskType ==
  ASSUME IInv, NEW t \in Task, TaskStep(t) \/ Raise(t)
  PROVE  TypeOK'
<1> USE DEF memory, worldVars, history, bounds
<1>1. TypeOK /\ ControlInv(t) BY DEF IInv
<1>2. CASE RetryAdvance(t)
  <2>1. act[t] \in Action /\ RetryPath[row[act[t]].state] \in ActionState
    BY <1>1, <1>2 DEF ControlInv, RetryAdvance, RetryPath, ActionState
  <2>2. row' \in [Action -> Row]
    BY <1>1, <1>2, <2>1, SetStateType, CodeType DEF RetryAdvance
  <2> QED BY <1>1, <1>2, <2>2 DEF TypeOK, RetryAdvance, Goto, PC
<1>3. CASE RetryPayloadUnavailable(t)
  BY <1>1, <1>3, ReturnType, ResType, CodeType DEF TypeOK, RetryPayloadUnavailable, PC, ActionState
<1>4. CASE Record(t)
  <2>1. act[t] \in Action /\ result[t] \in Result
    BY <1>1, <1>4 DEF ControlInv, Record, InCall
  <2>2. row' \in [Action -> Row]
    BY <1>1, <1>4, <2>1, SetStateType DEF Record, Result
  <2>3. session' \in [Action -> Session]
    BY ZenonT(60), <1>1, <1>4, <2>1 DEF TypeOK, Record, Session
  <2>4. CASE rest[t] # {}
    BY <1>1, <1>4, <2>2, <2>3, <2>4 DEF TypeOK, Record, Goto, PC
  <2>5. CASE rest[t] = {}
    BY <1>1, <1>4, <2>2, <2>3, <2>5, LeaveType DEF TypeOK, Record
  <2> QED BY <2>4, <2>5
<1>5. CASE RecordRejected(t)
  BY <1>1, <1>5, LeaveType DEF TypeOK, RecordRejected
<1>6. CASE Raise(t)
  BY <1>1, <1>6, LeaveType DEF TypeOK, Raise
<1> QED BY <1>2, <1>3, <1>4, <1>5, <1>6, ConfirmType, ExecutorType DEF TaskStep

(* Startup recovery keeps the types. *)
LEMMA RecoveryType ==
  ASSUME IInv, RecoveryStep
  PROVE  TypeOK'
<1> USE DEF memory, taskVars, worldVars, history, bounds, Recovers, InState
<1>1. TypeOK BY DEF IInv
<1>2. ASSUME NEW a \in Action, NEW s \in {"submitted", "needs_user", "reviewed"},
             NEW e \in BOOLEAN, SetState(a, s, "other", e), Recovers
      PROVE  TypeOK'
  <2>1. row' \in [Action -> Row]
    BY <1>1, <1>2, SetStateType, CodeType DEF ActionState
  <2> QED BY <1>1, <1>2, <2>1 DEF TypeOK
<1>3. ASSUME NEW a \in Action,
             RecoverSentMail(a) \/ RecoverInterrupted(a) \/ RecoverUnstarted(a) \/ RecoverLostSession(a)
      PROVE  TypeOK'
  BY <1>2, <1>3 DEF RecoverSentMail, RecoverInterrupted, RecoverUnstarted, RecoverLostSession
<1>4. CASE RecoveryDone
  BY <1>1, <1>4 DEF TypeOK, RecoveryDone
<1> QED BY <1>3, <1>4 DEF RecoveryStep

(* What the user, Gmail and the machine do keeps the types. *)
LEMMA EnvironmentType ==
  ASSUME IInv, EnvironmentStep
  PROVE  TypeOK'
<1> USE DEF memory, taskVars, worldVars, history, bounds
<1>1. TypeOK BY DEF IInv
<1>2. ASSUME NEW c \in Candidate, Discover(c) \/ Correct(c) PROVE TypeOK'
  <2>1. catalog' \in [Candidate -> 0..MaxRevision]
    BY <1>1, <1>2, ConstantsAssumption DEF TypeOK, Discover, Correct
  <2> QED BY <1>1, <1>2, <2>1 DEF TypeOK, Discover, Correct
<1>3. ASSUME NEW p \in Plan, NEW S \in SUBSET Candidate, CreatePlan(p, S) PROVE TypeOK'
  <2>1. {<<c, catalog[c]>> : c \in S} \subseteq Action
    BY <1>1, <1>3, ConstantsAssumption DEF TypeOK, CreatePlan, Action
  <2>2. plan' \in [Plan -> [items : SUBSET Action, confirmed : BOOLEAN]]
    BY <1>1, <1>3, <2>1 DEF TypeOK, CreatePlan
  <2> QED BY <1>1, <1>3, <2>2 DEF TypeOK, CreatePlan
<1>4. ASSUME NEW a \in Action, TakeOver(a) PROVE TypeOK'
  <2>1. session' \in [Action -> Session]
    BY ZenonT(60), <1>1, <1>4 DEF TypeOK, TakeOver, Session
  <2> QED BY <1>1, <1>4, <2>1 DEF TypeOK, TakeOver
<1>5. ASSUME NEW a \in Action, GmailFiles(a) PROVE TypeOK'
  BY <1>1, <1>5 DEF TypeOK, GmailFiles
<1>6. CASE ChangeScope
  BY <1>1, <1>6 DEF TypeOK, ChangeScope
<1>7. CASE Crash
  <2>1. NoPlan \in [items : SUBSET Action, confirmed : BOOLEAN]
    BY DEF NoPlan
  <2>2. NoSession \in Session
    BY DEF NoSession, Session
  <2>3. /\ catalog' \in [Candidate -> 0..MaxRevision]
        /\ plan' \in [Plan -> [items : SUBSET Action, confirmed : BOOLEAN]]
        /\ session' \in [Action -> Session]
    BY <1>7, <2>1, <2>2, ConstantsAssumption DEF Crash
  <2>4. /\ pc' \in [Task -> PC] /\ op' \in [Task -> Op]
        /\ act' \in [Task -> Action \cup Plan \cup {None}]
        /\ rest' \in [Task -> SUBSET Action] /\ result' \in [Task -> Result \cup {None}]
    BY <1>7 DEF Crash, PC, Op
  <2>5. crashes' \in Nat /\ faults' \in Nat /\ resumes' \in Nat
    BY <1>1, <1>7, SMT DEF TypeOK, Crash
  <2>6. up' \in BOOLEAN /\ lock' \in Task \cup {None}
    BY <1>7 DEF Crash
  <2>7. /\ row' = row /\ scope' = scope /\ sent' = sent /\ contacts' = contacts /\ refused' = refused
    BY <1>7 DEF Crash
  <2> QED BY <1>1, <2>3, <2>4, <2>5, <2>6, <2>7 DEF TypeOK
<1> QED BY <1>2, <1>3, <1>4, <1>5, <1>6, <1>7 DEF EnvironmentStep

(* Every step keeps the types. *)
LEMMA NextType == IInv /\ Next => TypeOK'
BY UserType, TaskType, RecoveryType, EnvironmentType DEF Next
-----------------------------------------------------------------------------
(* Task u has nothing to do with action x, other than cancelling its       *)
(* browser session.                                                        *)
Unconcerned(u, x) ==
  /\ ~Drives(u, x)
  /\ x \notin rest[u]
  /\ pc[u] = "retrying" => act[u] # x

(* A step of task t on action x: nothing that belongs to another action or *)
(* another task changes, and no other task is concerned with x.  It then   *)
(* remains to see to t and x themselves.                                   *)
LEMMA IsolationStep ==
  ASSUME IInv, TypeOK', NEW t \in Task, NEW x \in Action,
         \A u \in Task \ {t} : /\ pc'[u] = pc[u] /\ op'[u] = op[u] /\ act'[u] = act[u]
                               /\ rest'[u] = rest[u] /\ result'[u] = result[u],
         \A a \in Action \ {x} : /\ row'[a] = row[a] /\ session'[a] = session[a] /\ sent'[a] = sent[a]
                                 /\ contacts'[a] = contacts[a] /\ refused'[a] = refused[a],
         \A u \in Task \ {t} : Unconcerned(u, x),
         session[x].shown => session'[x].shown /\ (session'[x].open => session[x].open),
         LockInv', DownInv', ControlInv(t)', RowInv(x)', SessionInv(x)',
         \A a \in Action : CallInv(t, a)', \A u \in Task \ {t}, a \in Action : Drives(t, a)' => ~Drives(u, a),
         RestInv(t)', RetryInv(t)', CancelInv(t)'
  PROVE  IInv'
<1>1. ASSUME NEW u \in Task PROVE ControlInv(u)'
  BY DEF IInv, ControlInv
<1>2. ASSUME NEW a \in Action PROVE RowInv(a)' /\ SessionInv(a)'
  BY DEF IInv, RowInv, SessionInv, RetryEligible, Outstanding
<1>3. OneDriver'
  BY DEF IInv, OneDriver, Drives
<1>4. ASSUME NEW u \in Task, NEW a \in Action PROVE CallInv(u, a)'
  <2>1. CASE u = t
    BY <2>1
  <2>2. CASE u # t /\ a = x
    BY <2>2 DEF Unconcerned, CallInv, Drives
  <2>3. CASE u # t /\ a # x
    BY <2>3 DEF IInv, CallInv, Drives, Outstanding
  <2> QED BY <2>1, <2>2, <2>3
<1>5. ASSUME NEW u \in Task \ {t} PROVE RestInv(u)'
  <2>1. RestInv(u) /\ rest[u] \subseteq Action BY DEF IInv, TypeOK
  <2>2. ASSUME NEW a \in rest[u] PROVE row'[a] = row[a]
    BY <2>1 DEF Unconcerned
  <2> QED BY <2>1, <2>2 DEF RestInv
<1>6. ASSUME NEW u \in Task \ {t} PROVE RetryInv(u)'
  <2>1. RetryInv(u) /\ ControlInv(u) BY DEF IInv
  <2> QED BY <2>1 DEF Unconcerned, RetryInv, ControlInv, InCall, Outstanding
<1>7. ASSUME NEW u \in Task \ {t} PROVE CancelInv(u)'
  <2>1. CancelInv(u) /\ ControlInv(u) BY DEF IInv
  <2>2. op[u] = "cancel" => act[u] \in Action
    BY <2>1 DEF ControlInv, InCall
  <2>3. op'[u] = op[u] /\ act'[u] = act[u] /\ result'[u] = result[u]
    OBVIOUS
  <2>4. CASE act[u] = x
    BY <2>1, <2>3, <2>4 DEF CancelInv
  <2>5. CASE act[u] # x
    <3>1. op[u] = "cancel" => session'[act[u]] = session[act[u]]
      BY <2>2, <2>5
    <3> QED BY ZenonT(60), <2>1, <2>3, <3>1 DEF CancelInv
  <2> QED BY <2>4, <2>5
<1> QED BY <1>1, <1>2, <1>3, <1>4, <1>5, <1>6, <1>7 DEF IInv

(* A task works on action x and touches nothing that belongs to another    *)
(* action or another task.                                                 *)
LEMMA DriverStep ==
  ASSUME IInv, TypeOK', NEW t \in Task, NEW x \in Action, Drives(t, x),
         UNCHANGED <<up, lock, op, act, rest>>,
         \A u \in Task \ {t} : pc'[u] = pc[u] /\ result'[u] = result[u],
         \A a \in Action \ {x} : /\ row'[a] = row[a] /\ session'[a] = session[a] /\ sent'[a] = sent[a]
                                 /\ contacts'[a] = contacts[a] /\ refused'[a] = refused[a],
         session'[x].shown = session[x].shown,
         session'[x].open => session[x].open \/ pc[t] = "call",
         pc'[t] \in InCall, ControlInv(t)', RowInv(x)', SessionInv(x)', CallInv(t, x)'
  PROVE  IInv'
<1>1. /\ ControlInv(t) /\ CallInv(t, x) /\ RestInv(t)
      /\ pc[t] \in InCall /\ op[t] # "cancel" /\ act[t] = x /\ row[x].state = "executing"
  BY DEF IInv, Drives, CallInv
<1>2. LockInv' /\ DownInv'
  BY <1>1 DEF IInv, LockInv, DownInv, InCall
<1>3. ASSUME NEW u \in Task \ {t} PROVE Unconcerned(u, x) /\ (Drives(t, x)' => ~Drives(u, x))
  <2>1. ControlInv(u) /\ RestInv(u) /\ RetryInv(u) BY DEF IInv
  <2>2. ~Drives(u, x)
    BY <1>1 DEF IInv, OneDriver
  <2>3. x \notin rest[u]
    BY <1>1, <2>1 DEF RestInv, ControlInv, InCall, TypeOK, IInv, PC
  <2> QED BY <1>1, <2>1, <2>2, <2>3 DEF Unconcerned, RetryInv
<1>4. ASSUME NEW a \in Action PROVE CallInv(t, a)' /\ (Drives(t, a)' => a = x)
  BY <1>1 DEF CallInv, Drives
<1>5. RestInv(t)'
  <2>1. rest[t] \subseteq Action /\ x \notin rest[t]
    BY <1>1 DEF IInv, TypeOK, RestInv
  <2> QED BY <1>1, <2>1 DEF RestInv, InCall
<1>6. RetryInv(t)' /\ CancelInv(t)'
  BY <1>1 DEF RetryInv, CancelInv, InCall
<1>7. session[x].shown => session'[x].shown /\ (session'[x].open => session[x].open)
  BY <1>1 DEF IInv, CallInv, SessionInv, Drives, ControlInv
<1> QED BY <1>2, <1>3, <1>4, <1>5, <1>6, <1>7, IsolationStep

(* A step of task t that touches nothing but its own locals and the lock.  *)
LEMMA LocalStep ==
  ASSUME IInv, TypeOK', NEW t \in Task,
         UNCHANGED <<row, session, sent, history>>,
         \A u \in Task \ {t} : /\ pc'[u] = pc[u] /\ op'[u] = op[u] /\ act'[u] = act[u]
                               /\ rest'[u] = rest[u] /\ result'[u] = result[u],
         LockInv', DownInv', ControlInv(t)', \A a \in Action : CallInv(t, a)',
         \A u \in Task \ {t}, a \in Action : Drives(t, a)' => ~Drives(u, a),
         RestInv(t)', RetryInv(t)', CancelInv(t)'
  PROVE  IInv'
<1>1. /\ row' = row /\ session' = session /\ sent' = sent
      /\ contacts' = contacts /\ refused' = refused
  BY DEF history
<1>2. ASSUME NEW u \in Task PROVE ControlInv(u)'
  BY DEF IInv, ControlInv
<1>3. ASSUME NEW a \in Action PROVE RowInv(a)' /\ SessionInv(a)'
  BY <1>1 DEF IInv, RowInv, SessionInv, RetryEligible, Outstanding
<1>4. OneDriver'
  BY DEF IInv, OneDriver, Drives
<1>5. ASSUME NEW u \in Task, NEW a \in Action PROVE CallInv(u, a)'
  BY <1>1 DEF IInv, CallInv, Drives, Outstanding
<1>6. ASSUME NEW u \in Task \ {t} PROVE RestInv(u)' /\ RetryInv(u)' /\ CancelInv(u)'
  <2>1. RestInv(u) /\ RetryInv(u) /\ CancelInv(u) BY DEF IInv
  <2>2. /\ pc'[u] = pc[u] /\ op'[u] = op[u] /\ act'[u] = act[u]
        /\ rest'[u] = rest[u] /\ result'[u] = result[u]
    OBVIOUS
  <2>3. RestInv(u)'   BY <1>1, <2>1, <2>2 DEF RestInv
  <2>4. RetryInv(u)'  BY <1>1, <2>1, <2>2 DEF RetryInv, Outstanding
  <2>5. CancelInv(u)' BY <1>1, <2>1, <2>2 DEF CancelInv
  <2> QED BY <2>3, <2>4, <2>5
<1> QED BY <1>2, <1>3, <1>4, <1>5, <1>6 DEF IInv

(* The coroutine of a task ends and leaves the database as it is.          *)
LEMMA LeaveStep ==
  ASSUME IInv, TypeOK', NEW t \in Task, Leave(t),
         UNCHANGED <<row, up, session, sent, history>>
  PROVE  IInv'
<1>1. /\ pc'[t] = "idle" /\ op'[t] = "none" /\ rest'[t] = {}
      /\ lock' = IF lock = t THEN None ELSE lock
      /\ \A u \in Task \ {t} : /\ pc'[u] = pc[u] /\ op'[u] = op[u] /\ act'[u] = act[u]
                               /\ rest'[u] = rest[u] /\ result'[u] = result[u]
  BY DEF IInv, TypeOK, Leave
<1>2. LockInv' /\ DownInv'
  BY <1>1, ConstantsAssumption DEF IInv, LockInv, DownInv
<1>3. ControlInv(t)' /\ RestInv(t)' /\ RetryInv(t)' /\ CancelInv(t)'
  BY <1>1 DEF ControlInv, RestInv, RetryInv, CancelInv, InCall
<1>4. ASSUME NEW a \in Action PROVE CallInv(t, a)' /\ ~Drives(t, a)'
  BY <1>1 DEF CallInv, Drives, InCall
<1> QED BY <1>1, <1>2, <1>3, <1>4, LocalStep

(* Steps that touch neither rows, sessions, tasks nor contacts.            *)
LEMMA FrameStep ==
  ASSUME IInv, TypeOK',
         UNCHANGED <<row, up, lock, session, taskVars, sent, history>>
  PROVE  IInv'
<1>1. /\ row' = row /\ up' = up /\ lock' = lock /\ session' = session
      /\ pc' = pc /\ op' = op /\ act' = act /\ rest' = rest /\ result' = result
      /\ sent' = sent /\ contacts' = contacts /\ refused' = refused
  BY DEF taskVars, history
<1>2. LockInv' /\ DownInv'
  BY <1>1 DEF IInv, LockInv, DownInv
<1>3. ASSUME NEW t \in Task PROVE ControlInv(t)'
  BY <1>1 DEF IInv, ControlInv
<1>4. ASSUME NEW a \in Action PROVE RowInv(a)' /\ SessionInv(a)'
  BY <1>1 DEF IInv, RowInv, SessionInv, RetryEligible, Outstanding
<1>5. ASSUME NEW t \in Task, NEW a \in Action PROVE CallInv(t, a)'
  BY <1>1 DEF IInv, CallInv, Drives, Outstanding
<1>6. ASSUME NEW t \in Task PROVE RestInv(t)' /\ RetryInv(t)' /\ CancelInv(t)'
  <2>1. RestInv(t) /\ RetryInv(t) /\ CancelInv(t) BY DEF IInv
  <2> QED BY <1>1, <2>1 DEF RestInv, RetryInv, CancelInv, Outstanding
<1>7. OneDriver'
  BY <1>1 DEF IInv, OneDriver, Drives
<1> QED BY <1>2, <1>3, <1>4, <1>5, <1>6, <1>7 DEF IInv

-----------------------------------------------------------------------------
(* The executors.                                                          *)

(* What an executor may return for an action in the present state.         *)
GoodResult(a, r) ==
  /\ r \in Result
  /\ r.state \in {"confirmed", "submitted", "needs_user", "failed"}
  /\ r.state = "submitted" => Outstanding(a) /\ (MethodOf(a) = "mailto" => sent[a])
  /\ r.code # "other" => ~Outstanding(a)
  /\ r.state # "needs_user" => ~session[a].open

(* An executor returns to the coordinator and has left the world as it is. *)
LEMMA ReturnStep ==
  ASSUME IInv, TypeOK', NEW t \in Task, NEW r, Drives(t, act[t]), GoodResult(act[t], r),
         Return(t, r, "record"), UNCHANGED <<row, memory, sent, history>>
  PROVE  IInv'
<1>1. /\ row' = row /\ up' = up /\ session' = session /\ sent' = sent /\ lock' = lock
      /\ contacts' = contacts /\ refused' = refused /\ act' = act /\ op' = op /\ rest' = rest
  BY DEF history, memory, Return
<1>2. /\ pc'[t] = "record" /\ result'[t] = r
      /\ \A u \in Task \ {t} : pc'[u] = pc[u] /\ result'[u] = result[u]
  BY DEF IInv, TypeOK, Return, Goto
<1>3. /\ ControlInv(t) /\ CallInv(t, act[t]) /\ act[t] \in Action
      /\ RowInv(act[t]) /\ SessionInv(act[t])
  BY DEF IInv, ControlInv, Drives
<1>4. ControlInv(t)'
  BY <1>1, <1>2, <1>3 DEF ControlInv, InCall, GoodResult, Drives
<1>5. RowInv(act[t])' /\ SessionInv(act[t])'
  BY <1>1, <1>3 DEF RowInv, SessionInv, RetryEligible, Outstanding
<1>6. CallInv(t, act[t])'
  BY <1>1, <1>2, <1>3 DEF CallInv, Drives, Outstanding, InCall, GoodResult
<1> QED BY <1>1, <1>2, <1>3, <1>4, <1>5, <1>6, DriverStep DEF InCall

(* What the invariant says of a task that works on an action. *)
LEMMA CallFacts ==
  ASSUME IInv, NEW t \in Task, pc[t] \in InCall, op[t] # "cancel"
  PROVE  /\ act[t] \in Action /\ Drives(t, act[t])
         /\ TypeOK /\ ControlInv(t) /\ CallInv(t, act[t]) /\ RowInv(act[t]) /\ SessionInv(act[t])
         /\ up /\ row[act[t]].state = "executing"
<1>1. act[t] \in Action /\ Drives(t, act[t]) /\ pc[t] # "idle"
  BY DEF IInv, ControlInv, Drives, InCall
<1> QED BY <1>1 DEF IInv, DownInv, CallInv

(* An unreadable stored payload ends a retry without a contact. *)
LEMMA RetryPayloadStep ==
  ASSUME IInv, TypeOK', NEW t \in Task, RetryPayloadUnavailable(t)
  PROVE  IInv'
<1>1. pc[t] = "call" /\ op[t] = "retry" BY DEF RetryPayloadUnavailable
<1>2. CallInv(t, act[t]) /\ SessionInv(act[t]) /\ ControlInv(t) /\ Drives(t, act[t])
  BY <1>1, CallFacts DEF InCall
<1>3. GoodResult(act[t], Res("failed", "other", FALSE))
  BY <1>1, <1>2 DEF GoodResult, Res, Result, Code, ActionState, SessionInv, ControlInv
<1> QED BY <1>2, <1>3, ReturnStep DEF RetryPayloadUnavailable, worldVars

(* The answers to a one-click POST keep the invariant. *)
LEMMA RfcReturnsStep ==
  ASSUME IInv, TypeOK', NEW t \in Task, RfcTargetRefused(t) \/ RfcAnswered(t)
  PROVE  IInv'
<1>1. pc[t] \in {"call", "posted"} /\ op[t] # "cancel"
  BY DEF IInv, ControlInv, RfcTargetRefused, RfcAnswered, Calls
<1>2. CallInv(t, act[t]) /\ SessionInv(act[t]) /\ ControlInv(t) /\ Drives(t, act[t])
  BY <1>1, CallFacts DEF InCall
<1>3. MethodOf(act[t]) = "rfc8058"
  BY <1>2 DEF RfcTargetRefused, RfcAnswered, Calls, ControlInv
<1>4. PICK r \in RfcOutcome : Return(t, r, "record") /\ (pc[t] = "call" => r.state = "failed")
  BY DEF RfcTargetRefused, RfcAnswered, Calls, RfcOutcome, Res
<1>5. GoodResult(act[t], r)
  <2>1. r \in Result
    BY <1>4, ResType, CodeType DEF RfcOutcome, ActionState
  <2>2. r.state \in {"submitted", "needs_user", "failed"} /\ r.code = "other"
    BY <1>4 DEF RfcOutcome, Res
  <2>3. ~session[act[t]].open /\ (pc[t] = "posted" => Outstanding(act[t]))
    BY <1>2, <1>3 DEF SessionInv, CallInv
  <2> QED BY <1>1, <1>3, <1>4, <2>1, <2>2, <2>3 DEF GoodResult
<1> QED BY <1>2, <1>4, <1>5, ReturnStep DEF RfcTargetRefused, RfcAnswered, worldVars

(* The answers of Gmail keep the invariant. *)
LEMMA MailReturnsStep ==
  ASSUME IInv, TypeOK', NEW t \in Task,
         MailUnauthorized(t) \/ MailAccepted(t) \/ MailFound(t) \/ MailNotFound(t)
  PROVE  IInv'
<1>1. pc[t] \in {"call", "sending", "lookup"} /\ op[t] # "cancel"
  BY DEF IInv, ControlInv, MailUnauthorized, MailAccepted, MailFound, MailNotFound, Calls
<1>2. CallInv(t, act[t]) /\ SessionInv(act[t]) /\ ControlInv(t) /\ Drives(t, act[t])
  BY <1>1, CallFacts DEF InCall
<1>3. MethodOf(act[t]) = "mailto"
  BY <1>1, <1>2 DEF MailUnauthorized, MailAccepted, MailFound, MailNotFound, Calls, ControlInv
<1>4. PICK r : /\ Return(t, r, "record")
               /\ \/ pc[t] = "call" /\ r = Res("needs_user", Unauthorized, FALSE)
                  \/ pc[t] # "call" /\ sent[act[t]] /\ r = Res("submitted", "other", TRUE)
                  \/ r = Res("needs_user", "other", FALSE)
  BY DEF MailUnauthorized, MailAccepted, MailFound, MailNotFound, Calls
<1>5. GoodResult(act[t], r)
  <2>1. r \in Result
    BY <1>4, ResType, CodeType DEF ActionState
  <2>2. /\ r.state = "needs_user" \/ (r.state = "submitted" /\ sent[act[t]] /\ pc[t] # "call")
        /\ r.code = "other" \/ pc[t] = "call"
    BY <1>4 DEF Res
  <2>3. /\ ~session[act[t]].open
        /\ pc[t] = "call" => ~Outstanding(act[t])
        /\ pc[t] # "call" => Outstanding(act[t])
    BY <1>1, <1>2, <1>3 DEF SessionInv, CallInv
  <2> QED BY <2>1, <2>2, <2>3 DEF GoodResult
<1> QED BY <1>2, <1>4, <1>5, ReturnStep
        DEF MailUnauthorized, MailAccepted, MailFound, MailNotFound, worldVars

(* The outcomes of the browser executor that keep the session keep the invariant. *)
LEMMA BrowserReturnsStep ==
  ASSUME IInv, TypeOK', NEW t \in Task, BrowserUnavailable(t) \/ BrowserPause(t)
  PROVE  IInv'
<1>1. pc[t] \in {"call", "advance", "clicked", "evaluate"} /\ op[t] # "cancel"
  BY DEF IInv, ControlInv, BrowserUnavailable, BrowserPause, Calls
<1>2. CallInv(t, act[t]) /\ ControlInv(t) /\ Drives(t, act[t])
  BY <1>1, CallFacts DEF InCall
<1>3. MethodOf(act[t]) = "browser"
  BY <1>1, <1>2 DEF BrowserUnavailable, BrowserPause, Calls, ControlInv
<1>4. PICK r : /\ Return(t, r, "record")
               /\ \/ pc[t] = "call" /\ r = Res("failed", "other", FALSE)
                  \/ \E e \in BOOLEAN : r = Res("needs_user", "other", e)
  BY DEF BrowserUnavailable, BrowserPause, Calls
<1>5. GoodResult(act[t], r)
  <2>1. r \in Result
    BY <1>4, ResType, CodeType DEF ActionState
  <2>2. r.code = "other" /\ (r.state = "needs_user" \/ (r.state = "failed" /\ pc[t] = "call"))
    BY <1>4 DEF Res
  <2>3. pc[t] = "call" => ~session[act[t]].open
    BY <1>2, <1>3 DEF CallInv
  <2> QED BY <2>1, <2>2, <2>3 DEF GoodResult
<1> QED BY <1>2, <1>4, <1>5, ReturnStep DEF BrowserUnavailable, BrowserPause, worldVars

(* The POST leaves the process.                                            *)
LEMMA RfcPostStep ==
  ASSUME IInv, TypeOK', NEW t \in Task, RfcPost(t)
  PROVE  IInv'
<1>1. pc[t] = "call" /\ op[t] # "cancel"
  BY DEF IInv, ControlInv, RfcPost, Calls
<1>2. PICK x \in Action :
        /\ x = act[t] /\ Drives(t, x) /\ row[x].state = "executing"
        /\ TypeOK /\ ControlInv(t) /\ CallInv(t, x) /\ RowInv(x) /\ SessionInv(x)
  BY <1>1, CallFacts DEF InCall
<1>3. MethodOf(x) = "rfc8058"
  BY <1>1, <1>2 DEF ControlInv, RfcPost, Calls
<1>4. /\ contacts[x] \in Nat /\ refused[x] \in Nat
      /\ row[x] \in Row /\ session[x] \in Session
  BY <1>2 DEF TypeOK
<1>5. /\ up' = up /\ lock' = lock /\ op' = op /\ act' = act /\ rest' = rest
      /\ pc'[t] = "posted"
      /\ \A u \in Task \ {t} : pc'[u] = pc[u] /\ result'[u] = result[u]
  BY <1>2 DEF TypeOK, RfcPost, Goto, Calls, Contact, memory, worldVars, history
<1>6. \A a \in Action \ {x} :
        /\ row'[a] = row[a] /\ session'[a] = session[a] /\ sent'[a] = sent[a]
        /\ contacts'[a] = contacts[a] /\ refused'[a] = refused[a]
  BY <1>2 DEF TypeOK, RfcPost, Goto, Calls, Contact, memory, worldVars, history
<1>7. /\ row'[x] = row[x] /\ sent'[x] = sent[x]
      /\ session'[x] = session[x]
      /\ contacts'[x] = contacts[x] + 1 /\ refused'[x] = refused[x]
  BY <1>2 DEF TypeOK, RfcPost, Goto, Calls, Contact, memory, worldVars, history
<1>9. /\ row'[x].state = row[x].state /\ session'[x].shown = session[x].shown
      /\ session'[x].open => session[x].open \/ pc[t] = "call"
  BY <1>1, <1>4, <1>7 DEF Row, Session
<1>10. ControlInv(t)'
  BY <1>1, <1>2, <1>3, <1>5 DEF TypeOK, Op, ControlInv, InCall, MethodOf
<1>11. RowInv(x)'
  BY <1>1, <1>2, <1>3, <1>4, <1>7 DEF RowInv, CallInv, Outstanding, RetryEligible, Row, MethodOf
<1>12. SessionInv(x)'
  BY <1>1, <1>2, <1>3, <1>4, <1>7 DEF SessionInv, CallInv, RowInv, Drives, Outstanding, Session, MethodOf
<1>13. CallInv(t, x)'
  BY <1>1, <1>2, <1>3, <1>4, <1>5, <1>7
  DEF CallInv, RowInv, SessionInv, Drives, InCall, Outstanding, Row, Session, MethodOf
<1> QED
  BY <1>1, <1>2, <1>5, <1>6, <1>7, <1>9, <1>10, <1>11, <1>12, <1>13, DriverStep DEF InCall

(* The server declined to process the POST.                                *)
LEMMA RfcTurnedAwayStep ==
  ASSUME IInv, TypeOK', NEW t \in Task, RfcTurnedAway(t)
  PROVE  IInv'
<1>1. pc[t] = "posted" /\ op[t] # "cancel"
  BY DEF IInv, ControlInv, RfcTurnedAway
<1>2. PICK x \in Action :
        /\ x = act[t] /\ Drives(t, x) /\ row[x].state = "executing"
        /\ TypeOK /\ ControlInv(t) /\ CallInv(t, x) /\ RowInv(x) /\ SessionInv(x)
  BY <1>1, CallFacts DEF InCall
<1>3. MethodOf(x) = "rfc8058"
  BY <1>1, <1>2 DEF ControlInv, RfcTurnedAway
<1>4. /\ contacts[x] \in Nat /\ refused[x] \in Nat
      /\ row[x] \in Row /\ session[x] \in Session
  BY <1>2 DEF TypeOK
<1>5. /\ up' = up /\ lock' = lock /\ op' = op /\ act' = act /\ rest' = rest
      /\ pc'[t] = "record"
      /\ \A u \in Task \ {t} : pc'[u] = pc[u] /\ result'[u] = result[u]
  BY <1>2 DEF TypeOK, RfcTurnedAway, Goto, Return, memory, worldVars, history
<1>6. \A a \in Action \ {x} :
        /\ row'[a] = row[a] /\ session'[a] = session[a] /\ sent'[a] = sent[a]
        /\ contacts'[a] = contacts[a] /\ refused'[a] = refused[a]
  BY <1>2 DEF TypeOK, RfcTurnedAway, Goto, Return, memory, worldVars, history
<1>7. /\ row'[x] = row[x] /\ sent'[x] = sent[x]
      /\ session'[x] = session[x]
      /\ contacts'[x] = contacts[x] /\ refused'[x] = refused[x] + 1
  BY <1>2 DEF TypeOK, RfcTurnedAway, Goto, Return, memory, worldVars, history
<1>8. result'[t] = Res("failed", Retryable, FALSE)
  BY <1>2 DEF TypeOK, RfcTurnedAway, Goto, Return, memory, worldVars, history
<1>9. /\ row'[x].state = row[x].state /\ session'[x].shown = session[x].shown
      /\ session'[x].open => session[x].open \/ pc[t] = "call"
  BY <1>1, <1>4, <1>7 DEF Row, Session
<1>10. ControlInv(t)'
  BY ZenonT(60), <1>1, <1>2, <1>3, <1>5, <1>8, ResType, CodeType DEF TypeOK, Op, ControlInv, InCall, MethodOf, ActionState
<1>11. RowInv(x)'
  BY <1>1, <1>2, <1>3, <1>4, <1>7 DEF RowInv, CallInv, Outstanding, RetryEligible, Row, MethodOf
<1>12. SessionInv(x)'
  BY <1>1, <1>2, <1>3, <1>4, <1>7 DEF SessionInv, CallInv, RowInv, Drives, Outstanding, Session, MethodOf
<1>13. CallInv(t, x)'
  BY <1>1, <1>2, <1>3, <1>4, <1>5, <1>7, <1>8
  DEF CallInv, RowInv, SessionInv, Drives, InCall, Outstanding, Row, Session, MethodOf, Res
<1> QED
  BY <1>1, <1>2, <1>5, <1>6, <1>7, <1>9, <1>10, <1>11, <1>12, <1>13, DriverStep DEF InCall

(* The Message-ID becomes durable.                                         *)
LEMMA MailJournalStep ==
  ASSUME IInv, TypeOK', NEW t \in Task, MailJournal(t)
  PROVE  IInv'
<1>1. pc[t] = "call" /\ op[t] # "cancel"
  BY DEF IInv, ControlInv, MailJournal, Calls
<1>2. PICK x \in Action :
        /\ x = act[t] /\ Drives(t, x) /\ row[x].state = "executing"
        /\ TypeOK /\ ControlInv(t) /\ CallInv(t, x) /\ RowInv(x) /\ SessionInv(x)
  BY <1>1, CallFacts DEF InCall
<1>3. MethodOf(x) = "mailto"
  BY <1>1, <1>2 DEF ControlInv, MailJournal, Calls
<1>4. /\ contacts[x] \in Nat /\ refused[x] \in Nat
      /\ row[x] \in Row /\ session[x] \in Session
  BY <1>2 DEF TypeOK
<1>5. /\ up' = up /\ lock' = lock /\ op' = op /\ act' = act /\ rest' = rest
      /\ pc'[t] = "send"
      /\ \A u \in Task \ {t} : pc'[u] = pc[u] /\ result'[u] = result[u]
  BY <1>2 DEF TypeOK, MailJournal, Goto, Calls, memory, worldVars, history
<1>6. \A a \in Action \ {x} :
        /\ row'[a] = row[a] /\ session'[a] = session[a] /\ sent'[a] = sent[a]
        /\ contacts'[a] = contacts[a] /\ refused'[a] = refused[a]
  BY <1>2 DEF TypeOK, MailJournal, Goto, Calls, memory, worldVars, history
<1>7. /\ row'[x] = [row[x] EXCEPT !.journaled = TRUE] /\ sent'[x] = sent[x]
      /\ session'[x] = session[x]
      /\ contacts'[x] = contacts[x] /\ refused'[x] = refused[x]
  BY <1>2 DEF TypeOK, MailJournal, Goto, Calls, memory, worldVars, history
<1>9. /\ row'[x].state = row[x].state /\ session'[x].shown = session[x].shown
      /\ session'[x].open => session[x].open \/ pc[t] = "call"
  BY <1>1, <1>4, <1>7 DEF Row, Session
<1>10. ControlInv(t)'
  BY <1>1, <1>2, <1>3, <1>5 DEF TypeOK, Op, ControlInv, InCall, MethodOf
<1>11. RowInv(x)'
  BY <1>1, <1>2, <1>3, <1>4, <1>7 DEF RowInv, CallInv, Outstanding, RetryEligible, Row, MethodOf
<1>12. SessionInv(x)'
  BY <1>1, <1>2, <1>3, <1>4, <1>7 DEF SessionInv, CallInv, RowInv, Drives, Outstanding, Session, MethodOf
<1>13. CallInv(t, x)'
  BY <1>1, <1>2, <1>3, <1>4, <1>5, <1>7
  DEF CallInv, RowInv, SessionInv, Drives, InCall, Outstanding, Row, Session, MethodOf
<1> QED
  BY <1>1, <1>2, <1>5, <1>6, <1>7, <1>9, <1>10, <1>11, <1>12, <1>13, DriverStep DEF InCall

(* The mail is handed to Gmail.                                            *)
LEMMA MailSendStep ==
  ASSUME IInv, TypeOK', NEW t \in Task, MailSend(t)
  PROVE  IInv'
<1>1. pc[t] = "send" /\ op[t] # "cancel"
  BY DEF IInv, ControlInv, MailSend
<1>2. PICK x \in Action :
        /\ x = act[t] /\ Drives(t, x) /\ row[x].state = "executing"
        /\ TypeOK /\ ControlInv(t) /\ CallInv(t, x) /\ RowInv(x) /\ SessionInv(x)
  BY <1>1, CallFacts DEF InCall
<1>3. MethodOf(x) = "mailto"
  BY <1>1, <1>2 DEF ControlInv, MailSend
<1>4. /\ contacts[x] \in Nat /\ refused[x] \in Nat
      /\ row[x] \in Row /\ session[x] \in Session
  BY <1>2 DEF TypeOK
<1>5. /\ up' = up /\ lock' = lock /\ op' = op /\ act' = act /\ rest' = rest
      /\ pc'[t] = "sending"
      /\ \A u \in Task \ {t} : pc'[u] = pc[u] /\ result'[u] = result[u]
  BY <1>2 DEF TypeOK, MailSend, Goto, Contact, memory, worldVars, history
<1>6. \A a \in Action \ {x} :
        /\ row'[a] = row[a] /\ session'[a] = session[a] /\ sent'[a] = sent[a]
        /\ contacts'[a] = contacts[a] /\ refused'[a] = refused[a]
  BY <1>2 DEF TypeOK, MailSend, Goto, Contact, memory, worldVars, history
<1>7. /\ row'[x] = row[x] /\ sent'[x] = sent[x]
      /\ session'[x] = session[x]
      /\ contacts'[x] = contacts[x] + 1 /\ refused'[x] = refused[x]
  BY <1>2 DEF TypeOK, MailSend, Goto, Contact, memory, worldVars, history
<1>9. /\ row'[x].state = row[x].state /\ session'[x].shown = session[x].shown
      /\ session'[x].open => session[x].open \/ pc[t] = "call"
  BY <1>1, <1>4, <1>7 DEF Row, Session
<1>10. ControlInv(t)'
  BY <1>1, <1>2, <1>3, <1>5 DEF TypeOK, Op, ControlInv, InCall, MethodOf
<1>11. RowInv(x)'
  BY <1>1, <1>2, <1>3, <1>4, <1>7 DEF RowInv, CallInv, Outstanding, RetryEligible, Row, MethodOf
<1>12. SessionInv(x)'
  BY <1>1, <1>2, <1>3, <1>4, <1>7 DEF SessionInv, CallInv, RowInv, Drives, Outstanding, Session, MethodOf
<1>13. CallInv(t, x)'
  BY <1>1, <1>2, <1>3, <1>4, <1>5, <1>7
  DEF CallInv, RowInv, SessionInv, Drives, InCall, Outstanding, Row, Session, MethodOf
<1> QED
  BY <1>1, <1>2, <1>5, <1>6, <1>7, <1>9, <1>10, <1>11, <1>12, <1>13, DriverStep DEF InCall

(* Gmail's answer does not arrive.                                         *)
LEMMA MailSendRaisesStep ==
  ASSUME IInv, TypeOK', NEW t \in Task, MailSendRaises(t)
  PROVE  IInv'
<1>1. pc[t] = "sending" /\ op[t] # "cancel"
  BY DEF IInv, ControlInv, MailSendRaises
<1>2. PICK x \in Action :
        /\ x = act[t] /\ Drives(t, x) /\ row[x].state = "executing"
        /\ TypeOK /\ ControlInv(t) /\ CallInv(t, x) /\ RowInv(x) /\ SessionInv(x)
  BY <1>1, CallFacts DEF InCall
<1>3. MethodOf(x) = "mailto"
  BY <1>1, <1>2 DEF ControlInv, MailSendRaises
<1>4. /\ contacts[x] \in Nat /\ refused[x] \in Nat
      /\ row[x] \in Row /\ session[x] \in Session
  BY <1>2 DEF TypeOK
<1>5. /\ up' = up /\ lock' = lock /\ op' = op /\ act' = act /\ rest' = rest
      /\ pc'[t] = "lookup"
      /\ \A u \in Task \ {t} : pc'[u] = pc[u] /\ result'[u] = result[u]
  BY <1>2 DEF TypeOK, MailSendRaises, Goto, memory, worldVars, history
<1>6. \A a \in Action \ {x} :
        /\ row'[a] = row[a] /\ session'[a] = session[a] /\ sent'[a] = sent[a]
        /\ contacts'[a] = contacts[a] /\ refused'[a] = refused[a]
  BY <1>2 DEF TypeOK, MailSendRaises, Goto, memory, worldVars, history
<1>7. /\ row'[x] = row[x] /\ sent'[x] = sent[x]
      /\ session'[x] = session[x]
      /\ contacts'[x] = contacts[x] /\ refused'[x] = refused[x]
  BY <1>2 DEF TypeOK, MailSendRaises, Goto, memory, worldVars, history
<1>9. /\ row'[x].state = row[x].state /\ session'[x].shown = session[x].shown
      /\ session'[x].open => session[x].open \/ pc[t] = "call"
  BY <1>1, <1>4, <1>7 DEF Row, Session
<1>10. ControlInv(t)'
  BY <1>1, <1>2, <1>3, <1>5 DEF TypeOK, Op, ControlInv, InCall, MethodOf
<1>11. RowInv(x)'
  BY <1>1, <1>2, <1>3, <1>4, <1>7 DEF RowInv, CallInv, Outstanding, RetryEligible, Row, MethodOf
<1>12. SessionInv(x)'
  BY <1>1, <1>2, <1>3, <1>4, <1>7 DEF SessionInv, CallInv, RowInv, Drives, Outstanding, Session, MethodOf
<1>13. CallInv(t, x)'
  BY <1>1, <1>2, <1>3, <1>4, <1>5, <1>7
  DEF CallInv, RowInv, SessionInv, Drives, InCall, Outstanding, Row, Session, MethodOf
<1> QED
  BY <1>1, <1>2, <1>5, <1>6, <1>7, <1>9, <1>10, <1>11, <1>12, <1>13, DriverStep DEF InCall

(* A browser session is opened.                                            *)
LEMMA BrowserOpenStep ==
  ASSUME IInv, TypeOK', NEW t \in Task, BrowserOpen(t)
  PROVE  IInv'
<1>1. pc[t] = "call" /\ op[t] # "cancel"
  BY DEF IInv, ControlInv, BrowserOpen, Calls
<1>2. PICK x \in Action :
        /\ x = act[t] /\ Drives(t, x) /\ row[x].state = "executing"
        /\ TypeOK /\ ControlInv(t) /\ CallInv(t, x) /\ RowInv(x) /\ SessionInv(x)
  BY <1>1, CallFacts DEF InCall
<1>3. MethodOf(x) = "browser"
  BY <1>1, <1>2 DEF ControlInv, BrowserOpen, Calls
<1>4. /\ contacts[x] \in Nat /\ refused[x] \in Nat
      /\ row[x] \in Row /\ session[x] \in Session
  BY <1>2 DEF TypeOK
<1>5. /\ up' = up /\ lock' = lock /\ op' = op /\ act' = act /\ rest' = rest
      /\ pc'[t] = "advance"
      /\ \A u \in Task \ {t} : pc'[u] = pc[u] /\ result'[u] = result[u]
  BY <1>2 DEF TypeOK, BrowserOpen, Goto, Calls, memory, worldVars, history
<1>6. \A a \in Action \ {x} :
        /\ row'[a] = row[a] /\ session'[a] = session[a] /\ sent'[a] = sent[a]
        /\ contacts'[a] = contacts[a] /\ refused'[a] = refused[a]
  BY <1>2 DEF TypeOK, BrowserOpen, Goto, Calls, memory, worldVars, history
<1>7. /\ row'[x] = row[x] /\ sent'[x] = sent[x]
      /\ session'[x] = [session[x] EXCEPT !.open = TRUE]
      /\ contacts'[x] = contacts[x] /\ refused'[x] = refused[x]
  BY <1>2 DEF TypeOK, BrowserOpen, Goto, Calls, memory, worldVars, history
<1>9. /\ row'[x].state = row[x].state /\ session'[x].shown = session[x].shown
      /\ session'[x].open => session[x].open \/ pc[t] = "call"
  BY <1>1, <1>4, <1>7 DEF Row, Session
<1>10. ControlInv(t)'
  BY <1>1, <1>2, <1>3, <1>5 DEF TypeOK, Op, ControlInv, InCall, MethodOf
<1>11. RowInv(x)'
  BY <1>1, <1>2, <1>3, <1>4, <1>7 DEF RowInv, CallInv, Outstanding, RetryEligible, Row, MethodOf
<1>12. SessionInv(x)'
  BY <1>1, <1>2, <1>3, <1>4, <1>7 DEF SessionInv, CallInv, RowInv, Drives, Outstanding, Session, MethodOf
<1>13. CallInv(t, x)'
  BY <1>1, <1>2, <1>3, <1>4, <1>5, <1>7
  DEF CallInv, RowInv, SessionInv, Drives, InCall, Outstanding, Row, Session, MethodOf
<1> QED
  BY <1>1, <1>2, <1>5, <1>6, <1>7, <1>9, <1>10, <1>11, <1>12, <1>13, DriverStep DEF InCall

(* The final control is clicked.                                           *)
LEMMA BrowserClickStep ==
  ASSUME IInv, TypeOK', NEW t \in Task, BrowserClick(t)
  PROVE  IInv'
<1>1. pc[t] = "advance" /\ op[t] # "cancel"
  BY DEF IInv, ControlInv, BrowserClick
<1>2. PICK x \in Action :
        /\ x = act[t] /\ Drives(t, x) /\ row[x].state = "executing"
        /\ TypeOK /\ ControlInv(t) /\ CallInv(t, x) /\ RowInv(x) /\ SessionInv(x)
  BY <1>1, CallFacts DEF InCall
<1>3. MethodOf(x) = "browser"
  BY <1>1, <1>2 DEF ControlInv, BrowserClick
<1>4. /\ contacts[x] \in Nat /\ refused[x] \in Nat
      /\ row[x] \in Row /\ session[x] \in Session
  BY <1>2 DEF TypeOK
<1>5. /\ up' = up /\ lock' = lock /\ op' = op /\ act' = act /\ rest' = rest
      /\ pc'[t] = "clicked"
      /\ \A u \in Task \ {t} : pc'[u] = pc[u] /\ result'[u] = result[u]
  BY <1>2 DEF TypeOK, BrowserClick, Goto, Contact, memory, worldVars, history
<1>6. \A a \in Action \ {x} :
        /\ row'[a] = row[a] /\ session'[a] = session[a] /\ sent'[a] = sent[a]
        /\ contacts'[a] = contacts[a] /\ refused'[a] = refused[a]
  BY <1>2 DEF TypeOK, BrowserClick, Goto, Contact, memory, worldVars, history
<1>7. /\ row'[x] = row[x] /\ sent'[x] = sent[x]
      /\ session'[x] = [session[x] EXCEPT !.clicked = TRUE]
      /\ contacts'[x] = contacts[x] + 1 /\ refused'[x] = refused[x]
  BY <1>2 DEF TypeOK, BrowserClick, Goto, Contact, memory, worldVars, history
<1>9. /\ row'[x].state = row[x].state /\ session'[x].shown = session[x].shown
      /\ session'[x].open => session[x].open \/ pc[t] = "call"
  BY <1>1, <1>4, <1>7 DEF Row, Session
<1>10. ControlInv(t)'
  BY <1>1, <1>2, <1>3, <1>5 DEF TypeOK, Op, ControlInv, InCall, MethodOf
<1>11. RowInv(x)'
  BY <1>1, <1>2, <1>3, <1>4, <1>7 DEF RowInv, CallInv, Outstanding, RetryEligible, Row, MethodOf
<1>12. SessionInv(x)'
  BY <1>1, <1>2, <1>3, <1>4, <1>7 DEF SessionInv, CallInv, RowInv, Drives, Outstanding, Session, MethodOf
<1>13. CallInv(t, x)'
  BY <1>1, <1>2, <1>3, <1>4, <1>5, <1>7
  DEF CallInv, RowInv, SessionInv, Drives, InCall, Outstanding, Row, Session, MethodOf
<1> QED
  BY <1>1, <1>2, <1>5, <1>6, <1>7, <1>9, <1>10, <1>11, <1>12, <1>13, DriverStep DEF InCall

-----------------------------------------------------------------------------
(* The coordinator.                                                        *)

(* Taking the lock and looking the idempotency keys up keeps the invariant. *)
LEMMA ConfirmEnterStep ==
  ASSUME IInv, TypeOK', NEW t \in Task, NEW p \in Plan, ConfirmEnter(t, p)
  PROVE  IInv'
<1>1. TypeOK /\ LockInv /\ DownInv /\ ControlInv(t) BY DEF IInv
<1>2. /\ pc'[t] \in {"authorize", "approve"} /\ op'[t] = "confirm" /\ act'[t] = p
      /\ rest'[t] = plan[p].items /\ lock' = t /\ up' = up /\ up
      /\ \A u \in Task \ {t} : /\ pc'[u] = pc[u] /\ op'[u] = op[u] /\ act'[u] = act[u]
                               /\ rest'[u] = rest[u] /\ result'[u] = result[u]
      /\ plan[p].items # {} /\ \A a \in plan[p].items : row[a].state = "absent"
      /\ lock = None /\ row' = row
  BY <1>1 DEF TypeOK, ConfirmEnter, Goto
<1>3. LockInv' /\ DownInv'
  BY <1>1, <1>2, ConstantsAssumption DEF LockInv, DownInv
<1>4. ControlInv(t)' /\ RestInv(t)' /\ RetryInv(t)' /\ CancelInv(t)'
  BY <1>2 DEF ControlInv, RestInv, RetryInv, CancelInv, InCall
<1>5. ASSUME NEW a \in Action PROVE CallInv(t, a)' /\ ~Drives(t, a)'
  BY <1>2 DEF CallInv, Drives, InCall
<1> QED BY <1>2, <1>3, <1>4, <1>5, LocalStep DEF ConfirmEnter, worldVars

(* The awaits of a confirmation keep the invariant. *)
LEMMA ConfirmMovesStep ==
  ASSUME IInv, TypeOK', NEW t \in Task, ConfirmAuthorized(t) \/ ConfirmPlan(t)
  PROVE  IInv'
<1>1. TypeOK /\ LockInv /\ DownInv /\ ControlInv(t) /\ RestInv(t) BY DEF IInv
<1>2. /\ pc[t] \in {"authorize", "approve"} /\ pc'[t] \in {"approve", "persist"}
      /\ pc[t] = "approve" => pc'[t] = "persist"
      /\ pc'[t] = "approve" => act'[t] = act[t]
      /\ op' = op /\ rest' = rest /\ result' = result /\ lock' = lock /\ up' = up
      /\ row' = row /\ session' = session
      /\ \A u \in Task \ {t} : pc'[u] = pc[u] /\ act'[u] = act[u]
  BY <1>1 DEF TypeOK, ConfirmAuthorized, ConfirmPlan, Goto, memory
<1>3. LockInv' /\ DownInv'
  BY <1>1, <1>2 DEF LockInv, DownInv, ControlInv
<1>4. ControlInv(t)' /\ RestInv(t)' /\ RetryInv(t)' /\ CancelInv(t)'
  BY <1>1, <1>2 DEF ControlInv, RestInv, RetryInv, CancelInv, InCall
<1>5. ASSUME NEW a \in Action PROVE CallInv(t, a)' /\ ~Drives(t, a)'
  BY <1>2 DEF CallInv, Drives, InCall
<1> QED BY <1>2, <1>3, <1>4, <1>5, LocalStep DEF ConfirmAuthorized, ConfirmPlan, worldVars

(* The end of the closing of a browser context keeps the invariant. *)
LEMMA BrowserClosedStep ==
  ASSUME IInv, TypeOK', NEW t \in Task, BrowserClosed(t)
  PROVE  IInv'
<1>1. /\ TypeOK /\ LockInv /\ DownInv /\ ControlInv(t) /\ RestInv(t) /\ CancelInv(t)
      /\ \A a \in Action : CallInv(t, a)
  BY DEF IInv
<1>2. /\ pc[t] = "closing" /\ pc'[t] = "record"
      /\ op' = op /\ rest' = rest /\ result' = result /\ lock' = lock /\ up' = up
      /\ act' = act /\ row' = row /\ session' = session
      /\ sent' = sent /\ contacts' = contacts /\ refused' = refused
      /\ \A u \in Task \ {t} : pc'[u] = pc[u]
  BY <1>1 DEF TypeOK, BrowserClosed, Goto, memory, worldVars, history
<1>3. LockInv' /\ DownInv'
  BY <1>1, <1>2 DEF LockInv, DownInv
<1>4. ControlInv(t)' /\ RestInv(t)' /\ RetryInv(t)' /\ CancelInv(t)'
  BY <1>1, <1>2 DEF ControlInv, RestInv, RetryInv, CancelInv, InCall
<1>5. ASSUME NEW a \in Action PROVE CallInv(t, a)' /\ (Drives(t, a)' => Drives(t, a))
  BY <1>1, <1>2 DEF CallInv, Drives, InCall, Outstanding
<1> QED BY <1>2, <1>3, <1>4, <1>5, LocalStep DEF history, IInv, OneDriver

(* An outcome that closes the browser session keeps the invariant. *)
LEMMA BrowserFinishStep ==
  ASSUME IInv, TypeOK', NEW t \in Task, BrowserFinish(t)
  PROVE  IInv'
<1>1. pc[t] \in {"advance", "clicked", "evaluate"} /\ op[t] # "cancel"
  BY DEF IInv, ControlInv, BrowserFinish
<1>2. PICK x \in Action :
        /\ x = act[t] /\ Drives(t, x) /\ row[x].state = "executing"
        /\ TypeOK /\ ControlInv(t) /\ CallInv(t, x) /\ RowInv(x) /\ SessionInv(x)
  BY <1>1, CallFacts DEF InCall
<1>3. MethodOf(x) = "browser"
  BY <1>1, <1>2 DEF ControlInv
<1>4. /\ contacts[x] \in Nat /\ refused[x] \in Nat /\ session[x] \in Session
  BY <1>2 DEF TypeOK
<1>5. PICK s \in BrowserOutcome(x) : Return(t, Res(s, "other", FALSE), "closing")
  BY <1>2 DEF BrowserFinish
<1>6. /\ up' = up /\ lock' = lock /\ op' = op /\ act' = act /\ rest' = rest /\ row' = row
      /\ sent' = sent /\ contacts' = contacts /\ refused' = refused
      /\ pc'[t] = "closing" /\ result'[t] = Res(s, "other", FALSE)
      /\ \A u \in Task \ {t} : pc'[u] = pc[u] /\ result'[u] = result[u]
      /\ session'[x] = [session[x] EXCEPT !.open = FALSE]
      /\ \A a \in Action \ {x} : session'[a] = session[a]
  BY <1>2, <1>5 DEF TypeOK, BrowserFinish, Return, Goto, worldVars, history
<1>7. /\ ~session'[x].open /\ session'[x].shown = session[x].shown
      /\ session'[x].clicked = session[x].clicked
  BY <1>4, <1>6 DEF Session
<1>8. s \in {"confirmed", "submitted", "failed"} /\ (s = "submitted" => Outstanding(x))
  BY <1>2, <1>3, <1>4 DEF BrowserOutcome, SessionInv, RowInv, Outstanding
<1>9. ControlInv(t)'
  <2>1. Res(s, "other", FALSE) \in Result
    BY <1>8, ResType, CodeType DEF ActionState
  <2> QED BY <1>1, <1>2, <1>3, <1>6, <2>1 DEF TypeOK, Op, ControlInv, InCall, MethodOf
<1>10. RowInv(x)' /\ SessionInv(x)'
  BY <1>2, <1>6, <1>7 DEF RowInv, SessionInv, RetryEligible, Outstanding
<1>11. CallInv(t, x)'
  BY <1>2, <1>3, <1>6, <1>7, <1>8 DEF CallInv, Drives, InCall, Outstanding, Res
<1> QED
  BY <1>1, <1>2, <1>6, <1>7, <1>9, <1>10, <1>11, DriverStep DEF InCall

(* All actions of a plan get their rows; no other task knows of them.      *)
LEMMA CreateConfirmedPlanStep ==
  ASSUME IInv, TypeOK', NEW t \in Task, CreateConfirmedPlan(t)
  PROVE  IInv'
<1>1. /\ TypeOK /\ LockInv /\ DownInv /\ ControlInv(t) /\ RestInv(t) BY DEF IInv
<1>2. /\ pc[t] = "persist" /\ pc'[t] = "start" /\ op[t] = "confirm"
      /\ \A u \in Task \ {t} : pc'[u] = pc[u]
      /\ op' = op /\ act' = act /\ rest' = rest /\ result' = result
      /\ lock' = lock /\ up' = up /\ session' = session
      /\ sent' = sent /\ contacts' = contacts /\ refused' = refused
  BY <1>1 DEF TypeOK, ControlInv, CreateConfirmedPlan, Goto, memory, worldVars, history
<1>3. /\ rest[t] \subseteq Action /\ \A a \in rest[t] : row[a].state = "absent"
      /\ \A a \in rest[t] : row'[a] = ConfirmedRow
      /\ \A a \in Action \ rest[t] : row'[a] = row[a]
  BY <1>1, <1>2 DEF TypeOK, RestInv, CreateConfirmedPlan
<1>4. /\ ConfirmedRow.state = "confirmed_by_user" /\ ConfirmedRow.retries = 0
      /\ ConfirmedRow.journaled = FALSE /\ ConfirmedRow.code = "other"
  BY DEF ConfirmedRow, NoRow
<1>5. LockInv' /\ DownInv'
  BY <1>1, <1>2 DEF LockInv, DownInv
<1>6. ASSUME NEW u \in Task PROVE ControlInv(u)'
  <2>1. ControlInv(u) BY DEF IInv
  <2> QED BY <1>1, <1>2, <2>1 DEF ControlInv, InCall
<1>7. ASSUME NEW a \in Action PROVE RowInv(a)' /\ SessionInv(a)'
  <2>1. RowInv(a) /\ SessionInv(a) BY DEF IInv
  <2>2. CASE a \in rest[t]
    BY <1>2, <1>3, <1>4, <2>1, <2>2 DEF RowInv, SessionInv, RetryEligible, Outstanding
  <2>3. CASE a \notin rest[t]
    BY <1>2, <1>3, <2>1, <2>3 DEF RowInv, SessionInv, RetryEligible, Outstanding
  <2> QED BY <2>2, <2>3
<1>8. ASSUME NEW u \in Task, NEW a \in Action PROVE CallInv(u, a)' /\ (Drives(u, a)' => Drives(u, a))
  <2>1. CallInv(u, a) BY DEF IInv
  <2>2. Drives(u, a)' => Drives(u, a)
    BY <1>2 DEF Drives, InCall
  <2>3. Drives(u, a) => row'[a] = row[a] /\ u # t
    BY <1>2, <1>3, <2>1 DEF CallInv, Drives, InCall
  <2> QED BY <1>2, <2>1, <2>2, <2>3 DEF CallInv, Outstanding
<1>9. ASSUME NEW u \in Task PROVE RestInv(u)'
  <2>1. CASE u = t
    BY <1>2, <1>3, <1>4, <2>1 DEF RestInv, InCall
  <2>2. CASE u # t
    <3>1. rest[u] = {}
      BY <1>1, <1>2, <2>2 DEF IInv, LockInv, ControlInv
    <3> QED BY <1>2, <3>1 DEF RestInv
  <2> QED BY <2>1, <2>2
<1>10. ASSUME NEW u \in Task PROVE RetryInv(u)' /\ CancelInv(u)'
  <2>1. RetryInv(u) /\ CancelInv(u) /\ ControlInv(u) BY DEF IInv
  <2>2. CancelInv(u)'
    BY <1>2, <2>1 DEF CancelInv
  <2>3. pc'[u] = "retrying" => pc[u] = "retrying" /\ act[u] \in Action /\ row'[act[u]] = row[act[u]]
    BY <1>2, <1>3, <2>1 DEF RetryInv, ControlInv
  <2> QED BY <1>2, <2>1, <2>2, <2>3 DEF RetryInv, Outstanding
<1>11. OneDriver'
  BY <1>8 DEF IInv, OneDriver
<1> QED BY <1>5, <1>6, <1>7, <1>8, <1>9, <1>10, <1>11 DEF IInv

(* The head of the coordinator's loop keeps the invariant. *)
LEMMA StartActionStep ==
  ASSUME IInv, TypeOK', NEW t \in Task, StartAction(t)
  PROVE  IInv'
<1>1. TypeOK /\ LockInv /\ DownInv /\ ControlInv(t) /\ RestInv(t) BY DEF IInv
<1>2. PICK x \in rest[t] : /\ SetState(x, "executing", "other", FALSE)
                           /\ act' = [act EXCEPT ![t] = x]
                           /\ rest' = [rest EXCEPT ![t] = @ \ {x}]
  BY DEF StartAction
<1>3. /\ x \in Action /\ row[x].state = "confirmed_by_user" /\ row[x].retries = 0 /\ row[x] \in Row
      /\ pc[t] = "start" /\ op[t] = "confirm" /\ RowInv(x) /\ SessionInv(x)
      /\ contacts[x] \in Nat /\ refused[x] \in Nat
  BY <1>1, <1>2 DEF IInv, TypeOK, RestInv, ControlInv, StartAction
<1>4. /\ pc'[t] = "call" /\ act'[t] = x /\ rest'[t] = rest[t] \ {x}
      /\ op' = op /\ result' = result /\ lock' = lock /\ up' = up /\ session' = session
      /\ sent' = sent /\ contacts' = contacts /\ refused' = refused
      /\ \A u \in Task \ {t} : pc'[u] = pc[u] /\ act'[u] = act[u] /\ rest'[u] = rest[u]
  BY <1>1, <1>2 DEF TypeOK, StartAction, Goto, memory, worldVars, history
<1>5. /\ row'[x] = [row[x] EXCEPT !.state = "executing", !.code = "other", !.ext = FALSE]
      /\ \A a \in Action \ {x} : row'[a] = row[a]
  BY <1>1, <1>2, <1>3 DEF TypeOK, SetState
<1>6. /\ row'[x].state = "executing" /\ row'[x].code = "other" /\ row'[x].retries = 0
      /\ row'[x].journaled = row[x].journaled
  BY <1>3, <1>5 DEF Row
<1>7. ASSUME NEW u \in Task \ {t} PROVE Unconcerned(u, x) /\ ~Drives(u, x)
  <2>1. ControlInv(u) /\ CallInv(u, x) BY <1>3 DEF IInv
  <2> QED BY <1>1, <1>3, <2>1 DEF Unconcerned, CallInv, LockInv, ControlInv
<1>8. LockInv' /\ DownInv' /\ ControlInv(t)'
  BY <1>1, <1>3, <1>4 DEF LockInv, DownInv, ControlInv, InCall
<1>9. contacts[x] = 0 /\ ~session[x].open /\ ~session[x].shown /\ refused[x] = 0
  BY <1>3 DEF RowInv, SessionInv
<1>10. RowInv(x)' /\ SessionInv(x)'
  BY <1>3, <1>4, <1>6, <1>9 DEF RowInv, SessionInv, RetryEligible, Outstanding
<1>11. ASSUME NEW a \in Action PROVE CallInv(t, a)' /\ (Drives(t, a)' => a = x)
  BY <1>4, <1>6, <1>9 DEF CallInv, Drives, Outstanding
<1>12. RestInv(t)' /\ RetryInv(t)' /\ CancelInv(t)'
  <2>1. \A a \in rest[t] \ {x} : row'[a] = row[a]
    BY <1>1, <1>5 DEF TypeOK
  <2> QED BY <1>1, <1>3, <1>4, <2>1 DEF RestInv, RetryInv, CancelInv, InCall
<1> QED BY <1>3, <1>4, <1>5, <1>7, <1>8, <1>9, <1>10, <1>11, <1>12, IsolationStep

(* Consuming the retry allowance keeps the invariant. *)
LEMMA RetryEnterStep ==
  ASSUME IInv, TypeOK', NEW t \in Task, NEW x \in Action, RetryEnter(t, x)
  PROVE  IInv'
<1>1. /\ TypeOK /\ LockInv /\ DownInv /\ ControlInv(t) /\ RowInv(x) /\ SessionInv(x)
  BY DEF IInv
<1>2. /\ RetryEligible(x) /\ row[x].retries = 0 /\ row[x].state \in {"failed", "needs_user"}
      /\ MethodOf(x) \in {"rfc8058", "mailto"} /\ row[x] \in Row
      /\ contacts[x] \in Nat /\ refused[x] \in Nat /\ pc[t] = "idle" /\ lock = None /\ up
  BY <1>1 DEF TypeOK, RetryEnter, RetryEligible
<1>3. /\ pc'[t] = "retrying" /\ op'[t] = "retry" /\ act'[t] = x /\ lock' = t /\ up' = up
      /\ rest' = rest /\ result' = result /\ session' = session
      /\ sent' = sent /\ contacts' = contacts /\ refused' = refused
      /\ \A u \in Task \ {t} : pc'[u] = pc[u] /\ op'[u] = op[u] /\ act'[u] = act[u]
  BY <1>1 DEF TypeOK, RetryEnter, Goto, worldVars, history
<1>4. /\ row'[x] = [row[x] EXCEPT !.retries = @ + 1]
      /\ \A a \in Action \ {x} : row'[a] = row[a]
  BY <1>1 DEF TypeOK, RetryEnter
<1>5. /\ row'[x].state = row[x].state /\ row'[x].code = row[x].code /\ row'[x].retries = 1
      /\ row'[x].journaled = row[x].journaled
  BY <1>2, <1>4 DEF Row
<1>6. ASSUME NEW u \in Task PROVE Unconcerned(u, x) /\ ~Drives(u, x) /\ rest[u] = {}
  <2>1. ControlInv(u) /\ CallInv(u, x) BY DEF IInv
  <2>2. op[u] \notin {"confirm", "retry"}
    BY <1>1, <1>2, ConstantsAssumption DEF LockInv
  <2> QED BY <1>2, <2>1, <2>2 DEF Unconcerned, CallInv, ControlInv
<1>7. LockInv' /\ DownInv'
  BY <1>1, <1>2, <1>3, ConstantsAssumption DEF LockInv, DownInv
<1>8. ControlInv(t)'
  BY <1>2, <1>3, <1>6 DEF ControlInv, InCall, MethodOf
<1>9. RowInv(x)' /\ SessionInv(x)'
  BY <1>1, <1>2, <1>3, <1>5 DEF RowInv, SessionInv, RetryEligible, Outstanding, MethodOf
<1>10. ASSUME NEW a \in Action PROVE CallInv(t, a)' /\ ~Drives(t, a)'
  BY <1>3 DEF CallInv, Drives, InCall
<1>11. RestInv(t)' /\ RetryInv(t)' /\ CancelInv(t)'
  BY <1>1, <1>2, <1>3, <1>5, <1>6 DEF RestInv, RetryInv, CancelInv, InCall, RowInv, Outstanding
<1> QED BY <1>3, <1>4, <1>6, <1>7, <1>8, <1>9, <1>10, <1>11, IsolationStep

(* Each transaction of a retry keeps the invariant. *)
LEMMA RetryAdvanceStep ==
  ASSUME IInv, TypeOK', NEW t \in Task, RetryAdvance(t)
  PROVE  IInv'
<1>1. pc[t] = "retrying" BY DEF RetryAdvance
<1>2. PICK x \in Action :
        /\ x = act[t] /\ op[t] = "retry" /\ MethodOf(x) # "browser" /\ row[x] \in Row
        /\ TypeOK /\ LockInv /\ DownInv /\ ControlInv(t) /\ RestInv(t) /\ RetryInv(t)
        /\ RowInv(x) /\ SessionInv(x) /\ contacts[x] \in Nat /\ refused[x] \in Nat
  BY <1>1 DEF IInv, TypeOK, ControlInv
<1>3. PICK s \in {"reviewed", "selected", "confirmed_by_user", "executing"} :
        /\ SetState(x, s, "other", FALSE)
        /\ pc' = [pc EXCEPT ![t] = IF s = "executing" THEN "call" ELSE "retrying"]
  <2>1. row[x].state \in DOMAIN RetryPath
    BY <1>2 DEF RetryAdvance
  <2>2. RetryPath[row[x].state] \in {"reviewed", "selected", "confirmed_by_user", "executing"}
    BY <2>1 DEF RetryPath
  <2> QED BY <1>2, <2>2 DEF RetryAdvance, Goto
<1>4. /\ pc'[t] = IF s = "executing" THEN "call" ELSE "retrying"
      /\ op' = op /\ act' = act /\ rest' = rest /\ result' = result
      /\ lock' = lock /\ up' = up /\ session' = session
      /\ sent' = sent /\ contacts' = contacts /\ refused' = refused
      /\ \A u \in Task \ {t} : pc'[u] = pc[u]
  BY <1>2, <1>3 DEF TypeOK, RetryAdvance, memory, worldVars, history
<1>5. /\ row'[x] = [row[x] EXCEPT !.state = s, !.code = "other", !.ext = FALSE]
      /\ \A a \in Action \ {x} : row'[a] = row[a]
  BY <1>2, <1>3 DEF TypeOK, SetState
<1>6. /\ row'[x].state = s /\ row'[x].code = "other" /\ row'[x].retries = row[x].retries
      /\ row'[x].journaled = row[x].journaled
  BY <1>2, <1>5 DEF Row
<1>7. row[x].retries = 1 /\ ~Outstanding(x) /\ contacts[x] <= 1 /\ row[x].state # "executing"
  BY <1>1, <1>2 DEF RetryInv
<1>8. ASSUME NEW u \in Task \ {t} PROVE Unconcerned(u, x) /\ ~Drives(u, x)
  <2>1. ControlInv(u) /\ CallInv(u, x) BY DEF IInv
  <2> QED BY <1>2, <1>7, <2>1 DEF Unconcerned, CallInv, LockInv, ControlInv
<1>9. LockInv' /\ DownInv' /\ ControlInv(t)'
  BY <1>1, <1>2, <1>4 DEF LockInv, DownInv, ControlInv, InCall, MethodOf
<1>10. RowInv(x)' /\ SessionInv(x)'
  BY <1>2, <1>4, <1>6, <1>7 DEF RowInv, SessionInv, RetryEligible, Outstanding, MethodOf
<1>11. ASSUME NEW a \in Action PROVE CallInv(t, a)' /\ (Drives(t, a)' => a = x)
  BY <1>2, <1>4, <1>6, <1>7 DEF CallInv, Drives, Outstanding, InCall, MethodOf
<1>12. RestInv(t)' /\ RetryInv(t)' /\ CancelInv(t)'
  BY <1>1, <1>2, <1>4, <1>6, <1>7 DEF RestInv, RetryInv, CancelInv, ControlInv, InCall, Outstanding
<1> QED BY <1>2, <1>4, <1>5, <1>8, <1>9, <1>10, <1>11, <1>12, IsolationStep DEF SessionInv

(* Recording a result keeps the invariant. *)
LEMMA RecordStep ==
  ASSUME IInv, TypeOK', NEW t \in Task, Record(t)
  PROVE  IInv'
<1>1. pc[t] = "record" BY DEF Record
<1>2. PICK x \in Action :
        /\ x = act[t] /\ row[x] \in Row /\ session[x] \in Session /\ result[t] \in Result
        /\ TypeOK /\ LockInv /\ DownInv /\ ControlInv(t) /\ CallInv(t, x) /\ RestInv(t)
        /\ CancelInv(t) /\ RowInv(x) /\ SessionInv(x) /\ contacts[x] \in Nat /\ refused[x] \in Nat
  BY <1>1 DEF IInv, TypeOK, ControlInv, InCall
<1> DEFINE res == result[t]
<1>3. /\ res.state \in Allowed[row[x].state]
      /\ row' = [row EXCEPT ![x] = [@ EXCEPT !.state = res.state, !.code = res.code, !.ext = res.ext]]
  BY <1>2 DEF Record, SetState
<1>4. /\ row'[x].state = res.state /\ row'[x].code = res.code
      /\ row'[x].retries = row[x].retries /\ row'[x].journaled = row[x].journaled
      /\ \A a \in Action \ {x} : row'[a] = row[a]
  BY <1>2, <1>3 DEF TypeOK, Row
<1>5. /\ session'[x].open = session[x].open /\ session'[x].clicked = session[x].clicked
      /\ session'[x].shown => session[x].shown \/ MethodOf(x) = "browser"
      /\ session[x].shown => session'[x].shown
      /\ \A a \in Action \ {x} : session'[a] = session[a]
  BY <1>2 DEF TypeOK, Record, Session
<1>6. /\ up' = up /\ sent' = sent /\ contacts' = contacts /\ refused' = refused
      /\ \A u \in Task \ {t} : /\ pc'[u] = pc[u] /\ op'[u] = op[u] /\ act'[u] = act[u]
                               /\ rest'[u] = rest[u] /\ result'[u] = result[u]
  BY <1>2 DEF TypeOK, Record, Goto, Leave, worldVars, history
<1>7. \/ /\ rest[t] # {} /\ pc'[t] = "start" /\ op'[t] = op[t] /\ rest'[t] = rest[t] /\ lock' = lock
      \/ /\ pc'[t] = "idle" /\ op'[t] = "none" /\ rest'[t] = {}
         /\ lock' = IF lock = t THEN None ELSE lock
  BY <1>2 DEF TypeOK, Record, Goto, Leave
<1>8. CASE op[t] # "cancel"
  <2>1. /\ Drives(t, x) /\ row[x].state = "executing"
        /\ res.state \in {"confirmed", "submitted", "needs_user", "failed"}
        /\ res.state = "submitted" => Outstanding(x) /\ (MethodOf(x) = "mailto" => sent[x])
        /\ res.code # "other" => ~Outstanding(x)
        /\ res.state # "needs_user" => ~session[x].open
    BY <1>1, <1>2, <1>8 DEF CallInv, Drives, InCall
  <2> QED
    <3>1. RowInv(x)' /\ SessionInv(x)'
      BY <1>2, <1>4, <1>5, <1>6, <2>1
      DEF RowInv, SessionInv, RetryEligible, Outstanding, MethodOf, Retryable, Unauthorized
    <3>2. ASSUME NEW u \in Task \ {t} PROVE Unconcerned(u, x)
      <4>1. ControlInv(u) /\ RestInv(u) /\ RetryInv(u) BY DEF IInv
      <4>2. ~Drives(u, x) BY <2>1 DEF IInv, OneDriver
      <4>3. x \notin rest[u]
        BY <1>2, <2>1, <4>1 DEF TypeOK, RestInv, ControlInv, InCall, PC
      <4> QED BY <2>1, <4>1, <4>2, <4>3 DEF Unconcerned, RetryInv
    <3>3. x \notin rest[t]
      BY <1>1, <1>2, <2>1 DEF RestInv, InCall
    <3>4. LockInv' /\ DownInv'
      BY <1>1, <1>2, <1>5, <1>6, <1>7, ConstantsAssumption DEF LockInv, DownInv
    <3>5. ControlInv(t)'
      BY <1>2, <1>7 DEF ControlInv, InCall
    <3>6. \A a \in Action : CallInv(t, a)' /\ ~Drives(t, a)'
      BY <1>7 DEF CallInv, Drives, InCall
    <3>7. RestInv(t)'
      <4>1. rest[t] \subseteq Action BY <1>2 DEF TypeOK
      <4>2. \A a \in rest[t] : row'[a] = row[a] BY <1>4, <3>3, <4>1
      <4> QED BY <1>1, <1>2, <1>7, <4>2 DEF RestInv, InCall
    <3>8. RetryInv(t)' /\ CancelInv(t)'
      BY <1>7, <1>8 DEF RetryInv, CancelInv
    <3> QED BY <1>4, <1>5, <1>6, <3>1, <3>2, <3>4, <3>5, <3>6, <3>7, <3>8, IsolationStep
<1>9. CASE op[t] = "cancel"
  <2>1. /\ res.state = "reviewed" /\ res.code = "other" /\ ~session[x].open /\ session[x].shown
        /\ rest[t] = {}
    BY <1>2, <1>9 DEF CancelInv, ControlInv, Res
  <2>2. row[x].state \in {"needs_user", "failed", "discovered"} /\ MethodOf(x) = "browser"
    BY <1>2, <1>3, <2>1 DEF SessionInv, Allowed, Row, RowState, ActionState
  <2>3. RowInv(x)' /\ SessionInv(x)'
    BY <1>2, <1>4, <1>5, <1>6, <2>1, <2>2
    DEF RowInv, SessionInv, RetryEligible, Outstanding, MethodOf
  <2>4. ASSUME NEW u \in Task \ {t} PROVE Unconcerned(u, x)
    <3>1. ControlInv(u) /\ RestInv(u) /\ CallInv(u, x) BY DEF IInv
    <3>2. x \notin rest[u]
      BY <1>2, <2>2, <3>1 DEF TypeOK, RestInv, ControlInv, InCall, PC
    <3> QED BY <2>2, <3>1, <3>2 DEF Unconcerned, CallInv, ControlInv
  <2>5. LockInv' /\ DownInv'
    BY <1>1, <1>2, <1>5, <1>6, <1>7, ConstantsAssumption DEF LockInv, DownInv
  <2>6. ControlInv(t)' /\ RestInv(t)' /\ RetryInv(t)' /\ CancelInv(t)'
    BY <1>7, <2>1 DEF ControlInv, InCall, RestInv, RetryInv, CancelInv
  <2>7. \A a \in Action : CallInv(t, a)' /\ ~Drives(t, a)'
    BY <1>7 DEF CallInv, Drives, InCall
  <2> QED BY <1>4, <1>5, <1>6, <2>3, <2>4, <2>5, <2>6, <2>7, IsolationStep
<1> QED BY <1>8, <1>9

-----------------------------------------------------------------------------
(* Browser sessions, Gmail, crashes and recovery.                          *)

(* Resuming a browser session, without the lock, keeps the invariant. *)
LEMMA ResumeBrowserStep ==
  ASSUME IInv, TypeOK', NEW t \in Task, NEW x \in Action, ResumeBrowser(t, x)
  PROVE  IInv'
<1>1. /\ TypeOK /\ LockInv /\ DownInv /\ ControlInv(t) /\ RowInv(x) /\ SessionInv(x)
  BY DEF IInv
<1>2. /\ session[x].open /\ session[x].shown /\ MethodOf(x) = "browser" /\ row[x] \in Row
      /\ row[x].state \in {"executing", "needs_user"}
      /\ contacts[x] \in Nat /\ refused[x] \in Nat /\ pc[t] = "idle" /\ up
  BY <1>1 DEF TypeOK, SessionInv, ResumeBrowser
<1>3. row[x].state = "needs_user" /\ SetState(x, "executing", "other", FALSE)
  BY <1>2 DEF ResumeBrowser, SetState, Allowed
<1>4. /\ pc'[t] = IF session[x].manual \/ session[x].clicked THEN "evaluate" ELSE "advance"
      /\ op'[t] = "resume" /\ act'[t] = x /\ lock' = lock /\ up' = up
      /\ rest' = rest /\ result' = result /\ session' = session
      /\ sent' = sent /\ contacts' = contacts /\ refused' = refused
      /\ \A u \in Task \ {t} : pc'[u] = pc[u] /\ op'[u] = op[u] /\ act'[u] = act[u]
  BY <1>1 DEF TypeOK, ResumeBrowser, Goto, memory, worldVars, history
<1>5. /\ row'[x] = [row[x] EXCEPT !.state = "executing", !.code = "other", !.ext = FALSE]
      /\ \A a \in Action \ {x} : row'[a] = row[a]
  BY <1>1, <1>3 DEF TypeOK, SetState
<1>6. /\ row'[x].state = "executing" /\ row'[x].code = "other" /\ row'[x].retries = row[x].retries
      /\ row'[x].journaled = row[x].journaled
  BY <1>2, <1>5 DEF Row
<1>7. ASSUME NEW u \in Task PROVE Unconcerned(u, x) /\ ~Drives(u, x)
  <2>1. ControlInv(u) /\ CallInv(u, x) /\ RestInv(u) BY DEF IInv
  <2>2. x \notin rest[u]
    BY <1>1, <1>3, <2>1 DEF TypeOK, RestInv, ControlInv, InCall, PC
  <2> QED BY <1>2, <1>3, <2>1, <2>2 DEF Unconcerned, CallInv, ControlInv
<1>8. LockInv' /\ DownInv' /\ ControlInv(t)'
  BY <1>1, <1>2, <1>4 DEF LockInv, DownInv, ControlInv, InCall, MethodOf
<1>9. RowInv(x)' /\ SessionInv(x)'
  BY <1>1, <1>2, <1>4, <1>6 DEF RowInv, SessionInv, RetryEligible, Outstanding, MethodOf
<1>10. ASSUME NEW a \in Action PROVE CallInv(t, a)' /\ (Drives(t, a)' => a = x)
  BY <1>1, <1>2, <1>4, <1>6 DEF CallInv, Drives, SessionInv
<1>11. RestInv(t)' /\ RetryInv(t)' /\ CancelInv(t)'
  BY <1>1, <1>2, <1>4 DEF RestInv, RetryInv, CancelInv, ControlInv
<1> QED BY <1>4, <1>5, <1>7, <1>8, <1>9, <1>10, <1>11, IsolationStep

(* A step that only closes a session, or marks it as taken over, disturbs  *)
(* nobody, not even a task that works on the action.                       *)
LEMMA SessionStep ==
  ASSUME IInv, TypeOK', NEW x \in Action,
         UNCHANGED <<row, up, sent, history>>,
         \A a \in Action \ {x} : session'[a] = session[a],
         session'[x].open => session[x].open,
         session'[x].shown = session[x].shown, session'[x].clicked = session[x].clicked
  PROVE  /\ \A a \in Action : RowInv(a)' /\ SessionInv(a)'
         /\ \A u \in Task, a \in Action :
              pc'[u] = pc[u] /\ op'[u] = op[u] /\ act'[u] = act[u] /\ result'[u] = result[u]
                => CallInv(u, a)'
         /\ \A u \in Task :
              pc'[u] = pc[u] /\ op'[u] = op[u] /\ act'[u] = act[u] /\ result'[u] = result[u]
                             /\ rest'[u] = rest[u]
                => RestInv(u)' /\ RetryInv(u)' /\ CancelInv(u)'
<1>1. /\ row' = row /\ sent' = sent /\ contacts' = contacts /\ refused' = refused
  BY DEF history
<1>2. \A a \in Action : /\ session'[a].open => session[a].open
                        /\ session'[a].shown = session[a].shown
                        /\ session'[a].clicked = session[a].clicked
  OBVIOUS
<1>3. ASSUME NEW a \in Action PROVE RowInv(a)' /\ SessionInv(a)'
  <2>1. RowInv(a) /\ SessionInv(a) BY DEF IInv
  <2> QED BY <1>1, <1>2, <2>1 DEF RowInv, SessionInv, RetryEligible, Outstanding, MethodOf
<1>4. ASSUME NEW u \in Task, NEW a \in Action,
             pc'[u] = pc[u], op'[u] = op[u], act'[u] = act[u], result'[u] = result[u]
      PROVE  CallInv(u, a)'
  <2>1. CallInv(u, a) BY DEF IInv
  <2> QED BY <1>1, <1>2, <1>4, <2>1 DEF CallInv, Drives, Outstanding, MethodOf
<1>5. ASSUME NEW u \in Task, pc'[u] = pc[u], op'[u] = op[u], act'[u] = act[u],
             result'[u] = result[u], rest'[u] = rest[u]
      PROVE  RestInv(u)' /\ RetryInv(u)' /\ CancelInv(u)'
  <2>1. RestInv(u) /\ RetryInv(u) /\ CancelInv(u) /\ ControlInv(u) BY DEF IInv
  <2>2. op[u] = "cancel" => act[u] \in Action
    BY <2>1 DEF ControlInv, InCall
  <2>3. RestInv(u)'   BY <1>1, <1>5, <2>1 DEF RestInv
  <2>4. RetryInv(u)'  BY <1>1, <1>5, <2>1 DEF RetryInv, Outstanding
  <2>5. CancelInv(u)' BY <1>2, <1>5, <2>1, <2>2 DEF CancelInv
  <2> QED BY <2>3, <2>4, <2>5
<1> QED BY <1>3, <1>4, <1>5

(* Cancelling a browser session, without the lock, keeps the invariant. *)
LEMMA CancelBrowserStep ==
  ASSUME IInv, TypeOK', NEW t \in Task, NEW x \in Action, CancelBrowser(t, x)
  PROVE  IInv'
<1>1. /\ TypeOK /\ LockInv /\ DownInv /\ ControlInv(t) /\ SessionInv(x)
  BY DEF IInv
<1>2. /\ session[x].open /\ session[x].shown /\ MethodOf(x) = "browser"
      /\ session[x] \in Session /\ pc[t] = "idle" /\ up
  BY <1>1 DEF TypeOK, SessionInv, CancelBrowser
<1>3. /\ pc'[t] = "closing" /\ op'[t] = "cancel" /\ act'[t] = x
      /\ result'[t] = Res("reviewed", "other", FALSE)
      /\ lock' = lock /\ up' = up /\ rest' = rest /\ row' = row
      /\ sent' = sent /\ contacts' = contacts /\ refused' = refused
      /\ \A u \in Task \ {t} : /\ pc'[u] = pc[u] /\ op'[u] = op[u] /\ act'[u] = act[u]
                               /\ result'[u] = result[u]
      /\ session'[x] = [session[x] EXCEPT !.open = FALSE]
      /\ \A a \in Action \ {x} : session'[a] = session[a]
  BY <1>1 DEF TypeOK, CancelBrowser, Goto, worldVars, history
<1>4. /\ ~session'[x].open /\ session'[x].shown = session[x].shown
      /\ session'[x].clicked = session[x].clicked
  BY <1>2, <1>3 DEF Session
<1>5. Res("reviewed", "other", FALSE) \in Result
  BY ResType, CodeType DEF ActionState
<1>6. LockInv' /\ DownInv' /\ ControlInv(t)'
  BY <1>1, <1>2, <1>3, <1>5 DEF LockInv, DownInv, ControlInv, InCall, MethodOf
<1>7. RestInv(t)' /\ RetryInv(t)' /\ CancelInv(t)'
  BY <1>1, <1>2, <1>3, <1>4 DEF RestInv, RetryInv, CancelInv, ControlInv, Res
<1>8. \A a \in Action : CallInv(t, a)' /\ ~Drives(t, a)'
  BY <1>3 DEF CallInv, Drives
<1>9. /\ \A a \in Action : RowInv(a)' /\ SessionInv(a)'
      /\ \A u \in Task \ {t} : RestInv(u)' /\ RetryInv(u)' /\ CancelInv(u)'
      /\ \A u \in Task \ {t}, a \in Action : CallInv(u, a)'
  BY <1>3, <1>4, SessionStep DEF history
<1>10. ASSUME NEW u \in Task PROVE ControlInv(u)'
  <2>1. CASE u = t
    BY <1>6, <2>1
  <2>2. CASE u # t
    BY <1>3, <2>2 DEF IInv, ControlInv
  <2> QED BY <2>1, <2>2
<1>11. OneDriver'
  BY <1>3, <1>8 DEF IInv, OneDriver, Drives
<1> QED BY <1>6, <1>7, <1>8, <1>9, <1>10, <1>11 DEF IInv

(* Manual takeover keeps the invariant. *)
LEMMA TakeOverStep ==
  ASSUME IInv, TypeOK', NEW x \in Action, TakeOver(x)
  PROVE  IInv'
<1>1. /\ TypeOK /\ LockInv /\ DownInv BY DEF IInv
<1>2. /\ up' = up /\ lock' = lock /\ row' = row /\ sent' = sent
      /\ contacts' = contacts /\ refused' = refused
      /\ pc' = pc /\ op' = op /\ act' = act /\ rest' = rest /\ result' = result
      /\ session'[x] = [session[x] EXCEPT !.manual = TRUE]
      /\ \A a \in Action \ {x} : session'[a] = session[a]
  BY <1>1 DEF TypeOK, TakeOver, taskVars, worldVars, history
<1>3. /\ session'[x].open = session[x].open /\ session'[x].shown = session[x].shown
      /\ session'[x].clicked = session[x].clicked
  BY <1>1, <1>2 DEF TypeOK, Session
<1>4. LockInv' /\ DownInv'
  BY <1>1, <1>2, <1>3 DEF LockInv, DownInv
<1>5. \A u \in Task : ControlInv(u)'
  BY <1>2 DEF IInv, ControlInv
<1>6. /\ \A a \in Action : RowInv(a)' /\ SessionInv(a)'
      /\ \A u \in Task : RestInv(u)' /\ RetryInv(u)' /\ CancelInv(u)'
      /\ \A u \in Task, a \in Action : CallInv(u, a)'
  BY <1>2, <1>3, SessionStep DEF history
<1>7. OneDriver'
  BY <1>2 DEF IInv, OneDriver, Drives
<1> QED BY <1>4, <1>5, <1>6, <1>7 DEF IInv

(* Gmail filing a mail, however late, keeps the invariant. *)
LEMMA GmailFilesStep ==
  ASSUME IInv, TypeOK', NEW x \in Action, GmailFiles(x)
  PROVE  IInv'
<1>1. /\ TypeOK /\ LockInv /\ DownInv BY DEF IInv
<1>2. /\ row' = row /\ up' = up /\ lock' = lock /\ session' = session
      /\ pc' = pc /\ op' = op /\ act' = act /\ rest' = rest /\ result' = result
      /\ contacts' = contacts /\ refused' = refused
      /\ sent'[x] /\ \A a \in Action \ {x} : sent'[a] = sent[a]
      /\ MethodOf(x) = "mailto" /\ contacts[x] > 0
  BY <1>1 DEF TypeOK, GmailFiles, memory, taskVars, history
<1>3. LockInv' /\ DownInv'
  BY <1>1, <1>2 DEF LockInv, DownInv
<1>4. \A u \in Task : ControlInv(u)'
  BY <1>2 DEF IInv, ControlInv
<1>5. ASSUME NEW a \in Action PROVE RowInv(a)' /\ SessionInv(a)'
  <2>1. RowInv(a) /\ SessionInv(a) BY DEF IInv
  <2> QED BY <1>2, <2>1 DEF RowInv, SessionInv, RetryEligible, Outstanding, MethodOf
<1>6. ASSUME NEW u \in Task, NEW a \in Action PROVE CallInv(u, a)'
  <2>1. CallInv(u, a) BY DEF IInv
  <2> QED BY <1>2, <2>1 DEF CallInv, Drives, Outstanding, MethodOf
<1>7. ASSUME NEW u \in Task PROVE RestInv(u)' /\ RetryInv(u)' /\ CancelInv(u)'
  <2>1. RestInv(u) /\ RetryInv(u) /\ CancelInv(u) BY DEF IInv
  <2>2. RestInv(u)'   BY <1>2, <2>1 DEF RestInv
  <2>3. RetryInv(u)'  BY <1>2, <2>1 DEF RetryInv, Outstanding
  <2>4. CancelInv(u)' BY <1>2, <2>1 DEF CancelInv
  <2> QED BY <2>2, <2>3, <2>4
<1>8. OneDriver'
  BY <1>2 DEF IInv, OneDriver, Drives
<1> QED BY <1>3, <1>4, <1>5, <1>6, <1>7, <1>8 DEF IInv

(* While no request runs and no session is open, only the rows matter.     *)
LEMMA QuietStep ==
  ASSUME IInv, TypeOK', LockInv', DownInv',
         \A t \in Task : pc'[t] = "idle" /\ op'[t] = "none" /\ rest'[t] = {},
         \A a \in Action : RowInv(a)' /\ SessionInv(a)'
  PROVE  IInv'
<1>1. ASSUME NEW t \in Task PROVE ControlInv(t)' /\ RestInv(t)' /\ RetryInv(t)' /\ CancelInv(t)'
  BY DEF ControlInv, RestInv, RetryInv, CancelInv, InCall
<1>2. ASSUME NEW t \in Task, NEW a \in Action PROVE CallInv(t, a)' /\ ~Drives(t, a)'
  BY DEF CallInv, Drives, InCall
<1>3. OneDriver'
  BY <1>2 DEF OneDriver
<1> QED BY <1>1, <1>2, <1>3 DEF IInv

(* The loss of the process's memory keeps the invariant. *)
LEMMA CrashStep ==
  ASSUME IInv, TypeOK', Crash
  PROVE  IInv'
<1>1. /\ ~up' /\ lock' = None /\ row' = row /\ sent' = sent
      /\ contacts' = contacts /\ refused' = refused
      /\ \A t \in Task : pc'[t] = "idle" /\ op'[t] = "none" /\ rest'[t] = {}
      /\ \A a \in Action : session'[a] = NoSession
  BY DEF Crash, worldVars, history
<1>2. LockInv' /\ DownInv'
  BY <1>1, ConstantsAssumption DEF LockInv, DownInv, NoSession
<1>3. ASSUME NEW a \in Action PROVE RowInv(a)' /\ SessionInv(a)'
  <2>1. RowInv(a) BY DEF IInv
  <2> QED BY <1>1, <2>1 DEF RowInv, SessionInv, RetryEligible, Outstanding, MethodOf, NoSession
<1> QED BY <1>1, <1>2, <1>3, QuietStep

(* Each step of startup recovery keeps the invariant. *)
LEMMA RecoveryInvStep ==
  ASSUME IInv, TypeOK', RecoveryStep
  PROVE  IInv'
<1>1. ~up /\ TypeOK /\ LockInv /\ DownInv
  BY DEF IInv, RecoveryStep, RecoverSentMail, RecoverInterrupted, RecoverUnstarted,
         RecoverLostSession, RecoveryDone, Recovers
<1>2. ASSUME NEW t \in Task PROVE pc[t] = "idle" /\ op[t] = "none" /\ rest[t] = {}
  BY <1>1 DEF IInv, DownInv, ControlInv
<1>3. ASSUME NEW x \in Action, NEW s \in {"submitted", "needs_user", "reviewed"}, NEW e \in BOOLEAN,
             SetState(x, s, "other", e), Recovers,
             row[x].state \in {"executing", "confirmed_by_user", "needs_user"},
             s = "submitted" => MethodOf(x) = "mailto" /\ sent[x]
      PROVE  IInv'
  <2>1. /\ row[x] \in Row /\ RowInv(x) /\ SessionInv(x) /\ ~session[x].open
        /\ contacts[x] \in Nat /\ refused[x] \in Nat
    BY <1>1 DEF IInv, TypeOK, DownInv
  <2>2. /\ pc' = pc /\ op' = op /\ rest' = rest /\ lock' = lock /\ up' = up /\ session' = session
        /\ sent' = sent /\ contacts' = contacts /\ refused' = refused
        /\ \A a \in Action \ {x} : row'[a] = row[a]
        /\ row'[x] = [row[x] EXCEPT !.state = s, !.code = "other", !.ext = e]
    BY <1>1, <1>3 DEF TypeOK, Recovers, SetState, memory, taskVars, worldVars, history
  <2>3. /\ row'[x].state = s /\ row'[x].code = "other" /\ row'[x].retries = row[x].retries
        /\ row'[x].journaled = row[x].journaled
    BY <2>1, <2>2 DEF Row
  <2>4. LockInv' /\ DownInv'
    BY <1>1, <2>2 DEF LockInv, DownInv
  <2>5. RowInv(x)' /\ SessionInv(x)'
    BY <1>3, <2>1, <2>2, <2>3 DEF RowInv, SessionInv, RetryEligible, Outstanding, MethodOf,
       Retryable, Unauthorized
  <2>6. ASSUME NEW a \in Action \ {x} PROVE RowInv(a)' /\ SessionInv(a)'
    <3>1. RowInv(a) /\ SessionInv(a) BY DEF IInv
    <3> QED BY <2>2, <3>1 DEF RowInv, SessionInv, RetryEligible, Outstanding, MethodOf
  <2> QED BY <1>2, <2>2, <2>4, <2>5, <2>6, QuietStep
<1>4. ASSUME NEW x \in Action,
             RecoverSentMail(x) \/ RecoverInterrupted(x) \/ RecoverUnstarted(x) \/ RecoverLostSession(x)
      PROVE  IInv'
  BY <1>3, <1>4 DEF RecoverSentMail, RecoverInterrupted, RecoverUnstarted, RecoverLostSession,
                    InState, LostSessions
<1>5. CASE RecoveryDone
  <2>1. /\ row' = row /\ lock' = lock /\ session' = session /\ sent' = sent
        /\ pc' = pc /\ op' = op /\ rest' = rest /\ up'
        /\ contacts' = contacts /\ refused' = refused
    BY <1>5 DEF RecoveryDone, taskVars, worldVars, history
  <2>2. LockInv' /\ DownInv'
    BY <1>1, <2>1 DEF LockInv, DownInv
  <2>3. ASSUME NEW a \in Action PROVE RowInv(a)' /\ SessionInv(a)'
    <3>1. RowInv(a) /\ SessionInv(a) BY DEF IInv
    <3> QED BY <2>1, <3>1 DEF RowInv, SessionInv, RetryEligible, Outstanding, MethodOf
  <2> QED BY <1>2, <2>1, <2>2, <2>3, QuietStep
<1> QED BY <1>4, <1>5 DEF RecoveryStep

-----------------------------------------------------------------------------
(* The initial states satisfy the invariant.                               *)
LEMMA InitInv == Init => IInv
<1> SUFFICES ASSUME Init PROVE IInv
  OBVIOUS
<1>1. NoRow \in Row
  BY CodeType DEF NoRow, Row, RowState
<1>2. TypeOK
  <2>1. /\ plan \in [Plan -> [items : SUBSET Action, confirmed : BOOLEAN]]
        /\ session \in [Action -> Session]
    BY DEF Init, NoPlan, NoSession, Session
  <2>2. /\ catalog \in [Candidate -> 0..MaxRevision] /\ row \in [Action -> Row]
        /\ crashes \in Nat /\ faults \in Nat /\ resumes \in Nat
    BY <1>1, ConstantsAssumption DEF Init
  <2> QED BY <2>1, <2>2 DEF Init, TypeOK, PC, Op
<1>3. \A t \in Task : pc[t] = "idle" /\ op[t] = "none" /\ rest[t] = {}
  BY DEF Init
<1>4. LockInv /\ DownInv
  BY <1>3, ConstantsAssumption DEF Init, LockInv, DownInv, NoSession
<1>5. ASSUME NEW t \in Task PROVE ControlInv(t) /\ RestInv(t) /\ RetryInv(t) /\ CancelInv(t)
  BY <1>3 DEF ControlInv, RestInv, RetryInv, CancelInv, InCall
<1>6. ASSUME NEW a \in Action PROVE RowInv(a) /\ SessionInv(a)
  BY DEF Init, RowInv, SessionInv, RetryEligible, Outstanding, NoRow, NoSession
<1>7. ASSUME NEW t \in Task, NEW a \in Action PROVE CallInv(t, a) /\ ~Drives(t, a)
  BY <1>3 DEF CallInv, Drives, InCall
<1> QED BY <1>2, <1>4, <1>5, <1>6, <1>7 DEF IInv, OneDriver

(* Every step preserves the invariant.                                     *)
LEMMA NextInv == IInv /\ [Next]_vars => IInv'
<1> SUFFICES ASSUME IInv, [Next]_vars PROVE IInv'
  OBVIOUS
<1>1. TypeOK'
  <2>1. CASE Next
    BY <2>1, NextType
  <2>2. CASE UNCHANGED vars
    BY <2>2 DEF IInv, TypeOK, vars, memory, taskVars, worldVars, history, bounds
  <2> QED BY <2>1, <2>2
<1>2. CASE UNCHANGED vars
  BY <1>1, <1>2, FrameStep DEF vars, memory, taskVars, worldVars, history
<1>3. ASSUME NEW t \in Task, UserStep(t) PROVE IInv'
  BY <1>1, <1>3, ConfirmEnterStep, RetryEnterStep, ResumeBrowserStep, CancelBrowserStep
  DEF UserStep
<1>4. ASSUME NEW t \in Task, ConfirmStep(t) PROVE IInv'
  <2>1. CASE ConfirmUnauthorized(t) \/ ConfirmStale(t)
    BY <1>1, <2>1, LeaveStep DEF ConfirmUnauthorized, ConfirmStale, worldVars
  <2> QED BY <1>1, <1>4, <2>1, ConfirmMovesStep, CreateConfirmedPlanStep, StartActionStep
          DEF ConfirmStep
<1>5. ASSUME NEW t \in Task, ExecutorStep(t) PROVE IInv'
  BY <1>1, <1>5, RfcReturnsStep, RfcPostStep, RfcTurnedAwayStep,
     MailReturnsStep, MailJournalStep, MailSendStep, MailSendRaisesStep,
     BrowserReturnsStep, BrowserOpenStep, BrowserClickStep, BrowserFinishStep, BrowserClosedStep
  DEF ExecutorStep
<1>6. ASSUME NEW t \in Task, TaskStep(t) PROVE IInv'
  <2>1. CASE RecordRejected(t)
    BY <1>1, <2>1, LeaveStep DEF RecordRejected, worldVars
  <2> QED BY <1>1, <1>4, <1>5, <1>6, <2>1, RetryAdvanceStep, RetryPayloadStep, RecordStep
          DEF TaskStep
<1>7. ASSUME NEW t \in Task, Raise(t) PROVE IInv'
  BY <1>1, <1>7, LeaveStep DEF Raise, worldVars
<1>8. CASE RecoveryStep
  BY <1>1, <1>8, RecoveryInvStep
<1>9. CASE EnvironmentStep
  <2>1. ASSUME \/ \E c \in Candidate : Discover(c) \/ Correct(c)
               \/ \E p \in Plan, S \in SUBSET Candidate : CreatePlan(p, S)
               \/ ChangeScope
        PROVE  IInv'
    BY <1>1, <2>1, FrameStep DEF Discover, Correct, CreatePlan, ChangeScope, memory, worldVars
  <2> QED BY <1>1, <1>9, <2>1, TakeOverStep, GmailFilesStep, CrashStep DEF EnvironmentStep
<1> QED BY <1>2, <1>3, <1>6, <1>7, <1>8, <1>9 DEF Next

(* The inductive invariant holds in every reachable state.                 *)
THEOREM Invariance == Spec => []IInv
BY InitInv, NextInv, PTL DEF Spec

(* TypeOK: the variables keep their types.                                 *)
THEOREM TypeCorrect == Spec => []TypeOK
<1>1. IInv => TypeOK
  BY DEF IInv
<1> QED BY Invariance, <1>1, PTL

(* Through confirmation, retry, resume and restart, a side effect that may *)
(* have happened is never repeated.                                        *)
THEOREM SideEffectOnce == Spec => []NoRepeatedSideEffect
<1>1. IInv => NoRepeatedSideEffect
  <2> SUFFICES ASSUME IInv, NEW a \in Action
               PROVE  contacts[a] <= refused[a] + 1 /\ contacts[a] <= 2
    BY DEF NoRepeatedSideEffect
  <2>1. RowInv(a) /\ row[a] \in Row /\ contacts[a] \in Nat
    BY DEF IInv, TypeOK
  <2> QED BY <2>1 DEF RowInv, Row
<1> QED BY Invariance, <1>1, PTL

(* review_and_retry is open only to actions nothing of which can be in     *)
(* effect.                                                                 *)
THEOREM RetryIsSafe == Spec => []RetryOnlyWithoutEffect
<1>1. IInv => RetryOnlyWithoutEffect
  BY DEF IInv, RowInv, RetryOnlyWithoutEffect
<1> QED BY Invariance, <1>1, PTL

(* The outcome "submitted" is always backed by a contact.                  *)
THEOREM SubmittedTruthful == Spec => []SubmittedIsBacked
<1>1. IInv => SubmittedIsBacked
  BY DEF IInv, RowInv, SubmittedIsBacked
<1> QED BY Invariance, <1>1, PTL

(* What a crash could interrupt is in the database before it happens.      *)
THEOREM WriteAhead == Spec => []IntentIsDurable
<1>1. IInv => IntentIsDurable
  BY DEF IInv, RowInv, CallInv, IntentIsDurable
<1> QED BY Invariance, <1>1, PTL

(* No two requests ever work on the same action at the same time.          *)
THEOREM SingleDriver == Spec => []OneDriver
<1>1. IInv => OneDriver
  BY DEF IInv
<1> QED BY Invariance, <1>1, PTL

-----------------------------------------------------------------------------
(* The server is posted to, a mail is sent or a control is clicked only by *)
(* a task whose action is executing, when nothing done for it before can   *)
(* be in effect and the allowance for one more is spent; of a mail, when   *)
(* its Message-ID is in the row.  Each step makes one contact              *)
(* (Rfc8058Executor.execute, MailtoExecutor.execute, BrowserExecutor).     *)
THEOREM ContactIsIntended ==
  Spec => [][\A a \in Action : contacts'[a] # contacts[a] =>
               /\ contacts'[a] = contacts[a] + 1
               /\ row[a].state = "executing"
               /\ ~Outstanding(a) /\ contacts[a] <= row[a].retries
               /\ MethodOf(a) = "mailto" => row[a].journaled]_vars
<1> DEFINE Intended(a) ==
             /\ contacts'[a] = contacts[a] + 1
             /\ row[a].state = "executing"
             /\ ~Outstanding(a) /\ contacts[a] <= row[a].retries
             /\ MethodOf(a) = "mailto" => row[a].journaled
           A == \A a \in Action : contacts'[a] # contacts[a] => Intended(a)
<1>1. IInv /\ [Next]_vars => [A]_vars
  <2> SUFFICES ASSUME IInv, Next, NEW a \in Action, contacts'[a] # contacts[a]
               PROVE  Intended(a)
    OBVIOUS
  <2>1. PICK t \in Task : RfcPost(t) \/ MailSend(t) \/ BrowserClick(t)
    <3>1. CASE \E t \in Task : ExecutorStep(t)
      BY <3>1 DEF ExecutorStep, RfcTargetRefused, RfcAnswered, RfcTurnedAway, MailUnauthorized,
                  MailJournal, MailAccepted, MailSendRaises, MailFound, MailNotFound,
                  BrowserUnavailable, BrowserOpen, BrowserPause, BrowserFinish, BrowserClosed,
                  history
    <3>2. CASE \E t \in Task : TaskStep(t) /\ ~ExecutorStep(t)
      BY <3>2 DEF TaskStep, ConfirmStep, ConfirmAuthorized, ConfirmUnauthorized, ConfirmPlan,
                  ConfirmStale, CreateConfirmedPlan, StartAction, RetryAdvance,
                  RetryPayloadUnavailable, Record, RecordRejected, history
    <3>3. CASE \E t \in Task : UserStep(t) \/ Raise(t)
      BY ZenonT(60), <3>3 DEF UserStep, ConfirmEnter, RetryEnter, ResumeBrowser, CancelBrowser, Raise, history
    <3>4. CASE RecoveryStep
      BY <3>4 DEF RecoveryStep, RecoverSentMail, RecoverInterrupted, RecoverUnstarted,
                  RecoverLostSession, RecoveryDone, Recovers, history
    <3>5. CASE EnvironmentStep
      BY <3>5 DEF EnvironmentStep, Discover, Correct, CreatePlan, TakeOver, GmailFiles, ChangeScope,
                  Crash, history
    <3> QED BY <3>1, <3>2, <3>3, <3>4, <3>5 DEF Next
  <2>2. /\ pc[t] \in {"call", "send", "advance"} /\ ControlInv(t) /\ TypeOK
        /\ contacts' = [contacts EXCEPT ![act[t]] = @ + 1]
        /\ pc[t] = "call" => MethodOf(act[t]) = "rfc8058"
    BY <2>1 DEF RfcPost, MailSend, BrowserClick, Calls, Contact, IInv
  <2>3. act[t] = a /\ contacts'[a] = contacts[a] + 1
    BY <2>2 DEF TypeOK
  <2>4. Drives(t, a)
    BY <2>2, <2>3 DEF ControlInv, InCall, Drives
  <2>5. CallInv(t, a) /\ RowInv(a) /\ row[a] \in Row /\ contacts[a] \in Nat /\ refused[a] \in Nat
    BY DEF IInv, TypeOK
  <2>6. pc[t] = "send" => row[a].journaled
    BY <2>4, <2>5 DEF CallInv
  <2>7. pc[t] # "send" => MethodOf(a) # "mailto"
    BY <2>2, <2>3 DEF ControlInv
  <2>8. row[a].state = "executing" /\ ~Outstanding(a) /\ contacts[a] <= row[a].retries
    BY <2>2, <2>4, <2>5 DEF CallInv, Outstanding, Row
  <2> QED BY <2>3, <2>6, <2>7, <2>8
<1>2. Spec => [][A]_vars
  BY <1>1, Invariance, PTL DEF Spec
<1> QED BY <1>2

(* Which rows a step writes, and what of them.                             *)
Rewritten(a) ==
  \/ row'[a] = row[a]
  \/ \E s, c, e : s \in Allowed[row[a].state]
                 /\ row'[a] = [row[a] EXCEPT !.state = s, !.code = c, !.ext = e]
  \/ row[a].state = "absent" /\ row'[a] = ConfirmedRow
  \/ RetryEligible(a) /\ row'[a] = [row[a] EXCEPT !.retries = @ + 1]
  \/ row[a].state = "executing" /\ row'[a] = [row[a] EXCEPT !.journaled = TRUE]

(* A row is only ever inserted, moved along the transition table, charged  *)
(* with a retry or given its Message-ID.                                   *)
LEMMA RowIsRewritten ==
  ASSUME IInv, [Next]_vars, NEW a \in Action
  PROVE  Rewritten(a)
<1>0. TypeOK
  BY DEF IInv
<1>1. CASE row' = row
  BY <1>1 DEF Rewritten
<1>2. ASSUME NEW x \in Action, NEW s, NEW c, NEW e, SetState(x, s, c, e)
      PROVE  Rewritten(a)
  BY <1>0, <1>2 DEF SetState, Rewritten, TypeOK
<1>3. ASSUME NEW t \in Task, CreateConfirmedPlan(t)
      PROVE  Rewritten(a)
  <2>1. row'[a] = row[a] \/ (a \in rest[t] /\ row'[a] = ConfirmedRow)
    BY <1>3 DEF CreateConfirmedPlan
  <2>2. a \in rest[t] => row[a].state = "absent"
    BY <1>3 DEF CreateConfirmedPlan, IInv, RestInv
  <2> QED BY <2>1, <2>2 DEF Rewritten
<1>4. ASSUME NEW t \in Task, NEW x \in Action, RetryEnter(t, x)
      PROVE  Rewritten(a)
  BY <1>0, <1>4 DEF RetryEnter, Rewritten, TypeOK
<1>5. ASSUME NEW t \in Task, MailJournal(t)
      PROVE  Rewritten(a)
  <2>1. pc[t] = "call" /\ row' = [row EXCEPT ![act[t]].journaled = TRUE]
    BY <1>5 DEF MailJournal, Calls
  <2>2. act[t] \in Action /\ Drives(t, act[t])
    BY <2>1 DEF IInv, ControlInv, InCall, Drives
  <2>3. row[act[t]].state = "executing"
    BY <2>2 DEF IInv, CallInv
  <2>4. row' = [row EXCEPT ![act[t]] = [row[act[t]] EXCEPT !.journaled = TRUE]]
    BY <2>1
  <2> QED BY <1>0, <2>2, <2>3, <2>4 DEF Rewritten, TypeOK
<1>6. ASSUME NEW t \in Task, TaskStep(t)
      PROVE  Rewritten(a)
  <2>1. CASE ConfirmStep(t)
    BY <1>0, <1>1, <1>2, <1>3, <2>1
       DEF ConfirmStep, ConfirmAuthorized, ConfirmUnauthorized, ConfirmPlan, ConfirmStale,
           StartAction, TypeOK
  <2>2. CASE ExecutorStep(t)
    BY <1>1, <1>5, <2>2
       DEF ExecutorStep, RfcTargetRefused, RfcPost, RfcAnswered, RfcTurnedAway, MailUnauthorized,
           MailSend, MailAccepted, MailSendRaises, MailFound, MailNotFound, BrowserUnavailable,
           BrowserOpen, BrowserClick, BrowserPause, BrowserFinish, BrowserClosed
  <2>3. CASE RetryAdvance(t) \/ Record(t)
    <3>1. act[t] \in Action
      BY <2>3 DEF RetryAdvance, Record, IInv, ControlInv, InCall
    <3> QED BY <1>2, <2>3, <3>1 DEF RetryAdvance, Record
  <2>4. CASE RetryPayloadUnavailable(t) \/ RecordRejected(t)
    BY <1>1, <2>4 DEF RetryPayloadUnavailable, RecordRejected
  <2> QED BY <1>6, <2>1, <2>2, <2>3, <2>4 DEF TaskStep
<1>7. ASSUME NEW t \in Task, UserStep(t)
      PROVE  Rewritten(a)
  BY <1>1, <1>2, <1>4, <1>7 DEF UserStep, ConfirmEnter, ResumeBrowser, CancelBrowser
<1>8. CASE RecoveryStep
  BY <1>1, <1>2, <1>8
     DEF RecoveryStep, RecoverSentMail, RecoverInterrupted, RecoverUnstarted, RecoverLostSession,
         RecoveryDone
<1> QED BY <1>1, <1>6, <1>7, <1>8
        DEF Next, EnvironmentStep, Discover, Correct, CreatePlan, TakeOver, GmailFiles, ChangeScope,
            Crash, Raise, vars

(* An action without a row has nothing on record.                          *)
AbsentIsEmpty == \A a \in Action : row[a].state = "absent" => row[a] = NoRow

(* It stays so until the row is inserted.                                  *)
LEMMA NothingWithoutRow == Spec => []AbsentIsEmpty
<1>1. Init => AbsentIsEmpty
  BY DEF Init, AbsentIsEmpty
<1>2. IInv /\ AbsentIsEmpty /\ [Next]_vars => AbsentIsEmpty'
  <2> SUFFICES ASSUME IInv, AbsentIsEmpty, [Next]_vars, NEW a \in Action, row'[a].state = "absent"
               PROVE  row'[a] = row[a] /\ row[a].state = "absent"
    BY DEF AbsentIsEmpty
  <2>1. Rewritten(a) /\ row[a] \in Row
    BY RowIsRewritten DEF IInv, TypeOK
  <2>2. ASSUME NEW s, NEW c, NEW e, s \in Allowed[row[a].state],
               row'[a] = [row[a] EXCEPT !.state = s, !.code = c, !.ext = e]
        PROVE  FALSE
    <3>1. s # "absent"
      BY <2>1, <2>2 DEF Row, RowState, ActionState, Allowed
    <3> QED BY <2>1, <2>2, <3>1 DEF Row
  <2>3. row'[a] # ConfirmedRow
    BY DEF ConfirmedRow, NoRow
  <2>4. ~(RetryEligible(a) /\ row'[a] = [row[a] EXCEPT !.retries = @ + 1])
    BY <2>1 DEF RetryEligible, Row
  <2>5. ~(row[a].state = "executing" /\ row'[a] = [row[a] EXCEPT !.journaled = TRUE])
    BY <2>1 DEF Row
  <2> QED BY <2>1, <2>2, <2>3, <2>4, <2>5 DEF Rewritten
<1> QED BY <1>1, <1>2, Invariance, PTL DEF Spec

(* What the database once says of an action stands, through every request, *)
(* crash and recovery: no row disappears, a spent retry allowance is never *)
(* given back, a Message-ID is never withdrawn, and a row with the outcome *)
(* confirmed or submitted is never written again (ActionRepository).       *)
THEOREM RecordStands ==
  Spec => [][\A a \in Action :
               /\ row[a].state # "absent" => row'[a].state # "absent"
               /\ row[a].retries <= row'[a].retries
               /\ row[a].journaled => row'[a].journaled
               /\ row[a].state \in {"confirmed", "submitted"} => row'[a] = row[a]]_vars
<1> DEFINE Stands(a) ==
             /\ row[a].state # "absent" => row'[a].state # "absent"
             /\ row[a].retries <= row'[a].retries
             /\ row[a].journaled => row'[a].journaled
             /\ row[a].state \in {"confirmed", "submitted"} => row'[a] = row[a]
           A == \A a \in Action : Stands(a)
<1>1. IInv /\ AbsentIsEmpty /\ [Next]_vars => [A]_vars
  <2> SUFFICES ASSUME IInv, AbsentIsEmpty, Next, NEW a \in Action
               PROVE  Stands(a)
    OBVIOUS
  <2>0. Rewritten(a) /\ row[a] \in Row
    BY RowIsRewritten DEF IInv, TypeOK
  <2>1. CASE row'[a] = row[a]
    BY <2>0, <2>1 DEF Row
  <2>2. ASSUME NEW s, NEW c, NEW e, s \in Allowed[row[a].state],
               row'[a] = [row[a] EXCEPT !.state = s, !.code = c, !.ext = e]
        PROVE  Stands(a)
    <3>1. /\ s # "absent" /\ row[a].state \notin {"confirmed", "submitted"}
      BY <2>0, <2>2 DEF Row, RowState, ActionState, Allowed
    <3>2. row'[a].state = s /\ row'[a].retries = row[a].retries /\ row'[a].journaled = row[a].journaled
          /\ row[a].retries \in 0..1
      BY <2>0, <2>2 DEF Row
    <3> QED BY <3>1, <3>2
  <2>3. CASE row[a].state = "absent" /\ row'[a] = ConfirmedRow
    <3>1. row[a] = NoRow
      BY <2>3 DEF AbsentIsEmpty
    <3> QED BY <2>3, <3>1 DEF ConfirmedRow, NoRow
  <2>4. CASE RetryEligible(a) /\ row'[a] = [row[a] EXCEPT !.retries = @ + 1]
    BY <2>0, <2>4 DEF RetryEligible, Row
  <2>5. CASE row[a].state = "executing" /\ row'[a] = [row[a] EXCEPT !.journaled = TRUE]
    BY <2>0, <2>5 DEF Row
  <2> QED BY <2>0, <2>1, <2>2, <2>3, <2>4, <2>5 DEF Rewritten
<1>2. Spec => [][A]_vars
  BY <1>1, Invariance, NothingWithoutRow, PTL DEF Spec
<1> QED BY <1>2

=============================================================================
