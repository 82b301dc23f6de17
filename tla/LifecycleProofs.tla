-------------------------- MODULE LifecycleProofs ---------------------------
(***************************************************************************)
(* Execution implements ActionLifecycle: every step of the detailed system *)
(* is, through the states of the rows, a step of the abstract one or none. *)
(***************************************************************************)
EXTENDS ExecutionProofs

Status == [a \in Action |-> row[a].state]

(* What of the detailed state the abstract one can see.                    *)
Unseen == (\A a \in Action : row'[a].state = row[a].state) /\ UNCHANGED history

AbstractStep == [Lifecycle!Next]_(Lifecycle!vars)

(* A step that leaves states and contacts alone is a stuttering step.      *)
LEMMA UnseenStep ==
  ASSUME Unseen
  PROVE  AbstractStep
<1>1. Status' = Status
  BY DEF Unseen, Status
<1> QED BY <1>1 DEF Unseen, AbstractStep, Lifecycle!vars, history, Status

(* One call of set_state is one abstract move.                             *)
LEMMA SetStateMoves ==
  ASSUME TypeOK, NEW x \in Action, NEW s \in ActionState, NEW c, NEW e,
         SetState(x, s, c, e), UNCHANGED history,
         s = "submitted" => Outstanding(x),
         s = "selected" => ~Outstanding(x)
  PROVE  AbstractStep
<1>1. s \in Allowed[Status[x]] /\ row[x] \in Row
  BY DEF SetState, Status, TypeOK
<1>2. row'[x].state = s /\ \A a \in Action \ {x} : row'[a] = row[a]
  <2>1. row'[x] = [row[x] EXCEPT !.state = s, !.code = c, !.ext = e]
    BY DEF SetState, TypeOK
  <2>2. \A a \in Action \ {x} : row'[a] = row[a]
    BY DEF SetState, TypeOK
  <2> QED BY <1>1, <2>1, <2>2 DEF Row
<1>3. Status' = [Status EXCEPT ![x] = s]
  BY <1>2 DEF Status
<1>4. Lifecycle!Move(x, s)
  BY <1>1, <1>3 DEF Lifecycle!Move, Lifecycle!Outstanding, Outstanding, history, Status,
                    Lifecycle!Allowed, Allowed
<1> QED BY <1>4 DEF AbstractStep, Lifecycle!Next, Lifecycle!ActionState, ActionState

(* A POST, a mail and a click are contacts: each happens while the action  *)
(* is executing and nothing done before can be in effect.                  *)
LEMMA ContactIsAllowed ==
  ASSUME IInv, NEW t \in Task, RfcPost(t) \/ MailSend(t) \/ BrowserClick(t)
  PROVE  AbstractStep
<1> DEFINE x == act[t]
<1>1. /\ pc[t] \in {"call", "send", "advance"} /\ ControlInv(t) /\ TypeOK
      /\ row' = row /\ refused' = refused /\ contacts' = [contacts EXCEPT ![x] = @ + 1]
  BY DEF RfcPost, MailSend, BrowserClick, Calls, Contact, IInv
<1>2. x \in Action /\ Drives(t, x)
  BY <1>1 DEF ControlInv, InCall, Drives
<1>3. CallInv(t, x) /\ RowInv(x) /\ row[x] \in Row /\ contacts[x] \in Nat /\ refused[x] \in Nat
  BY <1>2 DEF IInv, TypeOK
<1>4. row[x].state = "executing" /\ ~Outstanding(x) /\ contacts[x] < 2
  BY <1>1, <1>2, <1>3 DEF CallInv, RowInv, Outstanding, Row
<1>5. Lifecycle!Contact(x)
  BY <1>1, <1>2, <1>4 DEF Lifecycle!Contact, Lifecycle!Outstanding, Outstanding
<1> QED BY <1>2, <1>5 DEF AbstractStep, Lifecycle!Next

(* A 429 or 503 answer takes a contact back.                               *)
LEMMA RefusalIsAllowed ==
  ASSUME IInv, NEW t \in Task, RfcTurnedAway(t)
  PROVE  AbstractStep
<1> DEFINE x == act[t]
<1>1. /\ pc[t] = "posted" /\ ControlInv(t) /\ TypeOK
      /\ row' = row /\ contacts' = contacts /\ refused' = [refused EXCEPT ![x] = @ + 1]
  BY DEF RfcTurnedAway, IInv
<1>2. x \in Action /\ Drives(t, x)
  BY <1>1 DEF ControlInv, InCall, Drives
<1>3. row[x].state = "executing" /\ Outstanding(x)
  BY <1>1, <1>2 DEF IInv, CallInv
<1>4. Lifecycle!Refuse(x)
  BY <1>1, <1>2, <1>3 DEF Lifecycle!Refuse, Lifecycle!Outstanding, Outstanding
<1> QED BY <1>2, <1>4 DEF AbstractStep, Lifecycle!Next

(* create_confirmed_plan is the confirmation of all its actions.           *)
LEMMA PlanIsConfirmation ==
  ASSUME IInv, NEW t \in Task, CreateConfirmedPlan(t)
  PROVE  AbstractStep
<1> PICK S \in SUBSET Action : S = rest[t]
  BY DEF IInv, TypeOK
<1>1. /\ pc[t] = "persist" /\ S # {}
      /\ \A a \in S : row[a].state = "absent"
      /\ row' = [a \in Action |-> IF a \in S THEN ConfirmedRow ELSE row[a]]
      /\ UNCHANGED history
  BY DEF CreateConfirmedPlan, IInv, ControlInv, RestInv
<1>2. ConfirmedRow.state = "confirmed_by_user"
  BY DEF ConfirmedRow, NoRow
<1>3. Status' = [a \in Action |-> IF a \in S THEN "confirmed_by_user" ELSE Status[a]]
  BY <1>1, <1>2 DEF Status
<1>4. Lifecycle!Confirm(S)
  BY <1>1, <1>3 DEF Lifecycle!Confirm, history, Status
<1> QED BY <1>4 DEF AbstractStep, Lifecycle!Next

(* A retry selects an action again only if nothing it did can be in effect. *)
LEMMA RetryAdvanceMoves ==
  ASSUME IInv, NEW t \in Task, RetryAdvance(t)
  PROVE  AbstractStep
<1> DEFINE x == act[t]
           s == RetryPath[row[x].state]
<1>1. /\ pc[t] = "retrying" /\ x \in Action /\ row[x].state \in DOMAIN RetryPath /\ TypeOK
      /\ SetState(x, s, "other", FALSE) /\ UNCHANGED history /\ ~Outstanding(x)
  BY DEF RetryAdvance, IInv, ControlInv, RetryInv
<1>2. s \in ActionState /\ s # "submitted"
  BY <1>1 DEF RetryPath, ActionState
<1> QED BY <1>1, <1>2, SetStateMoves

(* The recorded outcome is backed.                                         *)
LEMMA RecordMoves ==
  ASSUME IInv, NEW t \in Task, Record(t)
  PROVE  AbstractStep
<1> DEFINE x == act[t]
<1>1. /\ pc[t] = "record" /\ x \in Action /\ TypeOK /\ result[t] \in Result
      /\ SetState(x, result[t].state, result[t].code, result[t].ext) /\ UNCHANGED history
  BY DEF Record, IInv, ControlInv, InCall
<1>2. result[t].state # "selected" /\ (result[t].state = "submitted" => Outstanding(x))
  <2>1. CASE op[t] = "cancel"
    BY <2>1 DEF IInv, CancelInv, Res
  <2>2. CASE op[t] # "cancel"
    BY <1>1, <2>2 DEF IInv, CallInv, Drives, InCall
  <2> QED BY <2>1, <2>2
<1>3. result[t].state \in ActionState
  BY <1>1 DEF Result
<1> QED BY <1>1, <1>2, <1>3, SetStateMoves

(* Startup recovery claims "submitted" only for mail that Gmail has.       *)
LEMMA RecoveryMoves ==
  ASSUME IInv, RecoveryStep
  PROVE  AbstractStep
<1>1. TypeOK
  BY DEF IInv
<1>2. ASSUME NEW x \in Action, RecoverSentMail(x) PROVE AbstractStep
  <2>1. Outstanding(x)
    BY <1>2 DEF RecoverSentMail, IInv, RowInv, Outstanding
  <2> QED BY <1>1, <1>2, <2>1, SetStateMoves DEF RecoverSentMail, Recovers, ActionState
<1>3. ASSUME NEW x \in Action, RecoverInterrupted(x) \/ RecoverUnstarted(x) \/ RecoverLostSession(x)
      PROVE  AbstractStep
  BY <1>1, <1>3, SetStateMoves
     DEF RecoverInterrupted, RecoverUnstarted, RecoverLostSession, Recovers, ActionState
<1>4. CASE RecoveryDone
  BY <1>4, UnseenStep DEF RecoveryDone, Unseen
<1> QED BY <1>2, <1>3, <1>4 DEF RecoveryStep

-----------------------------------------------------------------------------
(* The executors' steps.                                                   *)
LEMMA ExecutorImplements ==
  ASSUME IInv, NEW t \in Task, ExecutorStep(t)
  PROVE  AbstractStep
<1>1. CASE MailJournal(t)
  <2>1. row' = [row EXCEPT ![act[t]].journaled = TRUE] /\ UNCHANGED history
    BY <1>1 DEF MailJournal
  <2>2. Unseen
    BY <2>1 DEF Unseen, IInv, TypeOK, Row
  <2> QED BY <2>2, UnseenStep
<1>2. ASSUME UNCHANGED <<row, history>> PROVE AbstractStep
  BY <1>2, UnseenStep DEF Unseen
<1>3. CASE RfcTargetRefused(t) \/ RfcAnswered(t) \/ MailUnauthorized(t) \/ MailAccepted(t)
  BY <1>2, <1>3 DEF RfcTargetRefused, RfcAnswered, MailUnauthorized, MailAccepted
<1>4. CASE MailSendRaises(t) \/ MailFound(t) \/ MailNotFound(t) \/ BrowserUnavailable(t)
  BY <1>2, <1>4 DEF MailSendRaises, MailFound, MailNotFound, BrowserUnavailable
<1>5. CASE BrowserOpen(t) \/ BrowserPause(t) \/ BrowserFinish(t) \/ BrowserClosed(t)
  BY <1>2, <1>5 DEF BrowserOpen, BrowserPause, BrowserFinish, BrowserClosed
<1> QED BY <1>1, <1>3, <1>4, <1>5, ContactIsAllowed, RefusalIsAllowed DEF ExecutorStep

(* Every step of a task.                                                   *)
LEMMA TaskImplements ==
  ASSUME IInv, NEW t \in Task, UserStep(t) \/ TaskStep(t) \/ Raise(t)
  PROVE  AbstractStep
<1>0. TypeOK
  BY DEF IInv
<1>1. ASSUME UNCHANGED <<row, history>> PROVE AbstractStep
  BY <1>1, UnseenStep DEF Unseen
<1>2. ASSUME NEW p \in Plan, ConfirmEnter(t, p) PROVE AbstractStep
  BY <1>1, <1>2 DEF ConfirmEnter
<1>3. ASSUME NEW a \in Action, RetryEnter(t, a) PROVE AbstractStep
  <2>1. row' = [row EXCEPT ![a].retries = @ + 1] /\ UNCHANGED history
    BY <1>3 DEF RetryEnter
  <2>2. Unseen
    BY <1>0, <2>1 DEF Unseen, TypeOK, Row
  <2> QED BY <2>2, UnseenStep
<1>4. ASSUME NEW a \in Action, ResumeBrowser(t, a) PROVE AbstractStep
  BY <1>0, <1>4, SetStateMoves DEF ResumeBrowser, ActionState
<1>5. ASSUME NEW a \in Action, CancelBrowser(t, a) PROVE AbstractStep
  BY <1>1, <1>5 DEF CancelBrowser
<1>6. CASE ConfirmStep(t)
  <2>1. ASSUME NEW a \in Action, SetState(a, "executing", "other", FALSE), UNCHANGED history
        PROVE  AbstractStep
    BY <1>0, <2>1, SetStateMoves DEF ActionState
  <2>2. CASE StartAction(t)
    BY <1>0, <2>1, <2>2 DEF StartAction, TypeOK
  <2>3. CASE ConfirmAuthorized(t) \/ ConfirmUnauthorized(t) \/ ConfirmPlan(t) \/ ConfirmStale(t)
    BY <1>1, <2>3 DEF ConfirmAuthorized, ConfirmUnauthorized, ConfirmPlan, ConfirmStale
  <2> QED BY <1>6, <2>2, <2>3, PlanIsConfirmation DEF ConfirmStep
<1>7. CASE RetryPayloadUnavailable(t) \/ RecordRejected(t) \/ Raise(t)
  BY <1>1, <1>7 DEF RetryPayloadUnavailable, RecordRejected, Raise
<1>8. CASE UserStep(t)
  BY <1>2, <1>3, <1>4, <1>5, <1>8 DEF UserStep
<1> QED BY <1>6, <1>7, <1>8, RetryAdvanceMoves, RecordMoves, ExecutorImplements DEF TaskStep

(* Every step of the system.                                               *)
LEMMA StepImplements == IInv /\ [Next]_vars => AbstractStep
<1> SUFFICES ASSUME IInv, [Next]_vars PROVE AbstractStep
  OBVIOUS
<1>1. ASSUME UNCHANGED <<row, history>> PROVE AbstractStep
  BY <1>1, UnseenStep DEF Unseen
<1>2. CASE EnvironmentStep
  BY <1>1, <1>2
     DEF EnvironmentStep, Discover, Correct, CreatePlan, TakeOver, GmailFiles, ChangeScope, Crash
<1>3. CASE UNCHANGED vars
  BY <1>1, <1>3 DEF vars
<1> QED BY <1>2, <1>3, TaskImplements, RecoveryMoves DEF Next

(* The empty database is the abstract initial state.                       *)
LEMMA InitImplements == Init => Lifecycle!Init
BY DEF Init, NoRow, Lifecycle!Init

(* Execution implements ActionLifecycle: whatever carries an action out,   *)
(* its row moves along ALLOWED_ACTION_TRANSITIONS, the outside world is    *)
(* contacted only while it is executing, a second time only after a        *)
(* refusal, and "submitted" is claimed only with a contact to show for it. *)
THEOREM LifecycleImplemented == Spec => ImplementsLifecycle
<1>1. IInv /\ [Next]_vars => [Lifecycle!Next]_(Lifecycle!vars)
  BY StepImplements DEF AbstractStep
<1> QED BY <1>1, InitImplements, Invariance, PTL DEF Spec, ImplementsLifecycle, Lifecycle!Spec

=============================================================================
