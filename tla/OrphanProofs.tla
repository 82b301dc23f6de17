---------------------------- MODULE OrphanProofs ----------------------------
(***************************************************************************)
(* While requests are served and none has failed unexpectedly, every row   *)
(* that says "executing" or "confirmed_by_user" is being seen to: proof of *)
(* NoOrphan.                                                               *)
(*                                                                         *)
(* The argument: a task gives up an action it attends to only by recording *)
(* what became of it, and nobody but startup recovery can find a row that  *)
(* a stopped process has left behind.                                      *)
(***************************************************************************)
EXTENDS ExecutionProofs

Awaits(t, a) == a \in rest[t] \/ (pc[t] = "retrying" /\ act[t] = a)

Attended(a) ==
  /\ row[a].state = "executing" => \E t \in Task : Drives(t, a)
  /\ row[a].state = "confirmed_by_user" => \E t \in Task : Awaits(t, a)

(* A step of t after which t attends to each action that it attended to,   *)
(* or that the step has started or confirmed.                              *)
Attends(t, a) ==
  /\ row'[a].state = "executing" /\ (row[a].state = "executing" => Drives(t, a))
       => Drives(t, a)'
  /\ row'[a].state = "confirmed_by_user" /\ (row[a].state = "confirmed_by_user" => Awaits(t, a))
       => Awaits(t, a)'

(* The locals of the other tasks are left alone.                           *)
Alone(t) == \A u \in Task \ {t} : pc'[u] = pc[u] /\ op'[u] = op[u] /\ act'[u] = act[u] /\ rest'[u] = rest[u]

(* Attending to an action is a matter of the locals.                       *)
LEMMA AttendedKept ==
  ASSUME IInv, NEW t \in Task, NEW a \in Action, Attended(a), Alone(t), Attends(t, a)
  PROVE  Attended(a)'
<1>1. ASSUME row'[a].state = "executing" PROVE \E u \in Task : Drives(u, a)'
  <2>1. CASE row[a].state = "executing" => Drives(t, a)
    BY <1>1, <2>1 DEF Attends
  <2>2. CASE row[a].state = "executing" /\ ~Drives(t, a)
    <3>1. PICK u \in Task : Drives(u, a)
      BY <2>2 DEF Attended
    <3> QED BY <2>2, <3>1 DEF Alone, Drives
  <2> QED BY <2>1, <2>2
<1>2. ASSUME row'[a].state = "confirmed_by_user" PROVE \E u \in Task : Awaits(u, a)'
  <2>1. CASE row[a].state = "confirmed_by_user" => Awaits(t, a)
    BY <1>2, <2>1 DEF Attends
  <2>2. CASE row[a].state = "confirmed_by_user" /\ ~Awaits(t, a)
    <3>1. PICK u \in Task : Awaits(u, a)
      BY <2>2 DEF Attended
    <3> QED BY <2>2, <3>1 DEF Alone, Awaits
  <2> QED BY <2>1, <2>2
<1> QED BY <1>1, <1>2 DEF Attended

-----------------------------------------------------------------------------
(* A request comes in (confirm_and_execute, review_and_retry, resume,      *)
(* cancel).                                                                *)
LEMMA UserAttends ==
  ASSUME IInv, NEW t \in Task, UserStep(t), NEW a \in Action
  PROVE  Alone(t) /\ Attends(t, a)
<1> USE DEF Alone, Attends, Drives, Awaits, Goto
<1>0. TypeOK /\ (pc[t] = "idle" => op[t] = "none" /\ rest[t] = {})
  BY DEF IInv, ControlInv
<1>1. ASSUME NEW p \in Plan, ConfirmEnter(t, p) PROVE Alone(t) /\ Attends(t, a)
  BY <1>0, <1>1 DEF ConfirmEnter, TypeOK, InCall
<1>2. ASSUME NEW b \in Action, RetryEnter(t, b) PROVE Alone(t) /\ Attends(t, a)
  <2>1. row[b].state \notin {"executing", "confirmed_by_user"} /\ row'[b].state = row[b].state
    BY <1>0, <1>2 DEF RetryEnter, RetryEligible, TypeOK, Row
  <2> QED BY <1>0, <1>2, <2>1 DEF RetryEnter, TypeOK, InCall
<1>3. ASSUME NEW b \in Action, ResumeBrowser(t, b) PROVE Alone(t) /\ Attends(t, a)
  BY <1>0, <1>3 DEF ResumeBrowser, SetState, TypeOK, InCall
<1>4. ASSUME NEW b \in Action, CancelBrowser(t, b) PROVE Alone(t) /\ Attends(t, a)
  BY <1>0, <1>4 DEF CancelBrowser, TypeOK, InCall
<1> QED BY <1>1, <1>2, <1>3, <1>4 DEF UserStep

(* A plan is confirmed, recorded and started.  A confirmation that is      *)
(* turned away has recorded nothing yet.                                   *)
LEMMA ConfirmAttends ==
  ASSUME IInv, NEW t \in Task, ConfirmStep(t), NEW a \in Action
  PROVE  Alone(t) /\ Attends(t, a)
<1> USE DEF Alone, Attends, Drives, Awaits, Goto, InCall
<1>0. TypeOK /\ RestInv(t) /\ ControlInv(t)
  BY DEF IInv
<1>1. CASE ConfirmUnauthorized(t) \/ ConfirmStale(t)
  <2>1. \A b \in rest[t] : row[b].state = "absent"
    BY <1>0, <1>1 DEF RestInv, ConfirmUnauthorized, ConfirmStale
  <2>2. row' = row /\ pc[t] \in {"authorize", "approve"} /\ Leave(t)
    BY <1>1 DEF ConfirmUnauthorized, ConfirmStale
  <2>3. ~Drives(t, a) /\ (row[a].state = "confirmed_by_user" => ~Awaits(t, a))
    BY <2>1, <2>2
  <2> QED BY <1>0, <2>2, <2>3 DEF Leave, TypeOK
<1>2. CASE ConfirmAuthorized(t) \/ ConfirmPlan(t)
  BY <1>0, <1>2 DEF ConfirmAuthorized, ConfirmPlan, TypeOK
<1>3. CASE CreateConfirmedPlan(t)
  BY <1>0, <1>3 DEF CreateConfirmedPlan, TypeOK, ConfirmedRow, NoRow
<1>4. CASE StartAction(t)
  <2>1. PICK b \in rest[t] : /\ SetState(b, "executing", "other", FALSE)
                             /\ act' = [act EXCEPT ![t] = b]
                             /\ rest' = [rest EXCEPT ![t] = @ \ {b}]
    BY <1>4 DEF StartAction
  <2>2. b \in Action /\ pc[t] = "start" /\ pc' = [pc EXCEPT ![t] = "call"] /\ op' = op
        /\ op[t] = "confirm"
    BY <1>0, <1>4, <2>1 DEF StartAction, ControlInv, TypeOK
  <2>3. row'[b].state = "executing" /\ \A c \in Action \ {b} : row'[c] = row[c]
    BY <1>0, <2>1, <2>2 DEF SetState, TypeOK
  <2>4. Alone(t)
    BY <1>0, <2>1, <2>2 DEF TypeOK
  <2>5. CASE a = b
    BY <1>0, <2>1, <2>2, <2>3, <2>5 DEF TypeOK
  <2>6. CASE a # b
    BY <1>0, <2>1, <2>2, <2>3, <2>6 DEF TypeOK
  <2> QED BY <2>4, <2>5, <2>6
<1> QED BY <1>1, <1>2, <1>3, <1>4 DEF ConfirmStep

(* A retry goes its way to "executing" through "confirmed_by_user".        *)
LEMMA RetryAttends ==
  ASSUME IInv, NEW t \in Task, RetryAdvance(t) \/ RetryPayloadUnavailable(t), NEW a \in Action
  PROVE  Alone(t) /\ Attends(t, a)
<1> USE DEF Alone, Attends, Drives, Awaits, Goto, InCall
<1>0. TypeOK /\ ControlInv(t)
  BY DEF IInv
<1>1. CASE RetryAdvance(t)
  <2> DEFINE b == act[t]
             s == RetryPath[row[b].state]
  <2>1. /\ pc[t] = "retrying" /\ b \in Action /\ op[t] = "retry" /\ SetState(b, s, "other", FALSE)
        /\ pc' = [pc EXCEPT ![t] = IF s = "executing" THEN "call" ELSE "retrying"]
        /\ op' = op /\ act' = act /\ rest' = rest
    BY <1>0, <1>1 DEF RetryAdvance, ControlInv
  <2>2. row'[b].state = s /\ \A c \in Action \ {b} : row'[c] = row[c]
    BY <1>0, <2>1 DEF SetState, TypeOK
  <2> HIDE DEF s
  <2> QED BY <1>0, <2>1, <2>2 DEF TypeOK
<1>2. CASE RetryPayloadUnavailable(t)
  BY <1>0, <1>2 DEF RetryPayloadUnavailable, Return, TypeOK
<1> QED BY <1>1, <1>2

(* No await of an executor changes the state of the row, and the task goes *)
(* on from each.                                                           *)
LEMMA ExecutorAttends ==
  ASSUME IInv, NEW t \in Task, ExecutorStep(t), NEW a \in Action
  PROVE  Alone(t) /\ Attends(t, a)
<1>0. TypeOK
  BY DEF IInv
<1>1. /\ pc[t] \in InCall /\ \E l \in InCall : pc' = [pc EXCEPT ![t] = l]
      /\ op' = op /\ act' = act /\ rest' = rest
  <2> USE <1>0 DEF Goto, Return, InCall, Calls
  <2>1. CASE RfcTargetRefused(t) \/ RfcPost(t) \/ RfcAnswered(t) \/ RfcTurnedAway(t)
    BY <2>1 DEF RfcTargetRefused, RfcPost, RfcAnswered, RfcTurnedAway
  <2>2. CASE MailUnauthorized(t) \/ MailJournal(t) \/ MailSend(t) \/ MailAccepted(t)
    BY <2>2 DEF MailUnauthorized, MailJournal, MailSend, MailAccepted
  <2>3. CASE MailSendRaises(t) \/ MailFound(t) \/ MailNotFound(t)
    BY <2>3 DEF MailSendRaises, MailFound, MailNotFound
  <2>4. CASE BrowserUnavailable(t) \/ BrowserOpen(t) \/ BrowserClick(t)
    BY <2>4 DEF BrowserUnavailable, BrowserOpen, BrowserClick
  <2>5. CASE BrowserPause(t) \/ BrowserFinish(t) \/ BrowserClosed(t)
    BY <2>5 DEF BrowserPause, BrowserFinish, BrowserClosed
  <2> QED BY <2>1, <2>2, <2>3, <2>4, <2>5 DEF ExecutorStep
<1>2. row'[a].state = row[a].state
  <2>1. CASE MailJournal(t)
    <3>1. row' = [row EXCEPT ![act[t]].journaled = TRUE]
      BY <2>1 DEF MailJournal
    <3> QED BY <1>0, <3>1 DEF TypeOK, Row
  <2>2. CASE ~MailJournal(t)
    <3>1. row' = row
      BY <2>2 DEF ExecutorStep, RfcTargetRefused, RfcPost, RfcAnswered, RfcTurnedAway, MailUnauthorized,
              MailSend, MailAccepted, MailSendRaises, MailFound, MailNotFound, BrowserUnavailable,
              BrowserOpen, BrowserClick, BrowserPause, BrowserFinish, BrowserClosed
    <3> QED BY <3>1
  <2> QED BY <2>1, <2>2
<1> QED BY <1>0, <1>1, <1>2 DEF TypeOK, Alone, Attends, Drives, Awaits, InCall

(* A result is one that "executing" may lead to, so it is recorded, and    *)
(* only a cancellation can find that the row has gone on without it.       *)
LEMMA RecordAttends ==
  ASSUME IInv, NEW t \in Task, Record(t) \/ RecordRejected(t), NEW a \in Action
  PROVE  Alone(t) /\ Attends(t, a)
<1>0. TypeOK /\ ControlInv(t) /\ CancelInv(t) /\ pc[t] = "record" /\ act[t] \in Action
  BY DEF IInv, ControlInv, InCall, Record, RecordRejected
<1>1. ASSUME op[t] # "cancel"
      PROVE  /\ row[act[t]].state = "executing"
             /\ result[t].state \in {"confirmed", "submitted", "needs_user", "failed"}
  <2>1. Drives(t, act[t]) /\ CallInv(t, act[t])
    BY <1>0, <1>1 DEF IInv, Drives, InCall
  <2> QED BY <1>0, <2>1 DEF CallInv
<1>2. result[t].state \in {"confirmed", "submitted", "needs_user", "failed", "reviewed"}
  BY <1>0, <1>1 DEF CancelInv, Res
<1>3. CASE Record(t)
  <2>1. row'[act[t]].state = result[t].state /\ \A b \in Action \ {act[t]} : row'[b] = row[b]
    BY <1>0, <1>3 DEF Record, SetState, TypeOK
  <2>2. Alone(t) /\ (rest'[t] = rest[t] \/ rest[t] = {})
    BY <1>0, <1>3 DEF Record, Goto, Leave, TypeOK, Alone
  <2> QED BY <1>0, <1>2, <2>1, <2>2 DEF Attends, Drives, Awaits
<1>4. CASE RecordRejected(t)
  <2>1. op[t] = "cancel"
    BY <1>1, <1>4 DEF RecordRejected, Allowed
  <2>2. ~Drives(t, a) /\ ~Awaits(t, a)
    BY <1>0, <2>1 DEF Drives, Awaits, ControlInv
  <2>3. row' = row /\ Alone(t)
    BY <1>0, <1>4 DEF RecordRejected, Leave, TypeOK, Alone
  <2> QED BY <2>2, <2>3 DEF Attends
<1> QED BY <1>3, <1>4

-----------------------------------------------------------------------------
(* NoOrphan, with Attended for its two parts.                              *)
LEMMA OrphanMeaning == NoOrphan <=> (up /\ faults = 0 => \A a \in Action : Attended(a))
BY DEF NoOrphan, Attended, Awaits

(* Initially there are no rows.                                            *)
LEMMA OrphanInit == Init => NoOrphan
BY DEF Init, NoOrphan, NoRow

(* Every step leaves every row attended to, unless it ends the process or  *)
(* is an exception; the end of startup recovery finds none to attend to.   *)
LEMMA OrphanStep == IInv /\ NoOrphan /\ [Next]_vars => NoOrphan'
<1> SUFFICES ASSUME IInv, NoOrphan, [Next]_vars, up', faults' = 0, NEW a \in Action
             PROVE  Attended(a)'
  BY DEF NoOrphan, Attended, Awaits
<1>0. TypeOK
  BY DEF IInv
<1>1. ASSUME NEW t \in Task, UserStep(t) \/ TaskStep(t) PROVE Attended(a)'
  <2>1. Alone(t) /\ Attends(t, a)
    BY <1>1, UserAttends, ConfirmAttends, RetryAttends, ExecutorAttends, RecordAttends DEF TaskStep
  <2>2. up' = up /\ faults' = faults
    <3>1. CASE UserStep(t)
      BY <3>1 DEF UserStep, ConfirmEnter, RetryEnter, ResumeBrowser, CancelBrowser, memory, bounds
    <3>2. CASE ConfirmStep(t)
      BY <3>2 DEF ConfirmStep, ConfirmAuthorized, ConfirmUnauthorized, ConfirmPlan, ConfirmStale,
                  CreateConfirmedPlan, StartAction, memory, bounds
    <3>3. CASE ExecutorStep(t)
      BY <3>3 DEF ExecutorStep, RfcTargetRefused, RfcPost, RfcAnswered, RfcTurnedAway, MailUnauthorized,
                  MailJournal, MailSend, MailAccepted, MailSendRaises, MailFound, MailNotFound,
                  BrowserUnavailable, BrowserOpen, BrowserClick, BrowserPause, BrowserFinish,
                  BrowserClosed, memory, bounds
    <3>4. CASE RetryAdvance(t) \/ RetryPayloadUnavailable(t) \/ Record(t) \/ RecordRejected(t)
      BY <3>4 DEF RetryAdvance, RetryPayloadUnavailable, Record, RecordRejected, memory, bounds
    <3> QED BY <1>1, <3>1, <3>2, <3>3, <3>4 DEF TaskStep
  <2> QED BY <2>1, <2>2, AttendedKept, OrphanMeaning
<1>2. ASSUME NEW t \in Task, Raise(t) PROVE Attended(a)'
  BY <1>0, <1>2 DEF Raise, TypeOK
<1>3. CASE RecoveryStep
  <2>1. RecoveryDone
    <3>1. ASSUME Recovers PROVE FALSE
      BY <3>1 DEF Recovers, memory
    <3> QED BY <1>3, <3>1 DEF RecoveryStep, RecoverSentMail, RecoverInterrupted, RecoverUnstarted,
                              RecoverLostSession
  <2> QED BY <2>1 DEF RecoveryDone, InState, Attended
<1>4. ASSUME UNCHANGED <<row, up, taskVars, faults>> PROVE Attended(a)'
  BY <1>4, OrphanMeaning DEF Attended, Drives, Awaits, taskVars
<1>5. CASE EnvironmentStep
  <2>1. ~Crash
    BY DEF Crash
  <2> QED BY <1>4, <1>5, <2>1 DEF EnvironmentStep, Discover, Correct, CreatePlan, TakeOver, GmailFiles,
                                  ChangeScope, memory, bounds
<1>6. CASE UNCHANGED vars
  BY <1>4, <1>6 DEF vars, memory, bounds
<1> QED BY <1>1, <1>2, <1>3, <1>5, <1>6 DEF Next

(* NoOrphan: while requests are served and none has failed unexpectedly,   *)
(* no row is left "executing" or "confirmed_by_user" without a task that   *)
(* sees to it (coordinator.py, browser_sessions.py, recovery.py).          *)
THEOREM NothingLeftBehind == Spec => []NoOrphan
BY OrphanInit, OrphanStep, Invariance, PTL DEF Spec

=============================================================================
