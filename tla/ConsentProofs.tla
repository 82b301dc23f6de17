--------------------------- MODULE ConsentProofs ----------------------------
(***************************************************************************)
(* What is recorded for execution is a confirmed plan, whole, at the       *)
(* revisions the user reviewed: proofs of ConsentIsCurrent and             *)
(* PlanIsRecordedWhole.                                                    *)
(*                                                                         *)
(* The argument: between ConfirmPlan, which compares the candidates with   *)
(* the plan, and CreateConfirmedPlan, which writes the rows, the task does *)
(* not await, so that nothing that changes a candidate or a plan can run.  *)
(***************************************************************************)
EXTENDS ExecutionProofs

Confirming == {"authorize", "approve", "persist"}

(* What a task that confirms a plan holds in its locals.                   *)
Reviewed(t) ==
  /\ pc[t] \in {"authorize", "approve"} => rest[t] = plan[act[t]].items
  /\ pc[t] = "persist" => /\ Current(rest[t])
                          /\ \E p \in Plan : plan[p].confirmed /\ plan[p].items = rest[t]

ReviewedInv == \A t \in Task : Reviewed(t)

-----------------------------------------------------------------------------
(* Steps of a task, other than the three that confirm a plan.              *)
OtherStep(t) ==
  /\ pc'[t] \notin Confirming
  /\ \A u \in Task \ {t} : pc'[u] = pc[u] /\ act'[u] = act[u] /\ rest'[u] = rest[u]
  /\ catalog' = catalog /\ plan' = plan

(* Every other step of a task leaves plans, candidates and the locals of   *)
(* the other tasks alone.                                                  *)
LEMMA OtherSteps ==
  ASSUME IInv, NEW t \in Task, UserStep(t) \/ TaskStep(t) \/ Raise(t)
  PROVE  \/ OtherStep(t)
         \/ \E p \in Plan : ConfirmEnter(t, p)
         \/ ConfirmAuthorized(t)
         \/ ConfirmPlan(t)
<1> USE DEF IInv, TypeOK, OtherStep, Confirming, Goto, Return, Leave, memory
<1>1. CASE UserStep(t)
  <2>1. ASSUME NEW a \in Action, RetryEnter(t, a) PROVE OtherStep(t)
    BY <2>1 DEF RetryEnter
  <2>2. ASSUME NEW a \in Action, ResumeBrowser(t, a) PROVE OtherStep(t)
    BY <2>2 DEF ResumeBrowser
  <2>3. ASSUME NEW a \in Action, CancelBrowser(t, a) PROVE OtherStep(t)
    BY <2>3 DEF CancelBrowser
  <2> QED BY <1>1, <2>1, <2>2, <2>3 DEF UserStep
<1>2. CASE ConfirmStep(t)
  <2>1. CASE ConfirmUnauthorized(t) \/ ConfirmStale(t)
    BY <2>1 DEF ConfirmUnauthorized, ConfirmStale
  <2>2. CASE CreateConfirmedPlan(t)
    BY <2>2 DEF CreateConfirmedPlan
  <2>3. CASE StartAction(t)
    BY <2>3 DEF StartAction
  <2> QED BY <1>2, <2>1, <2>2, <2>3 DEF ConfirmStep
<1>3. CASE RetryAdvance(t) \/ RetryPayloadUnavailable(t)
  BY <1>3 DEF RetryAdvance, RetryPayloadUnavailable
<1>4. CASE Record(t) \/ RecordRejected(t) \/ Raise(t)
  <2>1. CASE Record(t)
    BY <2>1 DEF Record
  <2>2. CASE RecordRejected(t) \/ Raise(t)
    BY <2>2 DEF RecordRejected, Raise
  <2> QED BY <1>4, <2>1, <2>2
<1>5. CASE ExecutorStep(t)
  <2>1. CASE RfcTargetRefused(t) \/ RfcPost(t) \/ RfcAnswered(t) \/ RfcTurnedAway(t)
    BY <2>1 DEF RfcTargetRefused, RfcPost, RfcAnswered, RfcTurnedAway
  <2>2. CASE MailUnauthorized(t) \/ MailJournal(t) \/ MailSend(t) \/ MailAccepted(t)
    BY <2>2 DEF MailUnauthorized, MailJournal, MailSend, MailAccepted
  <2>3. CASE MailSendRaises(t) \/ MailFound(t) \/ MailNotFound(t)
    BY <2>3 DEF MailSendRaises, MailFound, MailNotFound
  <2>4. CASE BrowserUnavailable(t) \/ BrowserOpen(t) \/ BrowserClick(t)
    BY <2>4 DEF BrowserUnavailable, BrowserOpen, BrowserClick
  <2>5. CASE BrowserPause(t) \/ BrowserFinish(t) \/ BrowserClosed(t)
    BY <2>5 DEF BrowserPause, BrowserFinish, BrowserClosed
  <2> QED BY <1>5, <2>1, <2>2, <2>3, <2>4, <2>5 DEF ExecutorStep
<1> QED BY <1>1, <1>2, <1>3, <1>4, <1>5 DEF TaskStep

(* Nothing is being confirmed while candidates and plans are changed: the  *)
(* event loop is idle, so that no task is between the check and the record *)
(* (Suspended has no "persist").                                           *)
LEMMA ChangeStep ==
  ASSUME IInv, ReviewedInv,
         \/ \E c \in Candidate : Discover(c) \/ Correct(c)
         \/ \E p \in Plan, S \in SUBSET Candidate : CreatePlan(p, S)
  PROVE  ReviewedInv'
<1> SUFFICES ASSUME NEW t \in Task PROVE Reviewed(t)'
  BY DEF ReviewedInv
<1>1. /\ Reviewed(t) /\ ControlInv(t) /\ pc[t] # "persist"
      /\ pc' = pc /\ act' = act /\ rest' = rest
  BY DEF ReviewedInv, IInv, Discover, Correct, CreatePlan, LoopIdle, Suspended, taskVars
<1>2. ASSUME pc[t] \in {"authorize", "approve"} PROVE plan'[act[t]].items = plan[act[t]].items
  <2>1. act[t] \in Plan /\ plan[act[t]].items # {}
    BY <1>1, <1>2 DEF ControlInv, Reviewed
  <2>2. plan[act[t]] # NoPlan
    BY <2>1 DEF NoPlan
  <2> QED BY <2>1, <2>2 DEF Discover, Correct, CreatePlan, IInv, TypeOK
<1> QED BY <1>1, <1>2 DEF Reviewed

(* Initially nothing is being confirmed.                                    *)
LEMMA ReviewedInit == Init => ReviewedInv
BY DEF Init, ReviewedInv, Reviewed

(* Every step preserves the invariant.                                     *)
LEMMA ReviewedStep == IInv /\ ReviewedInv /\ [Next]_vars => ReviewedInv'
<1> SUFFICES ASSUME IInv, ReviewedInv, [Next]_vars PROVE ReviewedInv'
  OBVIOUS
<1>1. ASSUME UNCHANGED <<catalog, plan, pc, act, rest>> PROVE ReviewedInv'
  BY <1>1 DEF ReviewedInv, Reviewed, Current
<1>2. ASSUME NEW t \in Task, UserStep(t) \/ TaskStep(t) \/ Raise(t) PROVE ReviewedInv'
  <2>1. CASE OtherStep(t)
    BY <2>1 DEF OtherStep, Confirming, ReviewedInv, Reviewed, Current
  <2>2. ASSUME NEW p \in Plan, ConfirmEnter(t, p) PROVE ReviewedInv'
    <3>1. /\ pc'[t] \in {"authorize", "approve"} /\ act'[t] = p /\ rest'[t] = plan[p].items
          /\ \A u \in Task \ {t} : pc'[u] = pc[u] /\ act'[u] = act[u] /\ rest'[u] = rest[u]
          /\ catalog' = catalog /\ plan' = plan
      BY <2>2 DEF ConfirmEnter, Goto, IInv, TypeOK
    <3> QED BY <3>1 DEF ReviewedInv, Reviewed, Current
  <2>3. CASE ConfirmAuthorized(t)
    <3>1. /\ pc[t] = "authorize" /\ pc'[t] = "approve" /\ act' = act /\ rest' = rest
          /\ \A u \in Task \ {t} : pc'[u] = pc[u]
          /\ catalog' = catalog /\ plan' = plan
      BY <2>3 DEF ConfirmAuthorized, Goto, IInv, TypeOK, memory
    <3> QED BY <3>1 DEF ReviewedInv, Reviewed, Current
  <2>4. CASE ConfirmPlan(t)
    <3>1. /\ pc[t] = "approve" /\ act[t] \in Plan /\ rest[t] = plan[act[t]].items
          /\ pc'[t] = "persist" /\ Current(rest[t]) /\ rest' = rest /\ catalog' = catalog
          /\ \A u \in Task \ {t} : pc'[u] = pc[u] /\ act'[u] = act[u]
      BY <2>4 DEF ConfirmPlan, Goto, IInv, TypeOK, ControlInv, ReviewedInv, Reviewed
    <3>2. /\ plan'[act[t]].confirmed
          /\ \A p \in Plan : plan'[p].items = plan[p].items
          /\ \A p \in Plan : plan[p].confirmed => plan'[p].confirmed
      BY <2>4, <3>1 DEF ConfirmPlan, IInv, TypeOK
    <3>3. ASSUME NEW u \in Task PROVE Reviewed(u)'
      <4>1. CASE u = t
        BY <3>1, <3>2, <4>1 DEF Reviewed, Current
      <4>2. CASE u # t
        <5>1. Reviewed(u) /\ (pc[u] \in {"authorize", "approve"} => act[u] \in Plan)
          BY DEF ReviewedInv, IInv, ControlInv
        <5> QED BY <3>1, <3>2, <4>2, <5>1 DEF Reviewed, Current
      <4> QED BY <4>1, <4>2
    <3> QED BY <3>3 DEF ReviewedInv
  <2> QED BY <1>2, <2>1, <2>2, <2>3, <2>4, OtherSteps
<1>3. CASE RecoveryStep
  BY <1>1, <1>3 DEF RecoveryStep, RecoverSentMail, RecoverInterrupted, RecoverUnstarted,
                    RecoverLostSession, RecoveryDone, Recovers, memory, taskVars
<1>4. CASE EnvironmentStep
  <2>1. CASE Crash
    BY <2>1 DEF Crash, ReviewedInv, Reviewed
  <2>2. CASE ChangeScope \/ \E a \in Action : TakeOver(a) \/ GmailFiles(a)
    BY <1>1, <2>2 DEF ChangeScope, TakeOver, GmailFiles, memory, taskVars
  <2> QED BY <1>4, <2>1, <2>2, ChangeStep DEF EnvironmentStep
<1>5. CASE UNCHANGED vars
  BY <1>1, <1>5 DEF vars, memory, taskVars
<1> QED BY <1>2, <1>3, <1>4, <1>5 DEF Next

-----------------------------------------------------------------------------
(* set_state has no transition for a row that does not exist.              *)
LEMMA SetStateKeepsAbsent ==
  ASSUME TypeOK, NEW x \in Action, NEW s, NEW c, NEW e, SetState(x, s, c, e)
  PROVE  \A a \in Action : row[a].state = "absent" => row'[a].state = "absent"
<1>1. row[x].state # "absent"
  BY DEF SetState, Allowed
<1> QED BY <1>1 DEF SetState, TypeOK

(* Rows come into being in create_confirmed_plan only.                     *)
LEMMA RowsAreCreated ==
  ASSUME IInv, [Next]_vars, NEW a \in Action, row[a].state = "absent", row'[a].state # "absent"
  PROVE  \E t \in Task : CreateConfirmedPlan(t)
<1> SUFFICES ASSUME \A t \in Task : ~CreateConfirmedPlan(t) PROVE row'[a].state = "absent"
  OBVIOUS
<1>0. TypeOK
  BY DEF IInv
<1>1. ASSUME NEW x \in Action, NEW s, NEW c, NEW e, SetState(x, s, c, e) PROVE row'[a].state = "absent"
  BY <1>0, <1>1, SetStateKeepsAbsent
<1>2. ASSUME NEW t \in Task, UserStep(t) PROVE row'[a].state = "absent"
  <2>1. ASSUME NEW x \in Action, RetryEnter(t, x) PROVE row'[a].state = "absent"
    BY <1>0, <2>1 DEF RetryEnter, RetryEligible, TypeOK, Row
  <2> QED BY <1>1, <1>2, <2>1 DEF UserStep, ConfirmEnter, ResumeBrowser, CancelBrowser
<1>3. ASSUME NEW t \in Task, TaskStep(t) PROVE row'[a].state = "absent"
  <2>1. CASE ConfirmStep(t)
    BY <1>1, <2>1 DEF ConfirmStep, ConfirmAuthorized, ConfirmUnauthorized, ConfirmPlan, ConfirmStale,
                      StartAction, IInv, TypeOK
  <2>2. CASE ExecutorStep(t)
    <3>1. CASE MailJournal(t)
      <4>1. row' = [row EXCEPT ![act[t]].journaled = TRUE]
        BY <3>1 DEF MailJournal
      <4> QED BY <1>0, <4>1 DEF TypeOK, Row
    <3> QED BY <2>2, <3>1
            DEF ExecutorStep, RfcTargetRefused, RfcPost, RfcAnswered, RfcTurnedAway, MailUnauthorized,
                MailSend, MailAccepted, MailSendRaises, MailFound, MailNotFound, BrowserUnavailable,
                BrowserOpen, BrowserClick, BrowserPause, BrowserFinish, BrowserClosed
  <2>3. CASE RetryAdvance(t) \/ RetryPayloadUnavailable(t) \/ Record(t) \/ RecordRejected(t)
    <3>1. CASE RetryAdvance(t) \/ Record(t)
      <4>1. act[t] \in Action
        BY <3>1 DEF RetryAdvance, Record, IInv, ControlInv, InCall
      <4> QED BY <1>1, <3>1, <4>1 DEF RetryAdvance, Record
    <3> QED BY <2>3, <3>1 DEF RetryPayloadUnavailable, RecordRejected
  <2> QED BY <1>3, <2>1, <2>2, <2>3 DEF TaskStep
<1>4. CASE RecoveryStep
  BY <1>1, <1>4 DEF RecoveryStep, RecoverSentMail, RecoverInterrupted, RecoverUnstarted,
                    RecoverLostSession, RecoveryDone, InState, LostSessions
<1>5. CASE EnvironmentStep
  BY <1>5 DEF EnvironmentStep, Discover, Correct, CreatePlan, TakeOver, GmailFiles, ChangeScope, Crash
<1>6. ASSUME NEW t \in Task, Raise(t) PROVE row'[a].state = "absent"
  BY <1>6 DEF Raise
<1>7. CASE UNCHANGED vars
  BY <1>7 DEF vars
<1> QED BY <1>2, <1>3, <1>4, <1>5, <1>6, <1>7 DEF Next

-----------------------------------------------------------------------------
(* The step that records actions, seen from the invariant.                 *)
LEMMA RecordedAsReviewed ==
  ASSUME IInv, ReviewedInv, [Next]_vars,
         NEW a \in Action, row[a].state = "absent", row'[a].state # "absent"
  PROVE  /\ catalog[a[1]] = a[2]
         /\ \E p \in Plan : /\ plan[p].confirmed /\ a \in plan[p].items
                            /\ \A b \in plan[p].items : row'[b].state = "confirmed_by_user"
<1>1. PICK t \in Task : CreateConfirmedPlan(t)
  BY RowsAreCreated
<1>2. a \in rest[t] /\ pc[t] = "persist" /\ rest[t] \subseteq Action
  BY <1>1 DEF CreateConfirmedPlan, IInv, TypeOK
<1>3. Current(rest[t]) /\ \E p \in Plan : plan[p].confirmed /\ plan[p].items = rest[t]
  BY <1>2 DEF ReviewedInv, Reviewed
<1>4. \A b \in rest[t] : row'[b].state = "confirmed_by_user"
  BY <1>1, <1>2 DEF CreateConfirmedPlan, ConfirmedRow, NoRow
<1> QED BY <1>2, <1>3, <1>4 DEF Current

(* The invariant holds in every reachable state.                           *)
THEOREM ReviewedInvariance == Spec => []ReviewedInv
BY ReviewedInit, ReviewedStep, Invariance, PTL DEF Spec

(* ConsentIsCurrent: nothing is recorded for execution at another revision *)
(* than the one the user reviewed, whatever happens during the awaits of   *)
(* confirm_and_execute.                                                    *)
THEOREM Consent == Spec => ConsentIsCurrent
<1>1. IInv /\ ReviewedInv /\ [Next]_vars =>
        [\A a \in Action : row[a].state = "absent" /\ row'[a].state # "absent"
           => catalog[a[1]] = a[2]]_vars
  BY RecordedAsReviewed
<1> QED BY <1>1, Invariance, ReviewedInvariance, PTL DEF Spec, ConsentIsCurrent

(* PlanIsRecordedWhole: what is recorded in one step is a confirmed plan,  *)
(* all of it (create_confirmed_plan is one transaction).                   *)
THEOREM PlanWhole == Spec => PlanIsRecordedWhole
<1>1. IInv /\ ReviewedInv /\ [Next]_vars =>
        [\A a \in Action : row[a].state = "absent" /\ row'[a].state # "absent"
           => \E p \in Plan : /\ plan[p].confirmed /\ a \in plan[p].items
                              /\ \A b \in plan[p].items : row'[b].state = "confirmed_by_user"]_vars
  BY RecordedAsReviewed
<1> QED BY <1>1, Invariance, ReviewedInvariance, PTL DEF Spec, PlanIsRecordedWhole

=============================================================================
