------------------------- MODULE ExecutionInvariant -------------------------
(***************************************************************************)
(* The inductive invariant behind the safety properties of Execution: why  *)
(* the lock, the transition table and the durable retry allowance together *)
(* keep every side effect from being repeated.                             *)
(***************************************************************************)
EXTENDS Execution

(* A coordinator request holds the lock, and nobody else does.             *)
LockInv ==
  \A t \in Task : lock = t <=> op[t] \in {"confirm", "retry"}

(* During startup recovery no request runs and no session exists.          *)
DownInv ==
  ~up => /\ \A t \in Task : pc[t] = "idle"
         /\ \A a \in Action : ~session[a].open

(* Where a task is tells what it serves and what its locals hold.          *)
ControlInv(t) ==
  /\ pc[t] = "idle" <=> op[t] = "none"
  /\ pc[t] \in {"authorize", "approve"} => act[t] \in Plan
  /\ pc[t] \in {"authorize", "approve", "persist", "start"} =>
       op[t] = "confirm" /\ rest[t] # {}
  /\ op[t] # "confirm" => rest[t] = {}
  /\ pc[t] = "retrying" => op[t] = "retry"
  /\ op[t] = "cancel" => pc[t] \in {"closing", "record"}
  /\ pc[t] \in InCall \cup {"retrying"} => act[t] \in Action
  /\ pc[t] \in {"retrying", "posted", "send", "sending", "lookup"} =>
       op[t] \in {"confirm", "retry"}
  /\ pc[t] \in {"call", "posted", "send", "sending", "lookup"} => op[t] # "resume"
  /\ pc[t] \in {"call", "advance", "clicked", "evaluate", "closing"} /\ op[t] = "retry" =>
       MethodOf(act[t]) # "browser"
  /\ pc[t] = "retrying" => MethodOf(act[t]) # "browser"
  /\ pc[t] = "posted" => MethodOf(act[t]) = "rfc8058"
  /\ pc[t] \in {"send", "sending", "lookup"} => MethodOf(act[t]) = "mailto"
  /\ pc[t] \in {"advance", "clicked", "evaluate", "closing"} => MethodOf(act[t]) = "browser"
  /\ op[t] \in {"resume", "cancel"} => MethodOf(act[t]) = "browser"
  /\ pc[t] \in {"closing", "record"} => result[t] \in Result

(* What a row says of the contacts made for its action.                    *)
RowInv(a) ==
  /\ refused[a] <= contacts[a] /\ contacts[a] <= refused[a] + 1
  /\ contacts[a] <= row[a].retries + 1
  /\ MethodOf(a) # "rfc8058" => refused[a] = 0
  /\ MethodOf(a) = "browser" => row[a].retries = 0
  /\ row[a].state = "absent" => row[a].retries = 0 /\ contacts[a] = 0
  /\ row[a].state = "confirmed_by_user" /\ row[a].retries = 0 => contacts[a] = 0
  /\ RetryEligible(a) => ~Outstanding(a)
  /\ row[a].state = "submitted" => Outstanding(a) /\ (MethodOf(a) = "mailto" => sent[a])
  /\ sent[a] => MethodOf(a) = "mailto" /\ contacts[a] > 0
  /\ MethodOf(a) = "mailto" /\ contacts[a] > 0 => row[a].journaled

(* What a browser session says of its action.                              *)
SessionInv(a) ==
  /\ session[a].open => /\ MethodOf(a) = "browser"
                        /\ row[a].state \in {"executing", "needs_user"}
                        /\ ~session[a].clicked => contacts[a] = 0
  /\ session[a].clicked => MethodOf(a) = "browser" /\ contacts[a] = 1
  /\ session[a].shown => /\ MethodOf(a) = "browser"
                         /\ row[a].state \notin {"absent", "selected", "confirmed_by_user"}

(* What a task may rely on while it works on its action.                   *)
CallInv(t, a) ==
  Drives(t, a) =>
    /\ row[a].state = "executing"
    /\ pc[t] \in {"call", "send"} => ~Outstanding(a) /\ contacts[a] <= row[a].retries
    /\ pc[t] = "call" /\ MethodOf(a) = "browser" => ~session[a].open /\ ~session[a].shown
    /\ pc[t] = "send" => row[a].journaled
    /\ pc[t] \in {"posted", "sending", "lookup", "clicked"} => Outstanding(a)
    /\ pc[t] = "clicked" => session[a].clicked
    /\ pc[t] = "advance" => contacts[a] = 0 /\ ~session[a].clicked
    /\ pc[t] \in {"closing", "record"} =>
         /\ result[t].state \in {"confirmed", "submitted", "needs_user", "failed"}
         /\ result[t].state = "submitted" =>
              Outstanding(a) /\ (MethodOf(a) = "mailto" => sent[a])
         /\ result[t].code # "other" => ~Outstanding(a)
         /\ result[t].state # "needs_user" => ~session[a].open

(* The actions still to come, before and after they are recorded.          *)
RestInv(t) ==
  /\ pc[t] \in {"authorize", "approve", "persist"} =>
       \A a \in rest[t] : row[a].state = "absent"
  /\ pc[t] \in InCall \cup {"start"} =>
       \A a \in rest[t] : row[a].state = "confirmed_by_user" /\ row[a].retries = 0

RetryInv(t) ==
  pc[t] = "retrying" =>
    /\ row[act[t]].retries = 1 /\ ~Outstanding(act[t]) /\ contacts[act[t]] <= 1
    /\ row[act[t]].state \in {"failed", "reviewed", "selected", "confirmed_by_user", "needs_user"}

CancelInv(t) ==
  op[t] = "cancel" =>
    /\ result[t] = Res("reviewed", "other", FALSE)
    /\ session[act[t]].shown /\ ~session[act[t]].open

IInv ==
  /\ TypeOK
  /\ LockInv
  /\ DownInv
  /\ \A t \in Task : ControlInv(t)
  /\ \A a \in Action : RowInv(a) /\ SessionInv(a)
  /\ \A t \in Task, a \in Action : CallInv(t, a)
  /\ \A t \in Task : RestInv(t) /\ RetryInv(t) /\ CancelInv(t)
  /\ OneDriver

=============================================================================
