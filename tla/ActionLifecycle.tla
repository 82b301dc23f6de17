-------------------------- MODULE ActionLifecycle ---------------------------
(***************************************************************************)
(* What the product promises about every unsubscribe action, whatever the  *)
(* method that carries it out: it starts with a confirmation by the user,  *)
(* its state only moves along the allowed transitions, the outside world   *)
(* is contacted (a POST, a mail, a click) only while it is executing, and  *)
(* a second contact is made only after the first was refused by the other  *)
(* side, so that no side effect that may have happened is ever repeated.   *)
(*                                                                         *)
(* Execution implements this specification.                                *)
(***************************************************************************)
EXTENDS ActionStates, Naturals

CONSTANT Action      \* the actions, identified by their idempotency key

VARIABLES
  status,            \* the state of the action's row
  contacts,          \* how often the outside world has been contacted
  refused            \* how many of these contacts are known to be without effect

vars == <<status, contacts, refused>>

Outstanding(a) == contacts[a] > refused[a]

Init ==
  /\ status   = [a \in Action |-> "absent"]
  /\ contacts = [a \in Action |-> 0]
  /\ refused  = [a \in Action |-> 0]

(* The user confirms a plan: all its actions are recorded together. *)
Confirm(S) ==
  /\ S # {}
  /\ \A a \in S : status[a] = "absent"
  /\ status' = [a \in Action |-> IF a \in S THEN "confirmed_by_user" ELSE status[a]]
  /\ UNCHANGED <<contacts, refused>>

(* The outcome "submitted" is claimed only with a contact to show for it,  *)
(* and an action is selected again only if nothing it did can be in effect. *)
Move(a, s) ==
  /\ s \in Allowed[status[a]]
  /\ s = "submitted" => Outstanding(a)
  /\ s = "selected" => ~Outstanding(a)
  /\ status' = [status EXCEPT ![a] = s]
  /\ UNCHANGED <<contacts, refused>>

Contact(a) ==
  /\ status[a] = "executing"
  /\ ~Outstanding(a)
  /\ contacts[a] < 2
  /\ contacts' = [contacts EXCEPT ![a] = @ + 1]
  /\ UNCHANGED <<status, refused>>

Refuse(a) ==
  /\ status[a] = "executing"
  /\ Outstanding(a)
  /\ refused' = [refused EXCEPT ![a] = @ + 1]
  /\ UNCHANGED <<status, contacts>>

Next ==
  \/ \E S \in SUBSET Action : Confirm(S)
  \/ \E a \in Action :
       \/ \E s \in ActionState : Move(a, s)
       \/ Contact(a)
       \/ Refuse(a)

Spec == Init /\ [][Next]_vars

=============================================================================
