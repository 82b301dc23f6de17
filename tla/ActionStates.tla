---------------------------- MODULE ActionStates ----------------------------
(***************************************************************************)
(* The states of one unsubscribe action and the transitions the durable    *)
(* record may take (backend/app/domain/state_machine.py).  "absent" is the *)
(* state of an action that has no row in the database yet.                 *)
(***************************************************************************)

ActionState == {"discovered", "reviewed", "selected", "confirmed_by_user",
                "executing", "confirmed", "submitted", "needs_user", "failed"}

RowState == ActionState \cup {"absent"}

(* ALLOWED_ACTION_TRANSITIONS; a row that does not exist has no successor. *)
Allowed ==
  [discovered        |-> {"reviewed"},
   reviewed          |-> {"selected"},
   selected          |-> {"reviewed", "confirmed_by_user"},
   confirmed_by_user |-> {"executing", "reviewed"},
   executing         |-> {"confirmed", "submitted", "needs_user", "failed"},
   needs_user        |-> {"executing", "reviewed"},
   failed            |-> {"reviewed"},
   confirmed         |-> {},
   submitted         |-> {},
   absent            |-> {}]

=============================================================================
