------------------------------- MODULE AdminFlow -------------------------------
(***************************************************************************)
(* The administrator's conversation (app/state_machine/admin_handler.py):  *)
(* a temporary switch to the role of somebody else.                        *)
(*                                                                         *)
(* A switch changes the person as well as the conversation, so the answers *)
(* here are persons; what is needed to undo it stays in the context.  A    *)
(* person's dispatcher is "none", "real" (the owners of a station made     *)
(* them one) or "lent" (a switch did).                                     *)
(***************************************************************************)
EXTENDS Answers

Declared == [MENU |-> {"SELECT_ROLE"}, SELECT_ROLE |-> {"MENU"}]

(* _BUTTON_TO_ROLE *)
SwitchRoles == {"sender", "courier", "driver", "dispatcher", "station_owner"}

(* role_map: dispatchers are recognised by their station, not by a role.   *)
RoleOf(target) ==
    CASE target = "sender"        -> "SENDER"
      [] target = "courier"       -> "COURIER"
      [] target = "driver"        -> "DRIVER"
      [] target = "dispatcher"    -> "SENDER"
      [] target = "station_owner" -> "STATION_OWNER"

(* original_approval_status, by its value.                                 *)
ApprovalKey(approval) ==
    CASE approval = "none"     -> {}
      [] approval = "pending"  -> {"original_approval_pending"}
      [] approval = "approved" -> {"original_approval_approved"}
      [] approval = "rejected" -> {"original_approval_rejected"}
      [] approval = "blocked"  -> {"original_approval_blocked"}

OriginalApproval(ctx) ==
    IF "original_approval_approved" \in ctx THEN "approved"
    ELSE IF "original_approval_pending" \in ctx THEN "pending"
    ELSE IF "original_approval_rejected" \in ctx THEN "rejected"
    ELSE IF "original_approval_blocked" \in ctx THEN "blocked" ELSE "none"

(* _ADMIN_CONTEXT_KEYS; admin_target_role and admin_station_id matter only *)
(* for a dispatcher.                                                       *)
AdminKeys ==
    {"original_role", "as_dispatcher", "as_other", "admin_dispatcher_preexisted"} \cup
    UNION {ApprovalKey(a) : a \in {"pending", "approved", "rejected", "blocked"}}

(* _ensure_dispatcher_association *)
WithDispatcher(user) ==
    IF user.dispatcher = "none" THEN [user EXCEPT !.dispatcher = "lent"] ELSE user

(* Ends an association that a switch made, and only that: one which was    *)
(* there before the switch is left alone.                                  *)
WithoutLentDispatcher(user, ctx) ==
    IF "as_dispatcher" \in ctx /\ "admin_dispatcher_preexisted" \notin ctx
    THEN [user EXCEPT !.dispatcher = "none"] ELSE user

(* _switch_to_role *)
SwitchToRole(user, target) ==
    LET linked == CASE target = "dispatcher"    -> WithDispatcher(user)
                    [] target = "station_owner" -> [WithoutLentDispatcher(user, user.ctx) EXCEPT !.owner = TRUE]
                    [] OTHER                    -> WithoutLentDispatcher(user, user.ctx)
        preexisted == target = "dispatcher" /\ user.dispatcher # "none" IN
    [linked EXCEPT
        !.role = RoleOf(target),
        !.approval = IF target = "courier" THEN "approved" ELSE @,
        !.here = <<"switch", target>>,
        !.ctx = (@ \ AdminKeys) \cup
                {"original_role", IF target = "dispatcher" THEN "as_dispatcher" ELSE "as_other"} \cup
                ApprovalKey(user.approval) \cup
                (IF preexisted THEN {"admin_dispatcher_preexisted"} ELSE {})]

Menu(user) == {[user EXCEPT !.here = <<"admin", "SELECT_ROLE">>]}

(* Without an active station there is no switch to a role that needs one.  *)
SelectRole(user) == Menu(user) \cup {SwitchToRole(user, target) : target \in SwitchRoles}

(* handle_message: every other state is answered with the menu.            *)
HandleMessage(user) ==
    IF user.here = <<"admin", "SELECT_ROLE">> THEN SelectRole(user) ELSE Menu(user)
================================================================================
