-------------------------------- MODULE Dialogue --------------------------------
(***************************************************************************)
(* One person and the person's conversation on one platform, and what the  *)
(* two webhooks share: the handlers of the flows, and saving, restoring    *)
(* and undoing an administrator's switch of role                           *)
(* (app/api/webhooks/_admin_context.py).                                   *)
(*                                                                         *)
(* A person is a record: the user's row (role, approval, terms, ...), the  *)
(* links to stations (dispatcher, owner), the conversation (here, ctx) and *)
(* heard, the handler that ran for the last message.                       *)
(***************************************************************************)
CONSTANTS RegisteringAsCourier(_), Outcomes(_, _), MenuScreens(_, _)    \* those of Handlers

Admin == INSTANCE AdminFlow

Roles == {"SENDER", "COURIER", "DRIVER", "STATION_OWNER", "ADMIN"}

Silent == [flow |-> "none", missing |-> {}]

(* The prefix of the state; the initial state of a session has none.       *)
In(p, flow) == p.here[1] = flow /\ p.here # <<"sender", "INITIAL">>

InMultiStepFlow(p) ==
    \/ RegisteringAsCourier(p)
    \/ In(p, "sender") /\ p.here[2] # "MENU"
    \/ \E flow \in {"dispatcher", "station", "driver", "admin"} : In(p, flow)

-----------------------------------------------------------------------------
(* Handlers *)

(* remove_owner: a station owner gets another role with the last station;  *)
(* couriers are known by their wallet.                                     *)
NoLongerOwner(p) ==
    {[p EXCEPT !.owner = FALSE, !.role = role] :
        role \in IF p.role # "STATION_OWNER" THEN {p.role}
                 ELSE {"SENDER"} \cup (IF p.terms THEN {"COURIER"} ELSE {})}

(* What an operation of a handler does to the person who asked for it; an  *)
(* owner may be removing themselves, or making themselves a dispatcher.    *)
Effects(p, does) ==
    CASE does = "set_name"  -> {[p EXCEPT !.named = TRUE]}
      [] does = "set_phone" -> {[p EXCEPT !.named = TRUE, !.phoned = TRUE]}
      [] does = "apply_as_courier" ->
             {[p EXCEPT !.role = "COURIER", !.terms = TRUE, !.approval = "pending"]}
      [] does = "complete_driver_registration" -> {[p EXCEPT !.driver = TRUE]}
      [] does = "ask_driver_verification" -> {[p EXCEPT !.verification = "pending"]}
      [] does = "remove_owner" ->
             {p} \cup NoLongerOwner(p)
      [] does = "add_dispatcher" ->
             {p, [p EXCEPT !.dispatcher = IF @ = "none" THEN "real" ELSE @]}
      [] does = "remove_dispatcher" -> {p, [p EXCEPT !.dispatcher = "none"]}
      [] OTHER -> {p}

Handle(p, flow) ==
    UNION {{[q EXCEPT !.here = <<flow, o.to>>, !.ctx = o.ctx,
                      !.heard = [flow |-> flow, missing |-> o.missing]] :
               q \in Effects(p, o.does)} : o \in Outcomes(p, flow)}

HandleAdmin(p) ==
    {[q EXCEPT !.heard = [flow |-> "admin", missing |-> {}]] : q \in Admin!HandleMessage(p)}

(* The same in the state force_state has just set, to the word "menu".     *)
HandleMenu(p, flow) ==
    IF flow = "admin" THEN HandleAdmin(p)
    ELSE {[p EXCEPT !.here = <<flow, screen.to>>,
                    !.heard = [flow |-> flow, missing |-> {}]] : screen \in MenuScreens(p, flow)}

-----------------------------------------------------------------------------
(* State and context *)

(* force_state(..., context={}) *)
ForceState(p, state) == [p EXCEPT !.here = state, !.ctx = {}, !.heard = Silent]

Put(p, key) == [p EXCEPT !.ctx = @ \cup {key}, !.heard = Silent]

(* Somebody answers without a handler: the state stays as it is.           *)
Keep(p) == {[p EXCEPT !.heard = Silent]}

(* save_admin_context *)
Saved(p) == p.ctx \cap Admin!AdminKeys

Impersonating(p) == "original_role" \in p.ctx

(* restore_admin_context *)
Restored(persons, keys) == {[p EXCEPT !.ctx = @ \cup keys] : p \in persons}

(* What routing restores when the person is an administrator in a role.    *)
SavedIfAdmin(p) == IF Impersonating(p) THEN Saved(p) ELSE {}

(* Fault: the approval of the visit is kept. *)
AdminAsApproved(p) == [p EXCEPT !.role = "ADMIN"]

(* restore_admin_role_and_route: the administrator is back, as before the  *)
(* switch, and in the menu.                                                *)
AdminAgain(p) == [p EXCEPT !.role = "ADMIN", !.approval = Admin!OriginalApproval(p.ctx)]

(* Fault: the association is forgotten. *)
RestoreRoleOnly(p) == HandleMenu(ForceState(AdminAgain(p), <<"admin", "MENU">>), "admin")

RestoreAdminRole(p) ==
    HandleMenu(ForceState(AdminAgain(Admin!WithoutLentDispatcher(p, p.ctx)), <<"admin", "MENU">>), "admin")

(* In a role that is not that of a dispatcher, an administrator who is one *)
(* goes to the role's menu.                                                *)
DispatcherMenuFirst(p) ==
    p.dispatcher # "none" /\ (Impersonating(p) => "as_dispatcher" \in p.ctx)
================================================================================
