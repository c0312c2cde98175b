------------------------------ MODULE CloudRouting ------------------------------
(***************************************************************************)
(* How the webhook of WhatsApp's Cloud API                                 *)
(* (app/api/webhooks/whatsapp_cloud.py) answers a person.  The menus and   *)
(* what follows a return are those of the other WhatsApp webhook; the      *)
(* order of the cases differs, "#" is the same for everybody, and joining  *)
(* keeps nothing of an administrator's switch.                             *)
(***************************************************************************)
EXTENDS WhatsAppRouting

CloudTexts == Texts \ {"parcel"}

(* The buttons of the senders' menu, here for senders only.                *)
PressesMenuButton(p, text) ==
    /\ p.role = "SENDER" /\ ~InMultiStepFlow(p)
    /\ text \in {"join as courier", "join as driver", "quick delivery", "join as station",
                 "back to menu", "back to main menu"}

JoinFromMenu(p, role, flow) == HandleMenu(ForceState([p EXCEPT !.role = role], <<flow, "INITIAL">>), flow)

MenuButton(p, text) ==
    CASE text = "join as courier" -> JoinFromMenu(p, "COURIER", "courier")
      [] text = "join as driver"  -> JoinFromMenu(p, "DRIVER", "driver")
      [] OTHER                    -> Keep(p)

(* A driver who is a dispatcher comes to the senders' menu from here.      *)
LeaveDispatcherMenu(p) ==
    IF Impersonating(p) THEN RestoreAdminRole(p)
    ELSE IF p.role = "COURIER" THEN HandleMenu(ForceState(p, <<"courier", "MENU">>), "courier")
    ELSE SenderFallback(p)

InDispatcherFlow(p, text) ==
    IF p.dispatcher = "none" THEN RouteToRoleMenu(p)
    ELSE IF text = "back to main menu" THEN LeaveDispatcherMenu(p)
    ELSE Handle(p, "dispatcher")

(* Only a sender's state is continued; everybody else is welcomed.         *)
ContinueAsSender(p) == IF In(p, "sender") THEN Handle(p, "sender") ELSE Keep(p)

ByRole(p, text) ==
    CASE p.role = "STATION_OWNER" -> OwnerMessage(p)
      [] p.role # "STATION_OWNER" /\ In(p, "dispatcher") -> InDispatcherFlow(p, text)
      [] p.role # "STATION_OWNER" /\ ~In(p, "dispatcher") /\ text = "dispatcher menu" ->
             OpenDispatcherMenu(p)
      [] OTHER -> CASE p.role = "COURIER" -> Handle(p, "courier")
                    [] p.role = "DRIVER"  -> DriverMessage(p)
                    [] p.role = "SENDER"  -> ContinueAsSender(p)

(* "#" and then _route_message_to_handler, in the order of its returns.    *)
AnsweredInCloud(p, text) ==
    IF text = "#" THEN RouteToRoleMenu(p)
    ELSE IF text = "back to admin" /\ Impersonating(p) THEN ReturnToAdmin(p)
    ELSE IF p.role = "ADMIN" THEN AdminMessage(p)
    ELSE IF PressesMenuButton(p, text) THEN MenuButton(p, text)
    ELSE IF text = "contact management" THEN {Put(p, "contact_admin_pending")}
    ELSE IF "contact_admin_pending" \in p.ctx THEN ContactAdmin(p, text)
    ELSE ByRole(p, text)
================================================================================
