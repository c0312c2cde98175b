---------------------------- MODULE WhatsAppRouting ----------------------------
(***************************************************************************)
(* How the WhatsApp webhook (app/api/webhooks/whatsapp.py) answers a       *)
(* person.  It differs from Telegram's: listed administrators are known by *)
(* their number and have a menu of their own ("#"), a state that does not  *)
(* fit the role is not replaced, and an administrator who returns from a   *)
(* role keeps the association with a station that the switch made.         *)
(***************************************************************************)
EXTENDS Dialogue

CONSTANTS listed, switching

Texts == {"#", "back to menu", "back to admin", "join as courier", "join as driver",
          "quick delivery", "join as station", "contact management", "dispatcher menu",
          "back to main menu", "parcel", "anything else"}

NamesAMenu == {"back to menu", "back to main menu", "back to admin", "dispatcher menu"}

-----------------------------------------------------------------------------
(* The menu of a role *)

(* _sender_fallback_wa                                                     *)
SenderFallback(p) == HandleMenu(ForceState(p, <<"sender", "MENU">>), "sender")

(* _resolve_role_state_wa                                                  *)
ResolveRoleState(p) ==
    LET DispatcherMenuOr(state) ==
            ForceState(p, IF DispatcherMenuFirst(p) THEN <<"dispatcher", "MENU">> ELSE state) IN
    CASE p.role = "COURIER" -> ForceState(p, <<"courier", "MENU">>)
      [] p.role = "STATION_OWNER" ->
             IF p.owner THEN ForceState(p, <<"station", "MENU">>)
             ELSE ForceState([p EXCEPT !.role = "SENDER"], <<"sender", "MENU">>)
      [] p.role = "DRIVER" -> DispatcherMenuOr(<<"driver", "INITIAL">>)
      [] p.role = "ADMIN" -> ForceState(p, IF switching THEN <<"admin", "MENU">> ELSE <<"sender", "MENU">>)
      [] p.role = "SENDER" -> DispatcherMenuOr(<<"sender", "MENU">>)

(* _reset_role_state_wa                                                    *)
ResetRoleState(p) == Restored({ResolveRoleState(p)}, SavedIfAdmin(p))

(* _build_role_menu_response_wa                                            *)
RoleMenu(p) == HandleMenu(p, p.here[1])

(* _route_to_role_menu_wa                                                  *)
RouteToRoleMenu(p) == Restored(RoleMenu(ResolveRoleState(p)), SavedIfAdmin(p))

-----------------------------------------------------------------------------
(* Texts with a meaning of their own *)

(* "#" of a listed administrator: the senders' menu, in any role but that  *)
(* of a courier.                                                           *)
AdminHome(p) ==
    {Put(ForceState([p EXCEPT !.role = IF @ = "COURIER" THEN "SENDER" ELSE @], <<"sender", "MENU">>),
         "admin_root_menu")}

Home(p) ==
    IF listed THEN AdminHome(p)
    ELSE IF p.role = "COURIER" /\ (p.approval # "approved" \/ "entered_as_admin" \in p.ctx)
    THEN {ForceState([p EXCEPT !.role = "SENDER"], <<"sender", "MENU">>)}
    ELSE RouteToRoleMenu(p)

(* Written out here instead of calling restore_admin_role_and_route, and   *)
(* without its first step.                                                 *)
ReturnToAdmin(p) == HandleMenu(ForceState(AdminAgain(p), <<"admin", "MENU">>), "admin")

InAdminRootMenu(p) == "admin_root_menu" \in p.ctx /\ listed

(* The buttons of the senders' menu.                                       *)
PressesSenderButton(p, text) ==
    /\ ~InMultiStepFlow(p)
    /\ \/ /\ text \in {"join as courier", "join as driver", "quick delivery", "join as station"}
          /\ p.role \in {"SENDER", "ADMIN"} \/ InAdminRootMenu(p)
       \/ /\ text \in {"back to menu", "back to main menu"}
          /\ p.role \notin {"COURIER", "STATION_OWNER"} \/ InAdminRootMenu(p)

Join(p, role, flow) ==
    LET joined == ForceState([p EXCEPT !.role = role], <<flow, "INITIAL">>) IN
    HandleMenu(IF listed THEN Put(joined, "entered_as_admin") ELSE joined, flow)

SenderButton(p, text) ==
    CASE text = "join as courier" -> Join(p, "COURIER", "courier")
      [] text = "join as driver"  -> Join(p, "DRIVER", "driver")
      [] OTHER                    -> Keep(p)

ContactAdmin(p, text) ==
    LET sent == [p EXCEPT !.ctx = @ \ {"contact_admin_pending"}] IN
    IF text \in NamesAMenu THEN RouteToRoleMenu(sent) ELSE ResetRoleState(sent)

-----------------------------------------------------------------------------
(* Everything else, by role and state *)

OwnerMessage(p) == IF p.owner THEN Handle(p, "station") ELSE RouteToRoleMenu(p)

OpenDispatcherMenu(p) ==
    IF p.dispatcher = "none" THEN RouteToRoleMenu(p)
    ELSE Restored(HandleMenu(ForceState(p, <<"dispatcher", "MENU">>), "dispatcher"), Saved(p))

LeaveDispatcherFlow(p) ==
    IF Impersonating(p) THEN RestoreAdminRole(p)
    ELSE CASE p.role = "COURIER" -> HandleMenu(ForceState(p, <<"courier", "MENU">>), "courier")
           [] p.role = "DRIVER"  -> HandleMenu(ForceState(p, <<"driver", "INITIAL">>), "driver")
           [] OTHER              -> SenderFallback(p)

DispatcherMessage(p, text) ==
    IF p.dispatcher = "none" THEN RouteToRoleMenu(p)
    ELSE IF text = "back to main menu" THEN LeaveDispatcherFlow(p)
    ELSE Handle(p, "dispatcher")

AdminMessage(p) ==
    IF switching
    THEN LET from == IF In(p, "admin") THEN p ELSE ForceState(p, <<"admin", "MENU">>) IN
         UNION {IF q.here[1] = "switch" THEN RouteToRoleMenu(q) ELSE {q} : q \in HandleAdmin(from)}
    ELSE IF In(p, "sender") THEN Handle(p, "sender") ELSE SenderFallback(p)

DriverMessage(p) ==
    IF In(p, "driver") THEN Handle(p, "driver")
    ELSE Restored(HandleMenu(ForceState(p, <<"driver", "INITIAL">>), "driver"), Saved(p))

(* A sender in a state of another role is only welcomed, until "#".        *)
SenderMessage(p, text) ==
    IF text = "parcel" \/ In(p, "sender") \/ In(p, "switch") THEN Handle(p, "sender") ELSE Keep(p)

MessageByRole(p, text) ==
    CASE p.role = "STATION_OWNER" -> OwnerMessage(p)
      [] p.role # "STATION_OWNER" /\ In(p, "dispatcher") -> DispatcherMessage(p, text)
      [] p.role # "STATION_OWNER" /\ ~In(p, "dispatcher") /\ text = "dispatcher menu" ->
             OpenDispatcherMenu(p)
      [] OTHER -> CASE In(p, "station") -> OwnerMessage(p)
                    [] ~In(p, "station") /\ p.role = "ADMIN"   -> AdminMessage(p)
                    [] ~In(p, "station") /\ p.role = "COURIER" -> Handle(p, "courier")
                    [] ~In(p, "station") /\ p.role = "DRIVER"  -> DriverMessage(p)
                    [] ~In(p, "station") /\ p.role = "SENDER"  -> SenderMessage(p, text)

(* whatsapp_webhook, in the order of its cases.                            *)
Answered(p, text) ==
    IF text = "#" THEN Home(p)
    ELSE IF text = "back to admin" /\ Impersonating(p) THEN ReturnToAdmin(p)
    ELSE IF PressesSenderButton(p, text) THEN SenderButton(p, text)
    ELSE IF text = "contact management" THEN {Put(p, "contact_admin_pending")}
    ELSE IF "contact_admin_pending" \in p.ctx THEN ContactAdmin(p, text)
    ELSE MessageByRole(p, text)
================================================================================
