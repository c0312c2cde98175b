---------------------------- MODULE TelegramRouting ----------------------------
(***************************************************************************)
(* How the Telegram webhook (app/api/webhooks/telegram.py) answers a       *)
(* person: which handler gets a message, and which role menu replaces a    *)
(* conversation that does not fit the person any more.  Commands of        *)
(* administrators to approve and reject are actions of Conversation.       *)
(*                                                                         *)
(* listed: the person's chat is in TELEGRAM_ADMIN_CHAT_IDS.  switching:    *)
(* ADMIN_ROLE_SWITCH_ENABLED.  Every operator gives the persons that a     *)
(* message may leave behind.                                               *)
(***************************************************************************)
EXTENDS Dialogue

CONSTANTS listed, switching

(* What the routing tells apart in a text.                                 *)
Texts == {"/start", "#", "back to menu", "back to admin", "join as courier", "join as driver",
          "join as station", "contact management", "dispatcher menu", "back to main menu",
          "parcel", "anything else"}

NamesAMenu == {"back to menu", "back to main menu", "back to admin", "dispatcher menu"}

-----------------------------------------------------------------------------
(* The menu of a role *)

(* _get_station_for_owner_or_downgrade                                     *)
OwnerOrDowngraded(p) == IF p.owner THEN p ELSE [p EXCEPT !.role = "SENDER"]

(* _sender_fallback                                                        *)
SenderFallback(p) == HandleMenu(ForceState(p, <<"sender", "MENU">>), "sender")

(* _resolve_role_state *)
ResolveRoleState(p) ==
    LET DispatcherMenuOr(state) ==
            ForceState(p, IF DispatcherMenuFirst(p) THEN <<"dispatcher", "MENU">> ELSE state) IN
    CASE p.role = "COURIER"       -> ForceState(p, <<"courier", "MENU">>)
      [] p.role = "STATION_OWNER" ->
             ForceState(OwnerOrDowngraded(p), IF p.owner THEN <<"station", "MENU">> ELSE <<"sender", "MENU">>)
      [] p.role = "DRIVER"        -> DispatcherMenuOr(<<"driver", "INITIAL">>)
      [] p.role = "ADMIN"         ->
             ForceState(p, IF switching THEN <<"admin", "MENU">> ELSE <<"sender", "MENU">>)
      [] p.role = "SENDER"        -> DispatcherMenuOr(<<"sender", "MENU">>)

(* _reset_role_state                                                       *)
ResetRoleState(p) == Restored({ResolveRoleState(p)}, SavedIfAdmin(p))

(* _build_role_menu_response                                               *)
RoleMenu(p) == HandleMenu(p, p.here[1])

(* _route_to_role_menu *)
RouteToRoleMenu(p) == Restored(RoleMenu(ResolveRoleState(p)), SavedIfAdmin(p))

-----------------------------------------------------------------------------
(* Texts with a meaning of their own *)

(* A courier who waits for approval starts over; an administrator who only *)
(* visits that role is brought back.                                       *)
Start(p) ==
    IF p.role # "COURIER" \/ p.approval = "approved" THEN RouteToRoleMenu(p)
    ELSE IF Impersonating(p) \/ listed THEN RestoreAdminRole(p)
    ELSE HandleMenu(ForceState(p, <<"courier", "INITIAL">>), "courier")

(* "#".  Unlike /start it looks the user's id up among the chat ids, so    *)
(* being listed does not help here.                                        *)
Home(p) ==
    IF p.role # "COURIER" \/ p.approval = "approved" THEN RouteToRoleMenu(p)
    ELSE IF Impersonating(p) THEN RestoreAdminRole(p)
    ELSE {ForceState([p EXCEPT !.role = "SENDER"], <<"sender", "MENU">>)}

LeavesForMenu(p, text) ==
    /\ text \in {"back to menu", "back to main menu"}
    /\ p.role \notin {"COURIER", "STATION_OWNER"}
    /\ ~In(p, "dispatcher")

ReturnsToAdmin(p, text) ==
    /\ text = "back to admin"
    /\ Impersonating(p) \/ (p.role # "ADMIN" /\ listed)

(* A state of a role the person does not have, or has no longer.           *)
Stale(p) ==
    \/ In(p, "station") /\ p.role # "STATION_OWNER"
    \/ In(p, "dispatcher") /\ p.role # "COURIER" /\ p.dispatcher = "none"
    \/ In(p, "courier") /\ p.role # "COURIER"
    \/ In(p, "sender") /\ p.role \notin {"SENDER", "ADMIN"}
    \/ In(p, "driver") /\ p.role # "DRIVER"
    \/ In(p, "admin") /\ p.role # "ADMIN"

(* _SENDER_BUTTON_ROUTES: the buttons of a sender's menu.                  *)
PressesSenderButton(p, text) ==
    /\ p.role = "SENDER" /\ ~InMultiStepFlow(p)
    /\ text \in {"join as courier", "join as driver", "join as station"}

(* Fault: the keys of an administrator go with the context. *)
JoinAsCourierForGood(p) ==
    HandleMenu(ForceState([p EXCEPT !.role = "COURIER"], <<"courier", "INITIAL">>), "courier")

(* _handle_sender_join_as_courier                                          *)
JoinAsCourier(p) ==
    Restored(HandleMenu(ForceState([p EXCEPT !.role = "COURIER"], <<"courier", "INITIAL">>), "courier"),
             SavedIfAdmin(p))

(* _handle_sender_join_as_driver                                           *)
JoinAsDriver(p) ==
    Restored(HandleMenu(ForceState([p EXCEPT !.role = "DRIVER"], <<"driver", "INITIAL">>), "driver"),
             SavedIfAdmin(p))

SenderButton(p, text) ==
    CASE text = "join as courier" -> JoinAsCourier(p)
      [] text = "join as driver"  -> JoinAsDriver(p)
      [] text = "join as station" -> Keep(p)

(* The message after "contact management" goes there, if it is not a way   *)
(* back.                                                                   *)
ContactAdmin(p, text) ==
    LET sent == [p EXCEPT !.ctx = @ \ {"contact_admin_pending"}] IN
    IF text \in NamesAMenu THEN RouteToRoleMenu(sent) ELSE ResetRoleState(sent)

-----------------------------------------------------------------------------
(* Everything else, by role *)

OwnerMessage(p) == IF p.owner THEN Handle(p, "station") ELSE RouteToRoleMenu(OwnerOrDowngraded(p))

LeaveDispatcherFlow(p) ==
    IF Impersonating(p) THEN RestoreAdminRole(p)
    ELSE CASE p.role = "COURIER" -> HandleMenu(ForceState(p, <<"courier", "MENU">>), "courier")
           [] p.role = "DRIVER"  -> HandleMenu(ForceState(p, <<"driver", "INITIAL">>), "driver")
           [] OTHER              -> SenderFallback(p)

OpenDispatcherMenu(p) ==
    Restored(HandleMenu(ForceState(p, <<"dispatcher", "MENU">>), "dispatcher"), Saved(p))

(* Fault: the state alone makes a dispatcher. *)
DispatcherMessageUnchecked(p, text) ==
    IF ~In(p, "dispatcher") THEN OpenDispatcherMenu(p)
    ELSE IF text = "back to main menu" THEN LeaveDispatcherFlow(p)
    ELSE Handle(p, "dispatcher")

DispatcherMessage(p, text) ==
    IF p.dispatcher = "none" THEN RouteToRoleMenu(p)
    ELSE IF ~In(p, "dispatcher") THEN OpenDispatcherMenu(p)
    ELSE IF text = "back to main menu" THEN LeaveDispatcherFlow(p)
    ELSE Handle(p, "dispatcher")

DriverMessage(p) ==
    IF In(p, "driver") THEN Handle(p, "driver")
    ELSE Restored(HandleMenu(ForceState(p, <<"driver", "INITIAL">>), "driver"), Saved(p))

(* After a switch the menu of the new role follows.                        *)
AdminMessage(p) ==
    IF switching
    THEN LET from == IF In(p, "admin") THEN p ELSE ForceState(p, <<"admin", "MENU">>) IN
         UNION {IF q.here[1] = "switch" THEN RouteToRoleMenu(q) ELSE {q} : q \in HandleAdmin(from)}
    ELSE IF In(p, "sender") THEN Handle(p, "sender") ELSE SenderFallback(p)

(* A state that is nobody's is the sender's; a sender who has not begun is *)
(* only welcomed.                                                          *)
SenderMessage(p, text) ==
    IF text = "parcel" \/ In(p, "sender") \/ In(p, "switch") THEN Handle(p, "sender") ELSE Keep(p)

MessageByRole(p, text) ==
    CASE p.role = "STATION_OWNER" -> OwnerMessage(p)
      [] p.role # "STATION_OWNER" /\ (In(p, "dispatcher") \/ text = "dispatcher menu") ->
             DispatcherMessage(p, text)
      [] OTHER -> CASE p.role = "COURIER" -> Handle(p, "courier")
                    [] p.role = "DRIVER"  -> DriverMessage(p)
                    [] p.role = "ADMIN"   -> AdminMessage(p)
                    [] p.role = "SENDER"  -> SenderMessage(p, text)

(* telegram_webhook, in the order of its returns.                          *)
Answered(p, text) ==
    IF text = "/start" THEN Start(p)
    ELSE IF text = "#" THEN Home(p)
    ELSE IF LeavesForMenu(p, text) THEN RouteToRoleMenu(p)
    ELSE IF ReturnsToAdmin(p, text) THEN RestoreAdminRole(p)
    ELSE IF Stale(p) THEN RouteToRoleMenu(p)
    ELSE IF PressesSenderButton(p, text) THEN SenderButton(p, text)
    ELSE IF text = "contact management" THEN {Put(p, "contact_admin_pending")}
    ELSE IF "contact_admin_pending" \in p.ctx THEN ContactAdmin(p, text)
    ELSE MessageByRole(p, text)
================================================================================
