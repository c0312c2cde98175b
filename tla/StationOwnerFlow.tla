---------------------------- MODULE StationOwnerFlow ----------------------------
(***************************************************************************)
(* The conversation of a station's owner                                   *)
(* (app/state_machine/station_owner_handler.py) and its declared           *)
(* transitions (STATION_OWNER_TRANSITIONS of states.py).                   *)
(***************************************************************************)
EXTENDS Answers

(* _MANAGEMENT_CONTEXT_KEYS, without three that no handler sets.           *)
ManagementKeys == {"owner_map", "remove_owner_id", "remove_owner_name",
                   "dispatcher_map", "remove_dispatcher_id", "remove_dispatcher_name",
                   "blacklist_phone", "blacklist_map",
                   "remove_blacklist_courier_id", "remove_blacklist_name"}

Declared == [
    MENU                      |-> {"MANAGE_OWNERS", "MANAGE_DISPATCHERS", "VIEW_WALLET",
                                   "COLLECTION_REPORT", "VIEW_BLACKLIST", "GROUP_SETTINGS",
                                   "STATION_SETTINGS"},
    MANAGE_OWNERS             |-> {"ADD_OWNER_PHONE", "REMOVE_OWNER_SELECT", "MENU"},
    ADD_OWNER_PHONE           |-> {"MANAGE_OWNERS", "MENU"},
    REMOVE_OWNER_SELECT       |-> {"CONFIRM_REMOVE_OWNER", "MANAGE_OWNERS", "MENU"},
    CONFIRM_REMOVE_OWNER      |-> {"MANAGE_OWNERS", "REMOVE_OWNER_SELECT", "MENU"},
    MANAGE_DISPATCHERS        |-> {"ADD_DISPATCHER_PHONE", "REMOVE_DISPATCHER_SELECT", "MENU"},
    ADD_DISPATCHER_PHONE      |-> {"MANAGE_DISPATCHERS", "MENU"},
    REMOVE_DISPATCHER_SELECT  |-> {"CONFIRM_REMOVE_DISPATCHER", "MANAGE_DISPATCHERS", "MENU"},
    CONFIRM_REMOVE_DISPATCHER |-> {"MANAGE_DISPATCHERS", "REMOVE_DISPATCHER_SELECT", "MENU"},
    VIEW_WALLET               |-> {"SET_COMMISSION_RATE", "MENU"},
    SET_COMMISSION_RATE       |-> {"VIEW_WALLET", "MENU"},
    COLLECTION_REPORT         |-> {"MENU"},
    VIEW_BLACKLIST            |-> {"ADD_BLACKLIST_PHONE", "REMOVE_BLACKLIST_SELECT", "MENU"},
    ADD_BLACKLIST_PHONE       |-> {"ADD_BLACKLIST_REASON", "VIEW_BLACKLIST"},
    ADD_BLACKLIST_REASON      |-> {"VIEW_BLACKLIST", "MENU"},
    REMOVE_BLACKLIST_SELECT   |-> {"CONFIRM_REMOVE_BLACKLIST", "VIEW_BLACKLIST", "MENU"},
    CONFIRM_REMOVE_BLACKLIST  |-> {"VIEW_BLACKLIST", "REMOVE_BLACKLIST_SELECT", "MENU"},
    GROUP_SETTINGS            |-> {"SET_PUBLIC_GROUP", "SET_PRIVATE_GROUP", "MENU"},
    SET_PUBLIC_GROUP          |-> {"GROUP_SETTINGS", "MENU"},
    SET_PRIVATE_GROUP         |-> {"GROUP_SETTINGS", "MENU"},
    STATION_SETTINGS          |-> {"EDIT_STATION_NAME", "EDIT_STATION_DESCRIPTION",
                                   "EDIT_OPERATING_HOURS", "EDIT_SERVICE_AREAS", "MENU"},
    EDIT_STATION_NAME         |-> {"STATION_SETTINGS", "MENU"},
    EDIT_STATION_DESCRIPTION  |-> {"STATION_SETTINGS", "MENU"},
    EDIT_OPERATING_HOURS      |-> {"STATION_SETTINGS", "MENU"},
    EDIT_SERVICE_AREAS        |-> {"STATION_SETTINGS", "MENU"}]

-----------------------------------------------------------------------------
(* Screens *)

ShowMenu == {Show("MENU")}

ShowManageOwners == {Show("MANAGE_OWNERS")}

(* The last owner cannot be removed: then there is no list.                *)
ShowOwnerListForRemoval ==
    ShowManageOwners \cup {Fill("REMOVE_OWNER_SELECT", {"owner_map"})}

ShowManageDispatchers == {Show("MANAGE_DISPATCHERS")}

ShowDispatcherListForRemoval ==
    ShowManageDispatchers \cup {Fill("REMOVE_DISPATCHER_SELECT", {"dispatcher_map"})}

ShowWallet == {Show("VIEW_WALLET")}

ShowSetCommissionRate == {Show("SET_COMMISSION_RATE")}

ShowCollectionReport == {Show("COLLECTION_REPORT")}

ShowBlacklist == {Show("VIEW_BLACKLIST")}

ShowBlacklistForRemoval ==
    ShowBlacklist \cup {Fill("REMOVE_BLACKLIST_SELECT", {"blacklist_map"})}

ShowGroupSettings == {Show("GROUP_SETTINGS")}

ShowStationSettings == {Show("STATION_SETTINGS")}

ShowEditOperatingHours == {Show("EDIT_OPERATING_HOURS")}

-----------------------------------------------------------------------------
(* Handlers *)

Menu ==
    UNION {ShowMenu, ShowManageOwners, ShowManageDispatchers, ShowWallet, ShowCollectionReport,
           ShowBlacklist, ShowGroupSettings, ShowStationSettings}

(* A number of the list that was shown, or the choice is offered again.    *)
Select(ctx, list, again, confirm, put) ==
    again \cup IF list \in ctx THEN {Fill(confirm, put)} ELSE {}

(* "yes" without a choice goes back.                                       *)
Confirm(ctx, here, back, remove, id) ==
    UNION {{Show(here)}, back,
           IF id \in ctx THEN {Perform(b.to, remove, {id}) : b \in back} ELSE {}}

ManageOwners ==
    UNION {ShowMenu, {Show("ADD_OWNER_PHONE")}, ShowOwnerListForRemoval, ShowManageOwners}

AddOwner == ShowManageOwners \cup {Perform("MANAGE_OWNERS", "add_owner", {})}

RemoveOwnerSelect(ctx) ==
    ShowManageOwners \cup
    Select(ctx, "owner_map", ShowOwnerListForRemoval, "CONFIRM_REMOVE_OWNER",
           {"remove_owner_id", "remove_owner_name"})

ConfirmRemoveOwner(ctx) ==
    Confirm(ctx, "CONFIRM_REMOVE_OWNER", ShowManageOwners, "remove_owner", "remove_owner_id")

ManageDispatchers ==
    UNION {ShowMenu, {Show("ADD_DISPATCHER_PHONE")}, ShowDispatcherListForRemoval,
           ShowManageDispatchers}

AddDispatcher == ShowManageDispatchers \cup {Perform("MANAGE_DISPATCHERS", "add_dispatcher", {})}

RemoveDispatcherSelect(ctx) ==
    ShowManageDispatchers \cup
    Select(ctx, "dispatcher_map", {Show("REMOVE_DISPATCHER_SELECT")}, "CONFIRM_REMOVE_DISPATCHER",
           {"remove_dispatcher_id", "remove_dispatcher_name"})

ConfirmRemoveDispatcher(ctx) ==
    Confirm(ctx, "CONFIRM_REMOVE_DISPATCHER", ShowManageDispatchers, "remove_dispatcher",
            "remove_dispatcher_id")

ViewWallet == UNION {ShowMenu, ShowSetCommissionRate, ShowWallet}

SetCommissionRate ==
    UNION {ShowWallet, {Show("SET_COMMISSION_RATE")},
           {Perform("VIEW_WALLET", "update_commission_rate", {})}}

CollectionReport == ShowMenu \cup ShowCollectionReport

ViewBlacklist ==
    UNION {ShowMenu, {Show("ADD_BLACKLIST_PHONE")}, ShowBlacklistForRemoval, ShowBlacklist}

AddBlacklistPhone ==
    ShowBlacklist \cup Ask("ADD_BLACKLIST_PHONE", "ADD_BLACKLIST_REASON", {"blacklist_phone"})

AddBlacklistReason ==
    ShowBlacklist \cup {Perform("VIEW_BLACKLIST", "add_to_blacklist", {"blacklist_phone"})}

RemoveBlacklistSelect(ctx) ==
    ShowBlacklist \cup
    Select(ctx, "blacklist_map", {Show("REMOVE_BLACKLIST_SELECT")}, "CONFIRM_REMOVE_BLACKLIST",
           {"remove_blacklist_courier_id", "remove_blacklist_name"})

ConfirmRemoveBlacklist(ctx) ==
    Confirm(ctx, "CONFIRM_REMOVE_BLACKLIST", ShowBlacklist, "remove_from_blacklist",
            "remove_blacklist_courier_id")

GroupSettings ==
    UNION {ShowMenu, Screens({"SET_PUBLIC_GROUP", "SET_PRIVATE_GROUP"}), ShowGroupSettings}

SetPublicGroup ==
    ShowGroupSettings \cup {Show("SET_PUBLIC_GROUP"), Perform("GROUP_SETTINGS", "update_station_groups", {})}

SetPrivateGroup ==
    ShowGroupSettings \cup {Show("SET_PRIVATE_GROUP"), Perform("GROUP_SETTINGS", "update_station_groups", {})}

StationSettings ==
    UNION {ShowMenu, ShowStationSettings, ShowEditOperatingHours,
           Screens({"EDIT_STATION_NAME", "EDIT_STATION_DESCRIPTION", "EDIT_SERVICE_AREAS"})}

(* A setting is saved or asked for again.                                  *)
EditName ==
    ShowStationSettings \cup {Show("EDIT_STATION_NAME"), Perform("STATION_SETTINGS", "update_station_settings", {})}

EditDescription ==
    ShowStationSettings \cup
    {Show("EDIT_STATION_DESCRIPTION"), Perform("STATION_SETTINGS", "update_station_settings", {})}

(* One day is saved at a time; only deleting them all goes back.           *)
EditOperatingHours ==
    ShowStationSettings \cup ShowEditOperatingHours \cup
    {Perform(to, "update_station_settings", {}) : to \in {"EDIT_OPERATING_HOURS", "STATION_SETTINGS"}}

EditServiceAreas ==
    ShowStationSettings \cup
    {Show("EDIT_SERVICE_AREAS"), Perform("STATION_SETTINGS", "update_station_settings", {})}

(* _get_handler *)
Handlers(ctx) == [
    MENU                      |-> Menu,
    MANAGE_OWNERS             |-> ManageOwners,
    ADD_OWNER_PHONE           |-> AddOwner,
    REMOVE_OWNER_SELECT       |-> RemoveOwnerSelect(ctx),
    CONFIRM_REMOVE_OWNER      |-> ConfirmRemoveOwner(ctx),
    MANAGE_DISPATCHERS        |-> ManageDispatchers,
    ADD_DISPATCHER_PHONE      |-> AddDispatcher,
    REMOVE_DISPATCHER_SELECT  |-> RemoveDispatcherSelect(ctx),
    CONFIRM_REMOVE_DISPATCHER |-> ConfirmRemoveDispatcher(ctx),
    VIEW_WALLET               |-> ViewWallet,
    SET_COMMISSION_RATE       |-> SetCommissionRate,
    COLLECTION_REPORT         |-> CollectionReport,
    VIEW_BLACKLIST            |-> ViewBlacklist,
    ADD_BLACKLIST_PHONE       |-> AddBlacklistPhone,
    ADD_BLACKLIST_REASON      |-> AddBlacklistReason,
    REMOVE_BLACKLIST_SELECT   |-> RemoveBlacklistSelect(ctx),
    CONFIRM_REMOVE_BLACKLIST  |-> ConfirmRemoveBlacklist(ctx),
    GROUP_SETTINGS            |-> GroupSettings,
    SET_PUBLIC_GROUP          |-> SetPublicGroup,
    SET_PRIVATE_GROUP         |-> SetPrivateGroup,
    STATION_SETTINGS          |-> StationSettings,
    EDIT_STATION_NAME         |-> EditName,
    EDIT_STATION_DESCRIPTION  |-> EditDescription,
    EDIT_OPERATING_HOURS      |-> EditOperatingHours,
    EDIT_SERVICE_AREAS        |-> EditServiceAreas]

-----------------------------------------------------------------------------
(* handle_message: back in the menu, nothing of a form is left.  A state   *)
(* of another flow is answered with the menu.                              *)
HandleMessage(here, ctx) ==
    IF here \notin DOMAIN Declared THEN {Merged(answer, ctx) : answer \in ShowMenu}
    ELSE {IF answer.to = "MENU" /\ here # "MENU"
          THEN Outcome(answer, ctx, ctx \ ManagementKeys)
          ELSE Merged(answer, ctx) : answer \in Handlers(ctx)[here]}
================================================================================
