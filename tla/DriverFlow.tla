------------------------------- MODULE DriverFlow -------------------------------
(***************************************************************************)
(* The driver's conversation (app/state_machine/driver_handler.py) and its *)
(* declared transitions (DRIVER_TRANSITIONS of states.py), without NEW,    *)
(* SEARCH_CREATE_DESTINATION and SEARCH_CREATE_TYPE, which nothing leads   *)
(* to.  What the screens do to the driver's searches and subscription is   *)
(* in Drivers; here a search or a posting is allowed or refused.           *)
(***************************************************************************)
EXTENDS Answers

RegistrationKeys == {"reg_name", "reg_birth_date", "reg_age", "reg_vehicle"}

SearchKeys == {"search_ids", "delete_all_pending"}

RideKeys == {"ride_origin", "ride_destination", "ride_seats", "ride_price"}

Declared == [
    INITIAL                     |-> {"REGISTER_COLLECT_NAME", "MENU"},
    REGISTER_COLLECT_NAME       |-> {"REGISTER_COLLECT_BIRTH_DATE"},
    REGISTER_COLLECT_BIRTH_DATE |-> {"REGISTER_COLLECT_VEHICLE"},
    REGISTER_COLLECT_VEHICLE    |-> {"REGISTER_COLLECT_DRESS_CODE"},
    REGISTER_COLLECT_DRESS_CODE |-> {"VERIFY_COLLECT_SELFIE", "MENU"},
    VERIFY_COLLECT_SELFIE       |-> {"VERIFY_COLLECT_ID_DOCUMENT"},
    VERIFY_COLLECT_ID_DOCUMENT  |-> {"VERIFY_PENDING_APPROVAL"},
    VERIFY_PENDING_APPROVAL     |-> {"MENU"},
    MENU                        |-> {"SETTINGS_VIEW", "SEARCH_CREATE_ORIGIN", "SEARCH_VIEW_ACTIVE",
                                     "SEARCH_MANAGE", "SUBSCRIPTION_VIEW", "RIDE_POSTING_CONFIRM"},
    SETTINGS_VIEW               |-> {"SETTINGS_VEHICLE_TYPE", "SETTINGS_TRIP_TYPE",
                                     "SETTINGS_SHOW_DELIVERIES", "SETTINGS_UPCOMING_TIMEFRAME",
                                     "SETTINGS_FUTURE_ONLY_MODE", "MENU"},
    SETTINGS_VEHICLE_TYPE       |-> {"SETTINGS_VIEW", "MENU"},
    SETTINGS_TRIP_TYPE          |-> {"SETTINGS_VIEW", "MENU"},
    SETTINGS_SHOW_DELIVERIES    |-> {"SETTINGS_VIEW", "MENU"},
    SETTINGS_UPCOMING_TIMEFRAME |-> {"SETTINGS_VIEW", "MENU"},
    SETTINGS_FUTURE_ONLY_MODE   |-> {"SETTINGS_START_TIME", "SETTINGS_VIEW", "MENU"},
    SETTINGS_START_TIME         |-> {"SETTINGS_VIEW", "MENU"},
    SEARCH_CREATE_ORIGIN        |-> {"MENU"},
    SEARCH_VIEW_ACTIVE          |-> {"SEARCH_MANAGE", "SEARCH_CREATE_ORIGIN", "MENU"},
    SEARCH_MANAGE               |-> {"SEARCH_VIEW_ACTIVE", "MENU"},
    RIDE_POSTING_CONFIRM        |-> {"MENU"},
    SUBSCRIPTION_VIEW           |-> {"SUBSCRIPTION_PURCHASE", "MENU"},
    SUBSCRIPTION_PURCHASE       |-> {"SUBSCRIPTION_VIEW", "MENU"}]

(* _is_registration_flow_state *)
Registering(here) ==
    here \in {"REGISTER_COLLECT_NAME", "REGISTER_COLLECT_BIRTH_DATE", "REGISTER_COLLECT_VEHICLE",
              "REGISTER_COLLECT_DRESS_CODE", "VERIFY_COLLECT_SELFIE",
              "VERIFY_COLLECT_ID_DOCUMENT", "VERIFY_PENDING_APPROVAL"}

-----------------------------------------------------------------------------
(* Registration and verification *)

MainMenu == {Show("MENU")}

(* trial_starts_at, set with the dress code, marks a complete registration.*)
Initial(user) == IF user.driver THEN MainMenu ELSE {Show("REGISTER_COLLECT_NAME")}

CollectName ==
    {Show("REGISTER_COLLECT_NAME"),
     Answer("REGISTER_COLLECT_BIRTH_DATE", {"reg_name"}, {}, "set_name", {})}

CollectBirthDate ==
    AskOver("REGISTER_COLLECT_BIRTH_DATE", "REGISTER_COLLECT_VEHICLE",
            {"reg_birth_date", "reg_age"}, {"reg_name"})

CollectVehicle ==
    Ask("REGISTER_COLLECT_VEHICLE", "REGISTER_COLLECT_DRESS_CODE", {"reg_vehicle"})

(* Some dress codes ask for a verification, and the trial starts anyway.   *)
CollectDressCode ==
    {Show("INITIAL"), Show("REGISTER_COLLECT_DRESS_CODE")} \cup
    {Perform(to, "complete_driver_registration", {"reg_name", "reg_age", "reg_vehicle"}) :
        to \in {"VERIFY_COLLECT_SELFIE", "MENU"}}

(* Without a photograph the driver's card is shown again.                  *)
VerifyCollectSelfie ==
    {Show("MENU"), Show("VERIFY_COLLECT_ID_DOCUMENT"), Show("VERIFY_COLLECT_SELFIE"),
     Perform("VERIFY_COLLECT_SELFIE", "nothing", {"reg_name", "reg_age", "reg_vehicle"})}

VerifyCollectIdDocument ==
    {Show("MENU"), Show("VERIFY_COLLECT_ID_DOCUMENT"),
     Perform("VERIFY_PENDING_APPROVAL", "ask_driver_verification", {})}

VerifyPendingApproval == {Show("VERIFY_PENDING_APPROVAL")}

-----------------------------------------------------------------------------
(* Searches and ride postings *)

SearchView == {Show("SEARCH_VIEW_ACTIVE"), Show("MENU")}

SearchDeleteMenu == {Fill("SEARCH_MANAGE", {"search_ids"}), Show("MENU")}

ShowDeleteAllConfirmation == {Fill("SEARCH_VIEW_ACTIVE", {"delete_all_pending"})}

(* Fault: a state that nobody declares. *)
PauseSearchesElsewhere == {Perform("SEARCH_PAUSED", "pause_all_searches", {})}

(* Pausing and resuming the searches end in the menu.                      *)
PauseSearches == {Perform("MENU", "pause_all_searches", {})}

ResumeSearches == {Perform("MENU", "resume_all_searches", {}), Show("MENU")}

SearchCommand ==
    {Show("MENU"), Show("SEARCH_CREATE_ORIGIN"), Perform("MENU", "create_search", {})}

SearchCreateLocation ==
    {Show("MENU"), Show("SEARCH_CREATE_ORIGIN"), Perform("MENU", "create_search", {})}

(* While the question whether to delete all is open, anything else is no.  *)
SearchViewActive(ctx) ==
    IF "delete_all_pending" \in ctx
    THEN {Answer("MENU", {}, {"delete_all_pending"}, does, {}) :
            does \in {"nothing", "delete_all_searches"}}
    ELSE UNION {MainMenu, SearchCommand, PauseSearches, ResumeSearches, ShowDeleteAllConfirmation,
                SearchDeleteMenu, {Perform("MENU", "delete_all_searches", {})}, SearchView}

(* The number chosen is looked up in the list the context remembers.       *)
SearchManage(ctx) ==
    UNION {SearchView, MainMenu, SearchDeleteMenu,
           IF "search_ids" \in ctx
           THEN {Perform("SEARCH_VIEW_ACTIVE", "delete_search", {"search_ids"})} ELSE {}}

RidePosting == {Show("MENU"), Fill("RIDE_POSTING_CONFIRM", RideKeys)}

RidePostingConfirm ==
    {Show("RIDE_POSTING_CONFIRM"),
     Answer("MENU", {}, RideKeys, "nothing", {}),
     Answer("MENU", {}, RideKeys, "post_ride", RideKeys)}

PricingCommand == {Show("MENU")}

Help == {Show("MENU")}

-----------------------------------------------------------------------------
(* Settings and subscription *)

SettingsMenu == {Show("SETTINGS_VIEW")}

(* A setting is kept, saved or asked for again.                            *)
Setting(here) == {Show(here), Show("SETTINGS_VIEW"), Perform("SETTINGS_VIEW", "save_setting", {})}

SettingsView == SettingsMenu \cup Screens(Declared.SETTINGS_VIEW)

SettingsVehicleType == Setting("SETTINGS_VEHICLE_TYPE")

SettingsTripType == Setting("SETTINGS_TRIP_TYPE")

SettingsShowDeliveries == Setting("SETTINGS_SHOW_DELIVERIES")

SettingsTimeframe == Setting("SETTINGS_UPCOMING_TIMEFRAME")

SettingsFutureOnly == Setting("SETTINGS_FUTURE_ONLY_MODE") \cup {Show("SETTINGS_START_TIME")}

SettingsStartTime == Setting("SETTINGS_START_TIME")

BuildSubscriptionView == {Show("SUBSCRIPTION_VIEW"), Show("MENU")}

SubscriptionView ==
    MainMenu \cup Ask("SUBSCRIPTION_VIEW", "SUBSCRIPTION_PURCHASE", {"subscription_months"})

SubscriptionPurchase ==
    BuildSubscriptionView \cup
    {Show("SUBSCRIPTION_PURCHASE"),
     Answer("MENU", {}, {"subscription_months"}, "notify_subscription_payment",
            {"subscription_months"})}

-----------------------------------------------------------------------------
Menu ==
    UNION {MainMenu, SearchCommand, PricingCommand, RidePosting, PauseSearches, ResumeSearches,
           ShowDeleteAllConfirmation, SearchDeleteMenu, BuildSubscriptionView, SettingsMenu,
           SearchView, Help}

(* _get_handler *)
Handlers(ctx, user) == [
    INITIAL                     |-> Initial(user),
    REGISTER_COLLECT_NAME       |-> CollectName,
    REGISTER_COLLECT_BIRTH_DATE |-> CollectBirthDate,
    REGISTER_COLLECT_VEHICLE    |-> CollectVehicle,
    REGISTER_COLLECT_DRESS_CODE |-> CollectDressCode,
    VERIFY_COLLECT_SELFIE       |-> VerifyCollectSelfie,
    VERIFY_COLLECT_ID_DOCUMENT  |-> VerifyCollectIdDocument,
    VERIFY_PENDING_APPROVAL     |-> VerifyPendingApproval,
    MENU                        |-> Menu,
    SETTINGS_VIEW               |-> SettingsView,
    SETTINGS_VEHICLE_TYPE       |-> SettingsVehicleType,
    SETTINGS_TRIP_TYPE          |-> SettingsTripType,
    SETTINGS_SHOW_DELIVERIES    |-> SettingsShowDeliveries,
    SETTINGS_UPCOMING_TIMEFRAME |-> SettingsTimeframe,
    SETTINGS_FUTURE_ONLY_MODE   |-> SettingsFutureOnly,
    SETTINGS_START_TIME         |-> SettingsStartTime,
    SEARCH_VIEW_ACTIVE          |-> SearchViewActive(ctx),
    SEARCH_MANAGE               |-> SearchManage(ctx),
    SEARCH_CREATE_ORIGIN        |-> SearchCreateLocation,
    RIDE_POSTING_CONFIRM        |-> RidePostingConfirm,
    SUBSCRIPTION_VIEW           |-> SubscriptionView,
    SUBSCRIPTION_PURCHASE       |-> SubscriptionPurchase]

-----------------------------------------------------------------------------
(* handle_message: what a registration or a list of searches left behind   *)
(* goes when it is left.                                                   *)
HandleMessage(here, ctx, user) ==
    {CASE Registering(here) /\ answer.to \in {"MENU", "INITIAL"} ->
              Outcome(answer, ctx, ctx \ RegistrationKeys)
       [] here = "SEARCH_MANAGE" /\ answer.to # "SEARCH_MANAGE" ->
              Outcome(answer, ctx, ctx \ SearchKeys)
       [] OTHER -> Merged(answer, ctx) : answer \in Handlers(ctx, user)[here]}
================================================================================
