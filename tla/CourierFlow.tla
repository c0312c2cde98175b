------------------------------ MODULE CourierFlow ------------------------------
(***************************************************************************)
(* The courier's conversation (CourierStateHandler in                      *)
(* app/state_machine/handlers.py) and its declared transitions             *)
(* (COURIER_TRANSITIONS of states.py), without NEW, which nothing leads to. *)
(***************************************************************************)
EXTENDS Answers

(* _KYC_CONTEXT_KEYS *)
KycKeys == {"document_file_id", "selfie_file_id", "vehicle_category", "vehicle_photo_file_id",
            "changing_area"}

Declared == [
    INITIAL                           |-> {"REGISTER_COLLECT_NAME", "MENU", "PENDING_APPROVAL"},
    REGISTER_COLLECT_NAME             |-> {"REGISTER_COLLECT_DOCUMENT"},
    REGISTER_COLLECT_DOCUMENT         |-> {"REGISTER_COLLECT_SELFIE"},
    REGISTER_COLLECT_SELFIE           |-> {"REGISTER_COLLECT_VEHICLE_CATEGORY"},
    REGISTER_COLLECT_VEHICLE_CATEGORY |-> {"REGISTER_COLLECT_VEHICLE_PHOTO"},
    REGISTER_COLLECT_VEHICLE_PHOTO    |-> {"REGISTER_TERMS"},
    REGISTER_TERMS                    |-> {"PENDING_APPROVAL"},
    PENDING_APPROVAL                  |-> {"MENU"},
    MENU                              |-> {"VIEW_AVAILABLE", "VIEW_ACTIVE", "VIEW_WALLET",
                                           "CHANGE_AREA", "VIEW_HISTORY", "SUPPORT",
                                           "DEPOSIT_REQUEST"},
    VIEW_AVAILABLE                    |-> {"CAPTURE_CONFIRM", "MENU"},
    CAPTURE_CONFIRM                   |-> {"VIEW_ACTIVE", "MENU"},
    VIEW_ACTIVE                       |-> {"MARK_PICKED_UP", "MENU"},
    MARK_PICKED_UP                    |-> {"MARK_DELIVERED", "VIEW_ACTIVE"},
    MARK_DELIVERED                    |-> {"MENU"},
    VIEW_WALLET                       |-> {"DEPOSIT_REQUEST", "MENU"},
    DEPOSIT_REQUEST                   |-> {"DEPOSIT_UPLOAD", "MENU"},
    DEPOSIT_UPLOAD                    |-> {"VIEW_WALLET", "MENU"},
    CHANGE_AREA                       |-> {"MENU"},
    VIEW_HISTORY                      |-> {"MENU"},
    SUPPORT                           |-> {"MENU"}]

(* _is_registration_flow_state *)
Registering(here) ==
    here \in {"REGISTER_COLLECT_NAME", "REGISTER_COLLECT_DOCUMENT", "REGISTER_COLLECT_SELFIE",
              "REGISTER_COLLECT_VEHICLE_CATEGORY", "REGISTER_COLLECT_VEHICLE_PHOTO",
              "REGISTER_TERMS", "PENDING_APPROVAL"}

-----------------------------------------------------------------------------
(* Registration and approval *)

(* A rejected courier starts again.                                        *)
Initial(user) ==
    {Show(CASE user.terms /\ user.approval = "approved" -> "MENU"
            [] user.terms /\ user.approval = "pending"  -> "PENDING_APPROVAL"
            [] user.terms /\ user.approval = "blocked"  -> "INITIAL"
            [] OTHER                                    -> "REGISTER_COLLECT_NAME")}

BlockedOrRejected(user) == user.approval \in {"blocked", "rejected"}

PendingApproval(user) ==
    IF ~BlockedOrRejected(user) /\ ~user.terms
    THEN Initial(user)
    ELSE {Show(IF user.approval = "approved" THEN "MENU" ELSE "PENDING_APPROVAL")}

CollectName ==
    {Show("REGISTER_COLLECT_NAME"), Perform("REGISTER_COLLECT_DOCUMENT", "set_name", {})}

CollectDocument ==
    Ask("REGISTER_COLLECT_DOCUMENT", "REGISTER_COLLECT_SELFIE", {"document_file_id"})

CollectSelfie ==
    Ask("REGISTER_COLLECT_SELFIE", "REGISTER_COLLECT_VEHICLE_CATEGORY", {"selfie_file_id"})

CollectVehicleCategory ==
    Ask("REGISTER_COLLECT_VEHICLE_CATEGORY", "REGISTER_COLLECT_VEHICLE_PHOTO", {"vehicle_category"})

CollectVehiclePhoto ==
    Ask("REGISTER_COLLECT_VEHICLE_PHOTO", "REGISTER_TERMS", {"vehicle_photo_file_id"})

(* A second approval of the terms, while the first waits, changes nothing. *)
Terms(user) ==
    IF user.terms /\ user.approval = "pending"
    THEN PendingApproval(user)
    ELSE {Show("REGISTER_TERMS"),
          Perform("PENDING_APPROVAL", "apply_as_courier",
                  {"document_file_id", "selfie_file_id", "vehicle_category", "vehicle_photo_file_id"})}

-----------------------------------------------------------------------------
(* The menu and its screens *)

BackToMenu(user) ==
    IF user.approval = "approved" THEN {Show("MENU")} ELSE PendingApproval(user)

ViewWallet(user) == BackToMenu(user) \cup {Show("VIEW_WALLET")}

DepositRequest(user) ==
    BackToMenu(user) \cup Ask("DEPOSIT_REQUEST", "DEPOSIT_UPLOAD", {"subscription_months"})

DepositUpload(user) ==
    BackToMenu(user) \cup
    {Show("DEPOSIT_UPLOAD"),
     Answer("MENU", {}, {"subscription_months"}, "notify_subscription_payment",
            {"subscription_months"})}

(* The flag says that the question was asked; "back" leaves it set, and    *)
(* then the menu button itself is taken for the area.                      *)
ChangeArea(user, ctx) ==
    UNION {BackToMenu(user), {Fill("CHANGE_AREA", {"changing_area"})},
           IF "changing_area" \in ctx
           THEN {Answer("MENU", {}, {"changing_area"}, "set_area", {})} ELSE {}}

ViewHistory(user) == BackToMenu(user) \cup {Show("VIEW_HISTORY")}

ViewActive(user) == BackToMenu(user) \cup {Show("MENU")}

(* The first message shows the prompt, the next one goes to management.    *)
Support(user, ctx) ==
    {[answer EXCEPT !.drop = {"support_prompt_shown"}] : answer \in BackToMenu(user)} \cup
    {IF "support_prompt_shown" \in ctx
     THEN Answer("MENU", {}, {"support_prompt_shown"}, "forward_support_message", {})
     ELSE Fill("SUPPORT", {"support_prompt_shown"})}

(* VIEW_AVAILABLE, CAPTURE_CONFIRM, MARK_PICKED_UP and MARK_DELIVERED are  *)
(* left to the buttons of the group messages.                              *)
ToGroup(user) == BackToMenu(user) \cup {Show("MENU")}

(* Fault: the menu does not look at the approval. *)
MenuForAll(user, ctx) == {Show("MENU"), Show("VIEW_WALLET")}

Menu(user, ctx) ==
    IF user.approval # "approved" THEN PendingApproval(user)
    ELSE UNION {{Show("MENU")}, ViewWallet(user), ChangeArea(user, ctx), ViewHistory(user),
                Support(user, ctx), DepositRequest(user), ViewActive(user)}

Unknown(user, ctx) ==
    CASE user.approval = "approved" -> Menu(user, ctx)
      [] BlockedOrRejected(user)    -> {Show("PENDING_APPROVAL")}
      [] OTHER                      -> IF user.terms THEN PendingApproval(user) ELSE Initial(user)

(* _get_handler *)
Handlers(user, ctx) == [
    INITIAL                           |-> Initial(user),
    REGISTER_COLLECT_NAME             |-> CollectName,
    REGISTER_COLLECT_DOCUMENT         |-> CollectDocument,
    REGISTER_COLLECT_SELFIE           |-> CollectSelfie,
    REGISTER_COLLECT_VEHICLE_CATEGORY |-> CollectVehicleCategory,
    REGISTER_COLLECT_VEHICLE_PHOTO    |-> CollectVehiclePhoto,
    REGISTER_TERMS                    |-> Terms(user),
    PENDING_APPROVAL                  |-> PendingApproval(user),
    MENU                              |-> Menu(user, ctx),
    VIEW_WALLET                       |-> ViewWallet(user),
    DEPOSIT_REQUEST                   |-> DepositRequest(user),
    DEPOSIT_UPLOAD                    |-> DepositUpload(user),
    CHANGE_AREA                       |-> ChangeArea(user, ctx),
    VIEW_HISTORY                      |-> ViewHistory(user),
    VIEW_ACTIVE                       |-> ViewActive(user),
    SUPPORT                           |-> Support(user, ctx),
    VIEW_AVAILABLE                    |-> ToGroup(user),
    CAPTURE_CONFIRM                   |-> ToGroup(user),
    MARK_PICKED_UP                    |-> ToGroup(user),
    MARK_DELIVERED                    |-> ToGroup(user)]

-----------------------------------------------------------------------------
(* handle_message: the menu keeps nothing of the registration.             *)
HandleMessage(here, ctx, user) ==
    LET answers == IF here \in DOMAIN Handlers(user, ctx)
                   THEN Handlers(user, ctx)[here] ELSE Unknown(user, ctx) IN
    {IF Registering(here) /\ answer.to = "MENU"
     THEN Outcome(answer, ctx, ctx \ KycKeys)
     ELSE Merged(answer, ctx) : answer \in answers}
================================================================================
