---------------------------- MODULE Conversation_proofs ----------------------------
(***************************************************************************)
(* Proofs about Conversation, for any stories: any person to begin with,   *)
(* on any of the webhooks, and any number of decisions of others and of    *)
(* deaths of the process between the messages.                             *)
(*                                                                         *)
(* The handlers come first: what an answer of a flow may ask, keep and     *)
(* rely on.  Then what a message may do to a person, webhook by webhook.   *)
(***************************************************************************)
EXTENDS Conversation, TLAPS

-----------------------------------------------------------------------------
(* Answers of the handlers *)

(* An answer a in the state here moves along the declared transitions or   *)
(* to the entry of a form, touches only keys of its flow, uses no reply    *)
(* that is missing, and leaves the next state the replies it will use.     *)
Sound(a, here, ctx, declared, entries, keys, needed) ==
    /\ a.to \in DOMAIN declared
    /\ a.to = here \/ a.to \in declared[here] \/ a.to \in entries
    /\ a.put \subseteq keys /\ a.drop \subseteq keys /\ a.uses \subseteq keys
    /\ needed[here] \subseteq ctx =>
          a.uses \subseteq ctx /\ needed[a.to] \subseteq (ctx \cup a.put) \ a.drop
-----------------------------------------------------------------------------
(* The replies a state relies on, flow by flow *)

Pickup == {"pickup_city", "pickup_address", "delivery_location"}
Draft == {"pickup_address", "dropoff_address", "delivery_location"}

SenderKeys == Sender!DeliveryKeys \cup {"name"}

SenderNeeds == [here \in DOMAIN Sender!Declared |->
    CASE here = "REGISTER_COLLECT_PHONE" -> {"name"}
      [] here = "PICKUP_STREET"          -> {"pickup_city"}
      [] here = "PICKUP_NUMBER"          -> {"pickup_city", "pickup_street"}
      [] here = "PICKUP_APARTMENT"       -> {"pickup_city", "pickup_street", "pickup_number"}
      [] here = "DELIVERY_LOCATION"      -> {"pickup_city", "pickup_address"}
      [] here = "DROPOFF_CITY"           -> Pickup
      [] here = "DROPOFF_STREET"         -> Pickup \cup {"dropoff_city"}
      [] here = "DROPOFF_NUMBER"         -> Pickup \cup {"dropoff_city", "dropoff_street"}
      [] here = "DROPOFF_APARTMENT"      ->
             Pickup \cup {"dropoff_city", "dropoff_street", "dropoff_number"}
      [] here = "DELIVERY_URGENCY"       -> Draft
      [] here = "DELIVERY_TIME"          -> Draft \cup {"urgency"}
      [] here = "DELIVERY_PRICE"         -> Draft \cup {"urgency", "delivery_time", "min_price"}
      [] here = "DELIVERY_DESCRIPTION"   -> Draft \cup {"urgency", "delivery_time"}
      [] here = "DELIVERY_CONFIRM"       -> Draft \cup {"urgency", "delivery_time", "description"}
      [] OTHER                           -> {}]

CourierKeys == Courier!KycKeys \cup {"subscription_months", "support_prompt_shown"}

CourierNeeds == [here \in DOMAIN Courier!Declared |->
    CASE here = "REGISTER_COLLECT_SELFIE"           -> {"document_file_id"}
      [] here = "REGISTER_COLLECT_VEHICLE_CATEGORY" -> {"document_file_id", "selfie_file_id"}
      [] here = "REGISTER_COLLECT_VEHICLE_PHOTO"    ->
             {"document_file_id", "selfie_file_id", "vehicle_category"}
      [] here = "REGISTER_TERMS"                    -> Courier!KycKeys \ {"changing_area"}
      [] here = "DEPOSIT_UPLOAD"                    -> {"subscription_months"}
      [] OTHER                                      -> {}]

DispatcherKeys == Dispatcher!FormKeys \cup {"pending_menu_action"}

Shipment == {"pickup_address", "dropoff_city"}

DispatcherNeeds == [here \in DOMAIN Dispatcher!Declared |->
    CASE here = "ADD_SHIPMENT_PICKUP_STREET"     -> {"pickup_city"}
      [] here = "ADD_SHIPMENT_PICKUP_NUMBER"     -> {"pickup_city", "pickup_street"}
      [] here = "ADD_SHIPMENT_DROPOFF_CITY"      -> {"pickup_address"}
      [] here = "ADD_SHIPMENT_DROPOFF_STREET"    -> Shipment
      [] here = "ADD_SHIPMENT_DROPOFF_NUMBER"    -> Shipment \cup {"dropoff_street"}
      [] here = "ADD_SHIPMENT_DROPOFF_APARTMENT" ->
             Shipment \cup {"dropoff_street", "dropoff_number"}
      [] here = "ADD_SHIPMENT_DESCRIPTION"       -> {"pickup_address", "dropoff_address"}
      [] here = "ADD_SHIPMENT_FEE"               ->
             {"pickup_address", "dropoff_address", "description"}
      [] here = "ADD_SHIPMENT_CONFIRM"           ->
             {"pickup_address", "dropoff_address", "description", "fee"}
      [] here = "MANUAL_CHARGE_AMOUNT"           -> {"charge_driver_name"}
      [] here = "MANUAL_CHARGE_DESCRIPTION"      -> {"charge_driver_name", "charge_amount"}
      [] here = "MANUAL_CHARGE_CONFIRM"          -> Dispatcher!ChargeKeys
      [] here = "POST_RIDE_DESTINATION"          -> {"ride_origin"}
      [] here = "POST_RIDE_SEATS"                -> {"ride_origin", "ride_destination"}
      [] here = "POST_RIDE_PRICE"                -> {"ride_origin", "ride_destination", "ride_seats"}
      [] here = "POST_RIDE_CONFIRM"              -> Dispatcher!RideKeys
      [] OTHER                                   -> {}]

StationNeeds == [here \in DOMAIN Station!Declared |->
    IF here = "ADD_BLACKLIST_REASON" THEN {"blacklist_phone"} ELSE {}]

DriverKeys ==
    Driver!RegistrationKeys \cup Driver!SearchKeys \cup Driver!RideKeys \cup {"subscription_months"}

DriverNeeds == [here \in DOMAIN Driver!Declared |->
    CASE here = "REGISTER_COLLECT_BIRTH_DATE" -> {"reg_name"}
      [] here = "REGISTER_COLLECT_VEHICLE"    -> {"reg_name", "reg_age"}
      [] here \in {"REGISTER_COLLECT_DRESS_CODE", "VERIFY_COLLECT_SELFIE"} ->
             {"reg_name", "reg_age", "reg_vehicle"}
      [] here = "RIDE_POSTING_CONFIRM"        -> Driver!RideKeys
      [] here = "SUBSCRIPTION_PURCHASE"       -> {"subscription_months"}
      [] OTHER                                -> {}]

(* The replies of its forms that a state may keep: those of a form that is *)
(* under way, and none in a menu or on a screen.                           *)

SenderAllows == [here \in DOMAIN Sender!Declared |->
    IF here \in {"INITIAL", "REGISTER_COLLECT_NAME", "REGISTER_COLLECT_PHONE", "MENU", "VIEW_DELIVERIES"}
    THEN {} ELSE Sender!DeliveryKeys]

CourierForm == Courier!KycKeys \ {"changing_area"}

CourierAllows == [here \in DOMAIN Courier!Declared |->
    IF Courier!Registering(here) THEN CourierForm ELSE {}]

DispatcherAllows == [here \in DOMAIN Dispatcher!Declared |->
    IF here \in {"MENU", "VIEW_ACTIVE_SHIPMENTS", "VIEW_SHIPMENT_HISTORY", "VIEW_POSTED_RIDES"}
    THEN {} ELSE Dispatcher!FormKeys]

StationAllows == [here \in DOMAIN Station!Declared |->
    IF here = "MENU" THEN {} ELSE Station!ManagementKeys]

DriverForms == Driver!RegistrationKeys \cup Driver!SearchKeys \cup Driver!RideKeys

DriverAllows == [here \in DOMAIN Driver!Declared |->
    CASE Driver!Registering(here)      -> Driver!RegistrationKeys
      [] here = "SEARCH_MANAGE"        -> {"search_ids"}
      [] here = "SEARCH_VIEW_ACTIVE"   -> {"delete_all_pending"}
      [] here = "RIDE_POSTING_CONFIRM" -> Driver!RideKeys
      [] OTHER                         -> {}]

(* An answer after which the context is not cleared leaves the next state  *)
(* only what that may keep.                                                *)
Orderly(a, here, ctx, keys, allows) ==
    /\ a.put \cap keys \subseteq allows[a.to]
    /\ allows[here] \cap ctx \subseteq allows[a.to] \cup a.drop

SenderSound(here, ctx, a) ==
    /\ Sound(a, here, ctx, Sender!Declared, Entries("sender"), SenderKeys, SenderNeeds)
    /\ a.to # "INITIAL"
    /\ ~(Sender!InForm(here) /\ a.to = "MENU") => Orderly(a, here, ctx, Sender!DeliveryKeys, SenderAllows)

(* The screens of the menu are for couriers who are approved.              *)
CourierSound(here, ctx, user, a) ==
    /\ Sound(a, here, ctx, Courier!Declared, Entries("courier"), CourierKeys, CourierNeeds)
    /\ (a.to \in Courier!Declared.MENU /\ a.to # here)
          => user.approval = "approved" /\ a.does # "apply_as_courier"
    /\ ~(Courier!Registering(here) /\ a.to = "MENU") => Orderly(a, here, ctx, CourierForm, CourierAllows)

DispatcherSound(here, ctx, a) ==
    /\ Sound(a, here, ctx, Dispatcher!Declared, Entries("dispatcher"), DispatcherKeys, DispatcherNeeds)
    /\ ~(a.to = "MENU" /\ Dispatcher!InForm(here))
          => Orderly(a, here, ctx, Dispatcher!FormKeys, DispatcherAllows)

StationSound(here, ctx, a) ==
    /\ Sound(a, here, ctx, Station!Declared, Entries("station"), Station!ManagementKeys, StationNeeds)
    /\ ~(a.to = "MENU" /\ here # "MENU")
          => Orderly(a, here, ctx, Station!ManagementKeys, StationAllows)

DriverSound(here, ctx, a) ==
    /\ Sound(a, here, ctx, Driver!Declared, Entries("driver"), DriverKeys, DriverNeeds)
    /\ ~(\/ Driver!Registering(here) /\ a.to \in {"MENU", "INITIAL"}
         \/ here = "SEARCH_MANAGE" /\ a.to # "SEARCH_MANAGE")
          => Orderly(a, here, ctx, DriverForms, DriverAllows)

(* No answer of the flow of Sender is unsound: a case for each of its handlers. *)
LEMMA SenderAnswers ==
    ASSUME NEW user, NEW ctx, NEW here \in DOMAIN Sender!Handlers(user),
           NEW a \in Sender!Handlers(user)[here]
    PROVE  SenderSound(here, ctx, a)
  <1> USE DEF SenderSound, Sound, Orderly, SenderAllows, Sender!InForm, SenderKeys,
     Sender!DeliveryKeys, SenderNeeds, Pickup, Draft, Entries, Sender!Declared, Sender!Handlers,
        Sender!Answer, Sender!Show, Sender!Fill, Sender!Perform, Sender!Ask, Sender!AskOver,
        Sender!Screens
  <1>1. CASE here = "INITIAL"
    BY <1>1 DEF Sender!Initial
  <1>2. CASE here = "REGISTER_COLLECT_NAME"
    BY <1>2 DEF Sender!CollectName
  <1>3. CASE here = "REGISTER_COLLECT_PHONE"
    BY <1>3 DEF Sender!CollectPhone
  <1>4. CASE here = "MENU"
    BY <1>4 DEF Sender!Menu
  <1>5. CASE here = "PICKUP_CITY"
    BY <1>5 DEF Sender!PickupCity
  <1>6. CASE here = "PICKUP_STREET"
    BY <1>6 DEF Sender!PickupStreet
  <1>7. CASE here = "PICKUP_NUMBER"
    BY <1>7 DEF Sender!PickupNumber
  <1>8. CASE here = "PICKUP_APARTMENT"
    BY <1>8 DEF Sender!PickupApartment
  <1>9. CASE here = "DROPOFF_CITY"
    BY <1>9 DEF Sender!DropoffCity
  <1>10. CASE here = "DROPOFF_STREET"
    BY <1>10 DEF Sender!DropoffStreet
  <1>11. CASE here = "DROPOFF_NUMBER"
    BY <1>11 DEF Sender!DropoffNumber
  <1>12. CASE here = "DROPOFF_APARTMENT"
    BY <1>12 DEF Sender!DropoffApartment
  <1>13. CASE here = "DELIVERY_LOCATION"
    BY <1>13 DEF Sender!DeliveryLocation
  <1>14. CASE here = "DELIVERY_URGENCY"
    BY <1>14 DEF Sender!DeliveryUrgency
  <1>15. CASE here = "DELIVERY_TIME"
    BY <1>15 DEF Sender!DeliveryTime
  <1>16. CASE here = "DELIVERY_PRICE"
    BY <1>16 DEF Sender!DeliveryPrice
  <1>17. CASE here = "DELIVERY_DESCRIPTION"
    BY <1>17 DEF Sender!DeliveryDescription
  <1>18. CASE here = "DELIVERY_CONFIRM"
    BY <1>18 DEF Sender!Confirm
  <1>19. QED BY <1>1, <1>2, <1>3, <1>4, <1>5, <1>6, <1>7, <1>8, <1>9, <1>10, <1>11, <1>12, <1>13,
      <1>14, <1>15, <1>16, <1>17, <1>18 DEF Sender!Handlers

(* No answer of the flow of Courier is unsound: a case for each of its handlers. *)
LEMMA CourierAnswers ==
    ASSUME NEW user, NEW ctx, NEW here \in DOMAIN Courier!Handlers(user, ctx),
           NEW a \in Courier!Handlers(user, ctx)[here]
    PROVE  CourierSound(here, ctx, user, a)
  <1> USE DEF CourierSound, Sound, Orderly, CourierAllows, CourierForm, Courier!Registering,
     CourierKeys, Courier!KycKeys, CourierNeeds, Entries, Courier!Declared, Courier!Handlers,
        Courier!Answer, Courier!Show, Courier!Fill, Courier!Perform, Courier!Ask, Courier!AskOver,
        Courier!Screens
  <1>1. CASE here = "INITIAL"
    BY <1>1 DEF Courier!Initial
  <1>2. CASE here = "REGISTER_COLLECT_NAME"
    BY <1>2 DEF Courier!CollectName
  <1>3. CASE here = "REGISTER_COLLECT_DOCUMENT"
    BY <1>3 DEF Courier!CollectDocument
  <1>4. CASE here = "REGISTER_COLLECT_SELFIE"
    BY <1>4 DEF Courier!CollectSelfie
  <1>5. CASE here = "REGISTER_COLLECT_VEHICLE_CATEGORY"
    BY <1>5 DEF Courier!CollectVehicleCategory
  <1>6. CASE here = "REGISTER_COLLECT_VEHICLE_PHOTO"
    BY <1>6 DEF Courier!CollectVehiclePhoto
  <1>7. CASE here = "REGISTER_TERMS"
    BY <1>7 DEF Courier!Terms, Courier!PendingApproval, Courier!BlockedOrRejected, Courier!Initial
  <1>8. CASE here = "PENDING_APPROVAL"
    BY <1>8 DEF Courier!PendingApproval, Courier!BlockedOrRejected, Courier!Initial
  <1>9. CASE here = "MENU"
    BY <1>9 DEF Courier!Menu, Courier!PendingApproval, Courier!ViewWallet, Courier!ChangeArea,
      Courier!ViewHistory, Courier!Support, Courier!DepositRequest, Courier!ViewActive,
      Courier!BlockedOrRejected, Courier!Initial, Courier!BackToMenu
  <1>10. CASE here = "VIEW_WALLET"
    BY <1>10 DEF Courier!ViewWallet, Courier!BackToMenu, Courier!PendingApproval,
      Courier!BlockedOrRejected, Courier!Initial
  <1>11. CASE here = "DEPOSIT_REQUEST"
    BY <1>11 DEF Courier!DepositRequest, Courier!BackToMenu, Courier!PendingApproval,
      Courier!BlockedOrRejected, Courier!Initial
  <1>12. CASE here = "DEPOSIT_UPLOAD"
    BY <1>12 DEF Courier!DepositUpload, Courier!BackToMenu, Courier!PendingApproval,
      Courier!BlockedOrRejected, Courier!Initial
  <1>13. CASE here = "CHANGE_AREA"
    BY <1>13 DEF Courier!ChangeArea, Courier!BackToMenu, Courier!PendingApproval,
      Courier!BlockedOrRejected, Courier!Initial
  <1>14. CASE here = "VIEW_HISTORY"
    BY <1>14 DEF Courier!ViewHistory, Courier!BackToMenu, Courier!PendingApproval,
      Courier!BlockedOrRejected, Courier!Initial
  <1>15. CASE here = "VIEW_ACTIVE"
    BY <1>15 DEF Courier!ViewActive, Courier!BackToMenu, Courier!PendingApproval,
      Courier!BlockedOrRejected, Courier!Initial
  <1>16. CASE here = "SUPPORT"
    BY <1>16 DEF Courier!Support, Courier!BackToMenu, Courier!PendingApproval,
      Courier!BlockedOrRejected, Courier!Initial
  <1>17. CASE here = "VIEW_AVAILABLE"
    BY <1>17 DEF Courier!ToGroup, Courier!BackToMenu, Courier!PendingApproval,
      Courier!BlockedOrRejected, Courier!Initial
  <1>18. CASE here = "CAPTURE_CONFIRM"
    BY <1>18 DEF Courier!ToGroup, Courier!BackToMenu, Courier!PendingApproval,
      Courier!BlockedOrRejected, Courier!Initial
  <1>19. CASE here = "MARK_PICKED_UP"
    BY <1>19 DEF Courier!ToGroup, Courier!BackToMenu, Courier!PendingApproval,
      Courier!BlockedOrRejected, Courier!Initial
  <1>20. CASE here = "MARK_DELIVERED"
    BY <1>20 DEF Courier!ToGroup, Courier!BackToMenu, Courier!PendingApproval,
      Courier!BlockedOrRejected, Courier!Initial
  <1>21. QED BY <1>1, <1>2, <1>3, <1>4, <1>5, <1>6, <1>7, <1>8, <1>9, <1>10, <1>11, <1>12, <1>13,
      <1>14, <1>15, <1>16, <1>17, <1>18, <1>19, <1>20 DEF Courier!Handlers

(* No answer of the flow of Dispatcher is unsound: a case for each of its handlers. *)
LEMMA DispatcherAnswers ==
    ASSUME NEW ctx, NEW here \in DOMAIN Dispatcher!Handlers,
           NEW a \in Dispatcher!Handlers[here]
    PROVE  DispatcherSound(here, ctx, a)
  <1> USE DEF DispatcherSound, Sound, Orderly, DispatcherAllows, Dispatcher!InForm,
     Dispatcher!Views, DispatcherKeys, Dispatcher!FormKeys, Dispatcher!ShipmentKeys,
        Dispatcher!ChargeKeys, Dispatcher!RideKeys, Shipment, DispatcherNeeds, Entries,
        Dispatcher!Declared, Dispatcher!Handlers,
        Dispatcher!Answer, Dispatcher!Show, Dispatcher!Fill, Dispatcher!Perform, Dispatcher!Ask,
        Dispatcher!AskOver, Dispatcher!Screens
  <1>1. CASE here = "MENU"
    BY <1>1 DEF Dispatcher!Menu, Dispatcher!ShowMenu
  <1>2. CASE here = "ADD_SHIPMENT_PICKUP_CITY"
    BY <1>2 DEF Dispatcher!AddShipmentPickupCity
  <1>3. CASE here = "ADD_SHIPMENT_PICKUP_STREET"
    BY <1>3 DEF Dispatcher!AddShipmentPickupStreet
  <1>4. CASE here = "ADD_SHIPMENT_PICKUP_NUMBER"
    BY <1>4 DEF Dispatcher!AddShipmentPickupNumber
  <1>5. CASE here = "ADD_SHIPMENT_DROPOFF_CITY"
    BY <1>5 DEF Dispatcher!AddShipmentDropoffCity
  <1>6. CASE here = "ADD_SHIPMENT_DROPOFF_STREET"
    BY <1>6 DEF Dispatcher!AddShipmentDropoffStreet
  <1>7. CASE here = "ADD_SHIPMENT_DROPOFF_NUMBER"
    BY <1>7 DEF Dispatcher!AddShipmentDropoffNumber
  <1>8. CASE here = "ADD_SHIPMENT_DROPOFF_APARTMENT"
    BY <1>8 DEF Dispatcher!AddShipmentDropoffApartment
  <1>9. CASE here = "ADD_SHIPMENT_DESCRIPTION"
    BY <1>9 DEF Dispatcher!AddShipmentDescription
  <1>10. CASE here = "ADD_SHIPMENT_FEE"
    BY <1>10 DEF Dispatcher!AddShipmentFee
  <1>11. CASE here = "ADD_SHIPMENT_CONFIRM"
    BY <1>11 DEF Dispatcher!AddShipmentConfirm
  <1>12. CASE here = "VIEW_ACTIVE_SHIPMENTS"
    BY <1>12 DEF Dispatcher!ViewActive, Dispatcher!ShowMenu
  <1>13. CASE here = "VIEW_SHIPMENT_HISTORY"
    BY <1>13 DEF Dispatcher!ViewHistory, Dispatcher!ShowMenu
  <1>14. CASE here = "MANUAL_CHARGE_DRIVER_NAME"
    BY <1>14 DEF Dispatcher!ManualChargeName, Dispatcher!ShowMenu
  <1>15. CASE here = "MANUAL_CHARGE_AMOUNT"
    BY <1>15 DEF Dispatcher!ManualChargeAmount, Dispatcher!ShowMenu
  <1>16. CASE here = "MANUAL_CHARGE_DESCRIPTION"
    BY <1>16 DEF Dispatcher!ManualChargeDescription, Dispatcher!ShowMenu
  <1>17. CASE here = "MANUAL_CHARGE_CONFIRM"
    BY <1>17 DEF Dispatcher!ManualChargeConfirm, Dispatcher!ChargeKeys
  <1>18. CASE here = "POST_RIDE_ORIGIN"
    BY <1>18 DEF Dispatcher!PostRideOrigin, Dispatcher!ShowMenu
  <1>19. CASE here = "POST_RIDE_DESTINATION"
    BY <1>19 DEF Dispatcher!PostRideDestination, Dispatcher!ShowMenu
  <1>20. CASE here = "POST_RIDE_SEATS"
    BY <1>20 DEF Dispatcher!PostRideSeats, Dispatcher!ShowMenu
  <1>21. CASE here = "POST_RIDE_PRICE"
    BY <1>21 DEF Dispatcher!PostRidePrice, Dispatcher!ShowMenu
  <1>22. CASE here = "POST_RIDE_CONFIRM"
    BY <1>22 DEF Dispatcher!PostRideConfirm, Dispatcher!RideKeys
  <1>23. CASE here = "VIEW_POSTED_RIDES"
    BY <1>23 DEF Dispatcher!ViewPostedRides, Dispatcher!ShowMenu
  <1>24. QED BY <1>1, <1>2, <1>3, <1>4, <1>5, <1>6, <1>7, <1>8, <1>9, <1>10, <1>11, <1>12, <1>13,
      <1>14, <1>15, <1>16, <1>17, <1>18, <1>19, <1>20, <1>21, <1>22, <1>23 DEF Dispatcher!Handlers

(* No answer of the flow of Station is unsound: a case for each of its handlers. *)
LEMMA StationAnswers ==
    ASSUME NEW ctx, NEW here \in DOMAIN Station!Handlers(ctx),
           NEW a \in Station!Handlers(ctx)[here]
    PROVE  StationSound(here, ctx, a)
  <1> USE DEF StationSound, Sound, Orderly, StationAllows, Station!ManagementKeys, StationNeeds,
     Entries, Station!Declared, Station!Handlers,
        Station!Answer, Station!Show, Station!Fill, Station!Perform, Station!Ask, Station!AskOver,
        Station!Screens
  <1>1. CASE here = "MENU"
    BY <1>1 DEF Station!Menu, Station!ShowMenu, Station!ShowManageOwners,
      Station!ShowManageDispatchers, Station!ShowWallet, Station!ShowCollectionReport,
      Station!ShowBlacklist, Station!ShowGroupSettings, Station!ShowStationSettings
  <1>2. CASE here = "MANAGE_OWNERS"
    BY <1>2 DEF Station!ManageOwners, Station!ShowMenu, Station!ShowOwnerListForRemoval,
      Station!ShowManageOwners
  <1>3. CASE here = "ADD_OWNER_PHONE"
    BY <1>3 DEF Station!AddOwner, Station!ShowManageOwners
  <1>4. CASE here = "REMOVE_OWNER_SELECT"
    BY <1>4 DEF Station!RemoveOwnerSelect, Station!ShowManageOwners, Station!Select,
      Station!ShowOwnerListForRemoval
  <1>5. CASE here = "CONFIRM_REMOVE_OWNER"
    BY <1>5 DEF Station!ConfirmRemoveOwner, Station!Confirm, Station!ShowManageOwners
  <1>6. CASE here = "MANAGE_DISPATCHERS"
    BY <1>6 DEF Station!ManageDispatchers, Station!ShowMenu, Station!ShowDispatcherListForRemoval,
      Station!ShowManageDispatchers
  <1>7. CASE here = "ADD_DISPATCHER_PHONE"
    BY <1>7 DEF Station!AddDispatcher, Station!ShowManageDispatchers
  <1>8. CASE here = "REMOVE_DISPATCHER_SELECT"
    BY <1>8 DEF Station!RemoveDispatcherSelect, Station!ShowManageDispatchers, Station!Select
  <1>9. CASE here = "CONFIRM_REMOVE_DISPATCHER"
    BY <1>9 DEF Station!ConfirmRemoveDispatcher, Station!Confirm, Station!ShowManageDispatchers
  <1>10. CASE here = "VIEW_WALLET"
    BY <1>10 DEF Station!ViewWallet, Station!ShowMenu, Station!ShowSetCommissionRate,
      Station!ShowWallet
  <1>11. CASE here = "SET_COMMISSION_RATE"
    BY <1>11 DEF Station!SetCommissionRate, Station!ShowWallet
  <1>12. CASE here = "COLLECTION_REPORT"
    BY <1>12 DEF Station!CollectionReport, Station!ShowMenu, Station!ShowCollectionReport
  <1>13. CASE here = "VIEW_BLACKLIST"
    BY <1>13 DEF Station!ViewBlacklist, Station!ShowMenu, Station!ShowBlacklistForRemoval,
      Station!ShowBlacklist
  <1>14. CASE here = "ADD_BLACKLIST_PHONE"
    BY <1>14 DEF Station!AddBlacklistPhone, Station!ShowBlacklist
  <1>15. CASE here = "ADD_BLACKLIST_REASON"
    BY <1>15 DEF Station!AddBlacklistReason, Station!ShowBlacklist
  <1>16. CASE here = "REMOVE_BLACKLIST_SELECT"
    BY <1>16 DEF Station!RemoveBlacklistSelect, Station!ShowBlacklist, Station!Select
  <1>17. CASE here = "CONFIRM_REMOVE_BLACKLIST"
    BY <1>17 DEF Station!ConfirmRemoveBlacklist, Station!Confirm, Station!ShowBlacklist
  <1>18. CASE here = "GROUP_SETTINGS"
    BY <1>18 DEF Station!GroupSettings, Station!ShowMenu, Station!ShowGroupSettings
  <1>19. CASE here = "SET_PUBLIC_GROUP"
    BY <1>19 DEF Station!SetPublicGroup, Station!ShowGroupSettings
  <1>20. CASE here = "SET_PRIVATE_GROUP"
    BY <1>20 DEF Station!SetPrivateGroup, Station!ShowGroupSettings
  <1>21. CASE here = "STATION_SETTINGS"
    BY <1>21 DEF Station!StationSettings, Station!ShowMenu, Station!ShowStationSettings,
      Station!ShowEditOperatingHours
  <1>22. CASE here = "EDIT_STATION_NAME"
    BY <1>22 DEF Station!EditName, Station!ShowStationSettings
  <1>23. CASE here = "EDIT_STATION_DESCRIPTION"
    BY <1>23 DEF Station!EditDescription, Station!ShowStationSettings
  <1>24. CASE here = "EDIT_OPERATING_HOURS"
    BY <1>24 DEF Station!EditOperatingHours, Station!ShowStationSettings,
      Station!ShowEditOperatingHours
  <1>25. CASE here = "EDIT_SERVICE_AREAS"
    BY <1>25 DEF Station!EditServiceAreas, Station!ShowStationSettings
  <1>26. QED BY <1>1, <1>2, <1>3, <1>4, <1>5, <1>6, <1>7, <1>8, <1>9, <1>10, <1>11, <1>12, <1>13,
      <1>14, <1>15, <1>16, <1>17, <1>18, <1>19, <1>20, <1>21, <1>22, <1>23, <1>24,
      <1>25 DEF Station!Handlers

(* No answer of the flow of Driver is unsound: a case for each of its handlers. *)
LEMMA DriverAnswers ==
    ASSUME NEW user, NEW ctx, NEW here \in DOMAIN Driver!Handlers(ctx, user),
           NEW a \in Driver!Handlers(ctx, user)[here]
    PROVE  DriverSound(here, ctx, a)
  <1> USE DEF DriverSound, Sound, Orderly, DriverAllows, DriverForms, Driver!Registering,
     DriverKeys, Driver!RegistrationKeys, Driver!SearchKeys,
        Driver!RideKeys, DriverNeeds, Entries, Driver!Declared, Driver!Handlers,
        Driver!Answer, Driver!Show, Driver!Fill, Driver!Perform, Driver!Ask, Driver!AskOver,
        Driver!Screens
  <1>1. CASE here = "INITIAL"
    BY <1>1 DEF Driver!Initial, Driver!MainMenu
  <1>2. CASE here = "REGISTER_COLLECT_NAME"
    BY <1>2 DEF Driver!CollectName
  <1>3. CASE here = "REGISTER_COLLECT_BIRTH_DATE"
    BY <1>3 DEF Driver!CollectBirthDate
  <1>4. CASE here = "REGISTER_COLLECT_VEHICLE"
    BY <1>4 DEF Driver!CollectVehicle
  <1>5. CASE here = "REGISTER_COLLECT_DRESS_CODE"
    BY <1>5 DEF Driver!CollectDressCode
  <1>6. CASE here = "VERIFY_COLLECT_SELFIE"
    BY <1>6 DEF Driver!VerifyCollectSelfie
  <1>7. CASE here = "VERIFY_COLLECT_ID_DOCUMENT"
    BY <1>7 DEF Driver!VerifyCollectIdDocument
  <1>8. CASE here = "VERIFY_PENDING_APPROVAL"
    BY <1>8 DEF Driver!VerifyPendingApproval
  <1>9. CASE here = "MENU"
    BY <1>9 DEF Driver!Menu, Driver!MainMenu, Driver!SearchCommand, Driver!PricingCommand,
      Driver!RidePosting, Driver!PauseSearches, Driver!ResumeSearches,
      Driver!ShowDeleteAllConfirmation, Driver!SearchDeleteMenu, Driver!BuildSubscriptionView,
      Driver!SettingsMenu, Driver!SearchView, Driver!Help, Driver!RideKeys
  <1>10. CASE here = "SETTINGS_VIEW"
    BY <1>10 DEF Driver!SettingsView, Driver!SettingsMenu
  <1>11. CASE here = "SETTINGS_VEHICLE_TYPE"
    BY <1>11 DEF Driver!SettingsVehicleType, Driver!Setting
  <1>12. CASE here = "SETTINGS_TRIP_TYPE"
    BY <1>12 DEF Driver!SettingsTripType, Driver!Setting
  <1>13. CASE here = "SETTINGS_SHOW_DELIVERIES"
    BY <1>13 DEF Driver!SettingsShowDeliveries, Driver!Setting
  <1>14. CASE here = "SETTINGS_UPCOMING_TIMEFRAME"
    BY <1>14 DEF Driver!SettingsTimeframe, Driver!Setting
  <1>15. CASE here = "SETTINGS_FUTURE_ONLY_MODE"
    BY <1>15 DEF Driver!SettingsFutureOnly, Driver!Setting
  <1>16. CASE here = "SETTINGS_START_TIME"
    BY <1>16 DEF Driver!SettingsStartTime, Driver!Setting
  <1>17. CASE here = "SEARCH_VIEW_ACTIVE"
    BY <1>17 DEF Driver!SearchViewActive, Driver!MainMenu, Driver!SearchCommand,
      Driver!PauseSearches, Driver!ResumeSearches, Driver!ShowDeleteAllConfirmation,
      Driver!SearchDeleteMenu, Driver!SearchView
  <1>18. CASE here = "SEARCH_MANAGE"
    BY <1>18 DEF Driver!SearchManage, Driver!SearchView, Driver!MainMenu, Driver!SearchDeleteMenu
  <1>19. CASE here = "SEARCH_CREATE_ORIGIN"
    BY <1>19 DEF Driver!SearchCreateLocation
  <1>20. CASE here = "RIDE_POSTING_CONFIRM"
    BY <1>20 DEF Driver!RidePostingConfirm, Driver!RideKeys
  <1>21. CASE here = "SUBSCRIPTION_VIEW"
    BY <1>21 DEF Driver!SubscriptionView, Driver!MainMenu
  <1>22. CASE here = "SUBSCRIPTION_PURCHASE"
    BY <1>22 DEF Driver!SubscriptionPurchase, Driver!BuildSubscriptionView
  <1>23. QED BY <1>1, <1>2, <1>3, <1>4, <1>5, <1>6, <1>7, <1>8, <1>9, <1>10, <1>11, <1>12, <1>13,
      <1>14, <1>15, <1>16, <1>17, <1>18, <1>19, <1>20, <1>21, <1>22 DEF Driver!Handlers

-----------------------------------------------------------------------------
(* Outcomes of the handlers *)

(* What a handler leaves of a conversation in the state here: no key that  *)
(* is not the flow's has changed, no reply was missing, and the next state *)
(* has those it will use.                                                  *)
Good(o, here, ctx, declared, entries, keys, needed) ==
    /\ o.to \in DOMAIN declared
    /\ here \in DOMAIN declared => o.to = here \/ o.to \in declared[here] \/ o.to \in entries
    /\ o.ctx \subseteq ctx \cup keys /\ ctx \subseteq o.ctx \cup keys
    /\ o.missing = {}
    /\ needed[o.to] \subseteq o.ctx

(* The keys an answer sets and clears are merged into the context.         *)
LEMMA MergedIsGood ==
    ASSUME NEW a, NEW o, NEW here, NEW ctx, NEW declared, NEW entries, NEW keys, NEW needed,
           Sound(a, here, ctx, declared, entries, keys, needed), needed[here] \subseteq ctx,
           o.to = a.to, o.ctx = (ctx \cup a.put) \ a.drop, o.missing = a.uses \ ctx
    PROVE  Good(o, here, ctx, declared, entries, keys, needed)
  BY DEF Sound, Good

(* An answer that ends a form lets go of what the form kept.               *)
LEMMA LeftIsGood ==
    ASSUME NEW a, NEW o, NEW here, NEW ctx, NEW declared, NEW entries, NEW keys, NEW needed,
           NEW gone,
           Sound(a, here, ctx, declared, entries, keys, needed), needed[here] \subseteq ctx,
           gone \subseteq keys, needed[a.to] = {},
           o.to = a.to, o.ctx = ctx \ gone, o.missing = a.uses \ ctx
    PROVE  Good(o, here, ctx, declared, entries, keys, needed)
  BY DEF Sound, Good

(* Where the state keeps no replies but those it may, so does the next.    *)
Tidied(o, here, ctx, keys, allows) ==
    ctx \cap keys \subseteq (IF here \in DOMAIN allows THEN allows[here] ELSE {})
        => o.ctx \cap keys \subseteq allows[o.to]

(* An answer that is merged into the context, and one that clears it of    *)
(* what is gone.                                                           *)
LEMMA MergedIsTidied ==
    ASSUME NEW a, NEW o, NEW here, NEW ctx, NEW keys, NEW allows, here \in DOMAIN allows,
           Orderly(a, here, ctx, keys, allows),
           o.to = a.to, o.ctx = (ctx \cup a.put) \ a.drop
    PROVE  Tidied(o, here, ctx, keys, allows)
  BY DEF Orderly, Tidied

(* The same of an answer that leaves the form.                             *)
LEMMA LeftIsTidied ==
    ASSUME NEW o, NEW here, NEW ctx, NEW keys, NEW allows, NEW gone,
           here \in DOMAIN allows, allows[here] \subseteq gone, o.ctx = ctx \ gone
    PROVE  Tidied(o, here, ctx, keys, allows)
  BY DEF Tidied

SenderGood(here, ctx, o) ==
    /\ o.to # "INITIAL"
    /\ Tidied(o, here, ctx, Sender!DeliveryKeys, SenderAllows)
    /\ Good(o, here, ctx, Sender!Declared, Entries("sender"), SenderKeys, SenderNeeds)

CourierGood(here, ctx, user, o) ==
    /\ Tidied(o, here, ctx, CourierForm, CourierAllows)
    /\ Good(o, here, ctx, Courier!Declared, Entries("courier"), CourierKeys, CourierNeeds)
    /\ (o.to \in Courier!Declared.MENU /\ o.to # here)
          => user.approval = "approved" /\ o.does # "apply_as_courier"

DispatcherGood(here, ctx, o) ==
    /\ Tidied(o, here, ctx, Dispatcher!FormKeys, DispatcherAllows)
    /\ Good(o, here, ctx, Dispatcher!Declared, Entries("dispatcher"), DispatcherKeys, DispatcherNeeds)

StationGood(here, ctx, o) ==
    /\ Tidied(o, here, ctx, Station!ManagementKeys, StationAllows)
    /\ Good(o, here, ctx, Station!Declared, Entries("station"), Station!ManagementKeys, StationNeeds)

DriverGood(here, ctx, o) ==
    /\ Tidied(o, here, ctx, DriverForms, DriverAllows)
    /\ Good(o, here, ctx, Driver!Declared, Entries("driver"), DriverKeys, DriverNeeds)

(* handle_message of the sender's flow; a state of another flow, or one    *)
(* without a handler, is answered with the menu.                           *)
LEMMA SenderOutcomes ==
    ASSUME NEW user, NEW ctx, NEW here \in DOMAIN Sender!Declared \cup {"ELSEWHERE"},
           here # "ELSEWHERE" => SenderNeeds[here] \subseteq ctx,
           NEW o \in Sender!HandleMessage(here, ctx, user)
    PROVE  SenderGood(here, ctx, o)
  <1> DEFINE answers == IF here \in DOMAIN Sender!Handlers(user) THEN Sender!Handlers(user)[here]
                        ELSE Sender!Unknown
  <1>1. SenderNeeds["MENU"] = {} /\ "MENU" \in Entries("sender") /\ "MENU" \in DOMAIN Sender!Declared
    BY DEF SenderNeeds, Sender!Declared, Entries
  <1>2. /\ DOMAIN SenderAllows = DOMAIN Sender!Declared /\ "ELSEWHERE" \notin DOMAIN SenderAllows
         /\ \A h \in DOMAIN SenderAllows : SenderAllows[h] \subseteq Sender!DeliveryKeys
         /\ \A s \in DOMAIN SenderAllows : s \notin DOMAIN Sender!Handlers(user) => SenderAllows[s] = {}
    BY DEF SenderAllows, Sender!Declared, Sender!Handlers
  <1>3. ASSUME o \in Sender!Abandon(ctx)
        PROVE  SenderGood(here, ctx, o)
    BY <1>1, <1>3 DEF Sender!Abandon, Sender!Outcome, Sender!Show, Sender!Answer, SenderGood, Good,
       SenderKeys, Tidied
  <1>4. ASSUME here \notin DOMAIN Sender!Handlers(user), NEW a \in Sender!Unknown,
               o.to = a.to, o.missing = a.uses \ ctx,
               o.ctx = (ctx \cup a.put) \ a.drop \/ o.ctx = ctx \ Sender!DeliveryKeys
        PROVE  SenderGood(here, ctx, o)
    <2>1. a.to = "MENU" /\ a.put = {} /\ a.drop = {} /\ a.uses = {}
      BY <1>4 DEF Sender!Unknown, Sender!Show, Sender!Answer
    <2>2. Tidied(o, here, ctx, Sender!DeliveryKeys, SenderAllows)
      BY <1>2, <1>4, <2>1 DEF Tidied
    <2>3. QED BY <1>1, <1>4, <2>1, <2>2 DEF SenderGood, Good, SenderKeys
  <1>5. ASSUME here \in DOMAIN Sender!Handlers(user), NEW a \in Sender!Handlers(user)[here],
               ~(Sender!InForm(here) /\ a.to = "MENU"), o = Sender!Merged(a, ctx)
        PROVE  SenderGood(here, ctx, o)
    <2>1. SenderSound(here, ctx, a)
      BY <1>5, SenderAnswers
    <2>2. SenderNeeds[here] \subseteq ctx
      BY <1>5 DEF Sender!Handlers
    <2>3. o.to = a.to /\ o.ctx = (ctx \cup a.put) \ a.drop /\ o.missing = a.uses \ ctx
      BY <1>5 DEF Sender!Merged, Sender!Outcome, Sender!Updated
    <2>4. Tidied(o, here, ctx, Sender!DeliveryKeys, SenderAllows)
      BY <1>2, <1>5, <2>1, <2>3, MergedIsTidied DEF SenderSound, Sender!Handlers, Sender!Declared
    <2>5. QED BY <2>1, <2>2, <2>3, <2>4, MergedIsGood DEF SenderSound, SenderGood
  <1>6. ASSUME here \in DOMAIN Sender!Handlers(user), NEW a \in Sender!Handlers(user)[here],
               a.to = "MENU", o = Sender!Outcome(a, ctx, ctx \ Sender!DeliveryKeys)
        PROVE  SenderGood(here, ctx, o)
    <2>1. SenderSound(here, ctx, a)
      BY <1>6, SenderAnswers
    <2>2. SenderNeeds[here] \subseteq ctx
      BY <1>6 DEF Sender!Handlers
    <2>3. o.to = a.to /\ o.ctx = ctx \ Sender!DeliveryKeys /\ o.missing = a.uses \ ctx
      BY <1>6 DEF Sender!Outcome
    <2>4. SenderNeeds[a.to] = {} /\ Sender!DeliveryKeys \subseteq SenderKeys
      BY <1>1, <1>6 DEF SenderKeys
    <2>5. Tidied(o, here, ctx, Sender!DeliveryKeys, SenderAllows)
      BY <2>3 DEF Tidied
    <2>6. QED BY <2>1, <2>2, <2>3, <2>4, <2>5, LeftIsGood DEF SenderSound, SenderGood
  <1>7. \/ o \in Sender!Abandon(ctx)
        \/ \E a \in answers : \/ a.to = "MENU" /\ o = Sender!Outcome(a, ctx, ctx \ Sender!DeliveryKeys)
                              \/ /\ ~(Sender!InForm(here) /\ a.to = "MENU")
                                 /\ o = Sender!Merged(a, ctx)
    BY DEF Sender!HandleMessage
  <1>8. CASE o \in Sender!Abandon(ctx)
    BY <1>3, <1>8
  <1>9. CASE \E a \in answers : \/ a.to = "MENU" /\ o = Sender!Outcome(a, ctx, ctx \ Sender!DeliveryKeys)
                                \/ /\ ~(Sender!InForm(here) /\ a.to = "MENU")
                                   /\ o = Sender!Merged(a, ctx)
    <2>1. PICK a \in answers : \/ a.to = "MENU" /\ o = Sender!Outcome(a, ctx, ctx \ Sender!DeliveryKeys)
                               \/ /\ ~(Sender!InForm(here) /\ a.to = "MENU")
                                  /\ o = Sender!Merged(a, ctx)
      BY <1>9
    <2>2. CASE here \in DOMAIN Sender!Handlers(user)
      BY <2>1, <2>2, <1>5, <1>6
    <2>3. CASE here \notin DOMAIN Sender!Handlers(user)
      BY <2>1, <2>3, <1>4 DEF Sender!Merged, Sender!Outcome, Sender!Updated
    <2>4. QED BY <2>2, <2>3
  <1>10. QED BY <1>7, <1>8, <1>9

(* The answer to a courier in a state of another flow.                     *)
LEMMA CourierUnknown ==
    ASSUME NEW user, NEW ctx, NEW here, NEW a \in Courier!Unknown(user, ctx), NEW o,
           here \notin DOMAIN Courier!Declared,
           o.to = a.to, o.does = a.does, o.missing = a.uses \ ctx, o.ctx = (ctx \cup a.put) \ a.drop
    PROVE  CourierGood(here, ctx, user, o)
  <1>1. CASE user.approval = "approved"
    <2>1. "MENU" \in DOMAIN Courier!Handlers(user, ctx) /\ a \in Courier!Handlers(user, ctx)["MENU"]
      <3>1. a \in Courier!Menu(user, ctx)
        BY <1>1 DEF Courier!Unknown, Courier!BlockedOrRejected
      <3>2. /\ "MENU" \in DOMAIN Courier!Handlers(user, ctx)
            /\ Courier!Handlers(user, ctx)["MENU"] = Courier!Menu(user, ctx)
        BY DEF Courier!Handlers
      <3>3. QED BY <3>1, <3>2
    <2>2. CourierSound("MENU", ctx, user, a)
      BY <2>1, CourierAnswers
    <2>3. CourierNeeds["MENU"] = {}
      BY DEF CourierNeeds, Courier!Declared
    <2>4. Good(o, "MENU", ctx, Courier!Declared, Entries("courier"), CourierKeys, CourierNeeds)
      BY <2>2, <2>3, MergedIsGood DEF CourierSound
    <2>5. Tidied(o, here, ctx, CourierForm, CourierAllows)
      <3>1. /\ "MENU" \in DOMAIN CourierAllows /\ CourierAllows["MENU"] = {} /\ ~Courier!Registering("MENU")
            /\ DOMAIN CourierAllows = DOMAIN Courier!Declared
        BY DEF CourierAllows, Courier!Declared, Courier!Registering
      <3>2. Orderly(a, "MENU", ctx, CourierForm, CourierAllows)
        BY <2>2, <3>1 DEF CourierSound
      <3>3. Tidied(o, "MENU", ctx, CourierForm, CourierAllows)
        BY <3>1, <3>2, MergedIsTidied
      <3>4. QED BY <3>1, <3>3 DEF Tidied
    <2>6. a.does # "apply_as_courier"
      BY <1>1 DEF Courier!Unknown, Courier!Menu, Courier!ViewWallet, Courier!ChangeArea,
         Courier!ViewHistory, Courier!Support, Courier!DepositRequest, Courier!ViewActive,
         Courier!BackToMenu, Courier!Ask, Courier!Fill, Courier!Show, Courier!Answer
    <2>7. QED BY <1>1, <2>5, <2>4, <2>6 DEF CourierGood, Good
  <1>2. CASE user.approval # "approved"
    BY <1>2 DEF Courier!Unknown, Courier!PendingApproval, Courier!Initial,
       Courier!BlockedOrRejected,
       Courier!Show, Courier!Answer, CourierGood, Good, CourierNeeds, Courier!Declared, CourierKeys,
       Courier!KycKeys, Tidied, CourierAllows
  <1>3. QED BY <1>1, <1>2

(* handle_message of the courier's flow.                                   *)
LEMMA CourierOutcomes ==
    ASSUME NEW user, NEW ctx, NEW here \in DOMAIN Courier!Declared \cup {"ELSEWHERE"},
           here # "ELSEWHERE" => CourierNeeds[here] \subseteq ctx,
           NEW o \in Courier!HandleMessage(here, ctx, user)
    PROVE  CourierGood(here, ctx, user, o)
  <1>1. /\ CourierNeeds["MENU"] = {} /\ Courier!KycKeys \subseteq CourierKeys
        /\ "MENU" \notin Courier!Declared.MENU
        /\ DOMAIN Courier!Handlers(user, ctx) = DOMAIN Courier!Declared
        /\ "ELSEWHERE" \notin DOMAIN Courier!Declared /\ ~Courier!Registering("ELSEWHERE")
        /\ DOMAIN CourierAllows = DOMAIN Courier!Declared
        /\ \A h \in DOMAIN CourierAllows : CourierAllows[h] \subseteq Courier!KycKeys
    BY DEF CourierNeeds, Courier!Declared, CourierKeys, Courier!Handlers, Courier!Registering,
       CourierAllows, CourierForm
  <1>2. CASE here = "ELSEWHERE"
    <2>1. PICK a \in Courier!Unknown(user, ctx) : o = Courier!Merged(a, ctx)
      BY <1>1, <1>2 DEF Courier!HandleMessage
    <2>2. o.to = a.to /\ o.ctx = (ctx \cup a.put) \ a.drop /\ o.missing = a.uses \ ctx /\ o.does = a.does
      BY <2>1 DEF Courier!Merged, Courier!Outcome, Courier!Updated
    <2>3. QED BY <1>1, <1>2, <2>2, CourierUnknown
  <1>3. CASE here # "ELSEWHERE"
    <2>1. PICK a \in Courier!Handlers(user, ctx)[here] :
             \/ a.to = "MENU" /\ o = Courier!Outcome(a, ctx, ctx \ Courier!KycKeys)
             \/ /\ ~(Courier!Registering(here) /\ a.to = "MENU")
                /\ o = Courier!Merged(a, ctx)
      BY <1>1, <1>3 DEF Courier!HandleMessage
    <2>2. here \in DOMAIN Courier!Handlers(user, ctx)
      BY <1>1, <1>3
    <2>3. CourierSound(here, ctx, user, a) /\ CourierNeeds[here] \subseteq ctx
      BY <1>3, <2>1, <2>2, CourierAnswers
    <2>4. CASE a.to = "MENU" /\ o = Courier!Outcome(a, ctx, ctx \ Courier!KycKeys)
      <3>1. o.to = a.to /\ o.ctx = ctx \ Courier!KycKeys /\ o.missing = a.uses \ ctx
        BY <2>4 DEF Courier!Outcome
      <3>2. Good(o, here, ctx, Courier!Declared, Entries("courier"), CourierKeys, CourierNeeds)
        BY <1>1, <2>3, <2>4, <3>1, LeftIsGood DEF CourierSound
      <3>3. Tidied(o, here, ctx, CourierForm, CourierAllows)
        BY <1>1, <1>3, <3>1, LeftIsTidied
      <3>4. QED BY <1>1, <2>4, <3>1, <3>2, <3>3 DEF CourierGood
    <2>5. CASE ~(Courier!Registering(here) /\ a.to = "MENU") /\ o = Courier!Merged(a, ctx)
      <3>1. o.to = a.to /\ o.ctx = (ctx \cup a.put) \ a.drop /\ o.missing = a.uses \ ctx /\ o.does = a.does
        BY <2>5 DEF Courier!Merged, Courier!Outcome, Courier!Updated
      <3>2. Good(o, here, ctx, Courier!Declared, Entries("courier"), CourierKeys, CourierNeeds)
        BY <2>3, <3>1, MergedIsGood DEF CourierSound
      <3>3. Tidied(o, here, ctx, CourierForm, CourierAllows)
        BY <1>1, <1>3, <2>3, <2>5, <3>1, MergedIsTidied DEF CourierSound
      <3>4. QED BY <2>3, <3>1, <3>2, <3>3 DEF CourierGood, CourierSound
    <2>6. QED BY <2>1, <2>4, <2>5
  <1>4. QED BY <1>2, <1>3

(* handle_message of the dispatcher's flow: the reply is handled, or the   *)
(* question whether to leave the form is asked or answered.                *)
LEMMA DispatcherOutcomes ==
    ASSUME NEW ctx, NEW here \in DOMAIN Dispatcher!Declared,
           DispatcherNeeds[here] \subseteq ctx,
           NEW o \in Dispatcher!HandleMessage(here, ctx)
    PROVE  DispatcherGood(here, ctx, o)
  <1> DEFINE resumed == ctx \ {"pending_menu_action"}
             gone == Dispatcher!FormKeys \cup {"pending_menu_action"}
  <1>1. /\ DispatcherNeeds["MENU"] = {} /\ gone \subseteq DispatcherKeys
        /\ "MENU" \in DOMAIN Dispatcher!Declared
        /\ "pending_menu_action" \notin DispatcherNeeds[here]
        /\ DOMAIN Dispatcher!Handlers = DOMAIN Dispatcher!Declared
        /\ DOMAIN DispatcherAllows = DOMAIN Dispatcher!Declared
        /\ \A h \in DOMAIN DispatcherAllows : DispatcherAllows[h] \subseteq Dispatcher!FormKeys
        /\ "pending_menu_action" \notin Dispatcher!FormKeys
    BY DEF DispatcherNeeds, Dispatcher!Declared, DispatcherKeys, Dispatcher!Handlers,
       DispatcherAllows,
       Dispatcher!FormKeys, Dispatcher!ShipmentKeys, Dispatcher!ChargeKeys, Dispatcher!RideKeys,
       Shipment
  <1>2. ASSUME NEW c, c = ctx \/ c = resumed, NEW m \in Dispatcher!Handled(here, c)
        PROVE  DispatcherGood(here, ctx, m)
    <2>1. PICK a \in Dispatcher!Handlers[here] :
             \/ a.to = "MENU" /\ m = Dispatcher!Outcome(a, c, c \ gone)
             \/ /\ ~(a.to = "MENU" /\ Dispatcher!InForm(here))
                /\ m = Dispatcher!Merged(a, c)
      BY <1>2 DEF Dispatcher!Handled
    <2>2. /\ Sound(a, here, c, Dispatcher!Declared, Entries("dispatcher"), DispatcherKeys, DispatcherNeeds)
          /\ ~(a.to = "MENU" /\ Dispatcher!InForm(here))
                => Orderly(a, here, c, Dispatcher!FormKeys, DispatcherAllows)
      BY <1>1, <2>1, DispatcherAnswers DEF DispatcherSound
    <2>3. DispatcherNeeds[here] \subseteq c
      BY <1>1, <1>2
    <2>4. DispatcherGood(here, c, m)
      <3>1. CASE a.to = "MENU" /\ m = Dispatcher!Outcome(a, c, c \ gone)
        <4>1. m.to = a.to /\ m.ctx = c \ gone /\ m.missing = a.uses \ c
          BY <3>1 DEF Dispatcher!Outcome
        <4>2. Tidied(m, here, c, Dispatcher!FormKeys, DispatcherAllows)
          BY <4>1 DEF Tidied
        <4>3. QED BY <1>1, <2>2, <2>3, <3>1, <4>1, <4>2, LeftIsGood DEF DispatcherGood
      <3>2. CASE ~(a.to = "MENU" /\ Dispatcher!InForm(here)) /\ m = Dispatcher!Merged(a, c)
        <4>1. m.to = a.to /\ m.ctx = (c \cup a.put) \ a.drop /\ m.missing = a.uses \ c
          BY <3>2 DEF Dispatcher!Merged, Dispatcher!Outcome, Dispatcher!Updated
        <4>2. Tidied(m, here, c, Dispatcher!FormKeys, DispatcherAllows)
          BY <1>1, <2>2, <3>2, <4>1, MergedIsTidied
        <4>3. QED BY <2>2, <2>3, <4>1, <4>2, MergedIsGood DEF DispatcherGood
      <3>3. QED BY <2>1, <3>1, <3>2
    <2>5. "pending_menu_action" \in DispatcherKeys
      BY DEF DispatcherKeys
    <2>6. Tidied(m, here, ctx, Dispatcher!FormKeys, DispatcherAllows)
      BY <1>1, <1>2, <2>4 DEF DispatcherGood, Tidied
    <2>7. QED BY <1>2, <2>4, <2>5, <2>6 DEF DispatcherGood, Good
  <1>3. ASSUME o \in Dispatcher!Leave(ctx)
        PROVE  DispatcherGood(here, ctx, o)
    <2>1. PICK s \in Dispatcher!Declared.MENU :
             o = Dispatcher!Outcome(Dispatcher!Show(s), ctx, ctx \ gone)
      BY <1>3 DEF Dispatcher!Leave, Dispatcher!Screens
    <2>2. o.to = s /\ o.ctx = ctx \ gone /\ o.missing = {}
      BY <2>1 DEF Dispatcher!Outcome, Dispatcher!Show, Dispatcher!Answer
    <2>3. DispatcherNeeds[s] = {} /\ s \in DOMAIN Dispatcher!Declared /\ s \in Entries("dispatcher")
      BY <2>1 DEF DispatcherNeeds, Dispatcher!Declared, Entries
    <2>4. QED BY <1>1, <2>2, <2>3 DEF DispatcherGood, Good, Tidied
  <1>4. ASSUME o \in Dispatcher!AskToLeave(here, ctx) \cup Dispatcher!Stay(here, resumed)
        PROVE  DispatcherGood(here, ctx, o)
    <2>1. /\ o.to = here /\ o.missing = {}
          /\ o.ctx = ctx \cup {"pending_menu_action"} \/ o.ctx = resumed
      BY <1>4 DEF Dispatcher!AskToLeave, Dispatcher!Stay, Dispatcher!Outcome, Dispatcher!Show,
         Dispatcher!Answer
    <2>2. "pending_menu_action" \in DispatcherKeys
      BY DEF DispatcherKeys
    <2>3. Tidied(o, here, ctx, Dispatcher!FormKeys, DispatcherAllows)
      BY <1>1, <2>1 DEF Tidied
    <2>4. QED BY <1>1, <2>1, <2>2, <2>3 DEF DispatcherGood, Good
  <1>5. \/ \E c : (c = ctx \/ c = resumed) /\ o \in Dispatcher!Handled(here, c)
        \/ o \in Dispatcher!Leave(ctx)
        \/ o \in Dispatcher!AskToLeave(here, ctx) \cup Dispatcher!Stay(here, resumed)
    BY DEF Dispatcher!HandleMessage
  <1>6. QED BY <1>2, <1>3, <1>4, <1>5

(* handle_message of the station owner's flow.                             *)
LEMMA StationOutcomes ==
    ASSUME NEW ctx, NEW here \in DOMAIN Station!Declared \cup {"ELSEWHERE"},
           here # "ELSEWHERE" => StationNeeds[here] \subseteq ctx,
           NEW o \in Station!HandleMessage(here, ctx)
    PROVE  StationGood(here, ctx, o)
  <1>1. /\ StationNeeds["MENU"] = {} /\ "MENU" \in DOMAIN Station!Declared
        /\ DOMAIN Station!Handlers(ctx) = DOMAIN Station!Declared
        /\ "ELSEWHERE" \notin DOMAIN Station!Declared
        /\ DOMAIN StationAllows = DOMAIN Station!Declared
        /\ \A h \in DOMAIN StationAllows : StationAllows[h] \subseteq Station!ManagementKeys
    BY DEF StationNeeds, Station!Declared, Station!Handlers, StationAllows
  <1>2. CASE here = "ELSEWHERE"
    BY <1>1, <1>2 DEF Station!HandleMessage, Station!ShowMenu, Station!Show, Station!Answer,
       Station!Merged, Station!Outcome, Station!Updated, StationGood, Good, Tidied
  <1>3. CASE here # "ELSEWHERE"
    <2>1. PICK a \in Station!Handlers(ctx)[here] :
             \/ a.to = "MENU" /\ o = Station!Outcome(a, ctx, ctx \ Station!ManagementKeys)
             \/ /\ ~(a.to = "MENU" /\ here # "MENU")
                /\ o = Station!Merged(a, ctx)
      BY <1>3 DEF Station!HandleMessage
    <2>2. StationSound(here, ctx, a) /\ StationNeeds[here] \subseteq ctx
      BY <1>1, <1>3, <2>1, StationAnswers
    <2>3. CASE a.to = "MENU" /\ o = Station!Outcome(a, ctx, ctx \ Station!ManagementKeys)
      <3>1. o.to = a.to /\ o.ctx = ctx \ Station!ManagementKeys /\ o.missing = a.uses \ ctx
        BY <2>3 DEF Station!Outcome
      <3>2. Tidied(o, here, ctx, Station!ManagementKeys, StationAllows)
        BY <3>1 DEF Tidied
      <3>3. QED BY <1>1, <2>2, <2>3, <3>1, <3>2, LeftIsGood DEF StationSound, StationGood
    <2>4. CASE ~(a.to = "MENU" /\ here # "MENU") /\ o = Station!Merged(a, ctx)
      <3>1. o.to = a.to /\ o.ctx = (ctx \cup a.put) \ a.drop /\ o.missing = a.uses \ ctx
        BY <2>4 DEF Station!Merged, Station!Outcome, Station!Updated
      <3>2. Tidied(o, here, ctx, Station!ManagementKeys, StationAllows)
        BY <1>1, <1>3, <2>2, <2>4, <3>1, MergedIsTidied DEF StationSound
      <3>3. QED BY <2>2, <3>1, <3>2, MergedIsGood DEF StationSound, StationGood
    <2>5. QED BY <2>1, <2>3, <2>4
  <1>4. QED BY <1>2, <1>3

(* handle_message of the driver's flow.  What a registration or a list of  *)
(* searches left goes only where no state needs it.                        *)
LEMMA DriverOutcomes ==
    ASSUME NEW user, NEW ctx, NEW here \in DOMAIN Driver!Declared,
           DriverNeeds[here] \subseteq ctx,
           NEW o \in Driver!HandleMessage(here, ctx, user)
    PROVE  DriverGood(here, ctx, o)
  <1>1. /\ DriverNeeds["MENU"] = {} /\ DriverNeeds["INITIAL"] = {}
        /\ Driver!RegistrationKeys \subseteq DriverKeys /\ Driver!SearchKeys \subseteq DriverKeys
        /\ DOMAIN Driver!Handlers(ctx, user) = DOMAIN Driver!Declared
        /\ DOMAIN DriverAllows = DOMAIN Driver!Declared
        /\ Driver!Registering(here) => DriverAllows[here] = Driver!RegistrationKeys
        /\ DriverAllows["SEARCH_MANAGE"] \subseteq Driver!SearchKeys
    BY DEF DriverNeeds, Driver!Declared, DriverKeys, Driver!Handlers, DriverAllows,
       Driver!Registering,
       Driver!SearchKeys
  <1>2. PICK a \in Driver!Handlers(ctx, user)[here] :
           \/ /\ Driver!Registering(here) /\ a.to \in {"MENU", "INITIAL"}
              /\ o = Driver!Outcome(a, ctx, ctx \ Driver!RegistrationKeys)
           \/ here = "SEARCH_MANAGE" /\ o = Driver!Outcome(a, ctx, ctx \ Driver!SearchKeys)
           \/ /\ ~(\/ Driver!Registering(here) /\ a.to \in {"MENU", "INITIAL"}
                   \/ here = "SEARCH_MANAGE" /\ a.to # "SEARCH_MANAGE")
              /\ o = Driver!Merged(a, ctx)
    BY DEF Driver!HandleMessage
  <1>3. DriverSound(here, ctx, a)
    BY <1>1, <1>2, DriverAnswers
  <1>4. CASE /\ Driver!Registering(here) /\ a.to \in {"MENU", "INITIAL"}
             /\ o = Driver!Outcome(a, ctx, ctx \ Driver!RegistrationKeys)
    <2>1. o.to = a.to /\ o.ctx = ctx \ Driver!RegistrationKeys /\ o.missing = a.uses \ ctx
      BY <1>4 DEF Driver!Outcome
    <2>2. Tidied(o, here, ctx, DriverForms, DriverAllows)
      BY <1>1, <1>4, <2>1, LeftIsTidied
    <2>3. QED BY <1>1, <1>3, <1>4, <2>1, <2>2, LeftIsGood DEF DriverSound, DriverGood
  <1>5. CASE here = "SEARCH_MANAGE" /\ o = Driver!Outcome(a, ctx, ctx \ Driver!SearchKeys)
    <2>1. o.to = a.to /\ o.ctx = ctx \ Driver!SearchKeys /\ o.missing = a.uses \ ctx
      BY <1>5 DEF Driver!Outcome
    <2>2. DriverNeeds[a.to] = {}
      BY <1>2, <1>5 DEF Driver!Handlers, Driver!SearchManage, Driver!SearchView, Driver!MainMenu,
         Driver!SearchDeleteMenu, Driver!Show, Driver!Fill, Driver!Perform, Driver!Answer,
         DriverNeeds,
         Driver!Declared
    <2>3. Tidied(o, here, ctx, DriverForms, DriverAllows)
      BY <1>1, <1>5, <2>1, LeftIsTidied
    <2>4. QED BY <1>1, <1>3, <2>1, <2>2, <2>3, LeftIsGood DEF DriverSound, DriverGood
  <1>6. CASE /\ ~(\/ Driver!Registering(here) /\ a.to \in {"MENU", "INITIAL"}
                  \/ here = "SEARCH_MANAGE" /\ a.to # "SEARCH_MANAGE")
             /\ o = Driver!Merged(a, ctx)
    <2>1. o.to = a.to /\ o.ctx = (ctx \cup a.put) \ a.drop /\ o.missing = a.uses \ ctx
      BY <1>6 DEF Driver!Merged, Driver!Outcome, Driver!Updated
    <2>2. Tidied(o, here, ctx, DriverForms, DriverAllows)
      BY <1>1, <1>3, <1>6, <2>1, MergedIsTidied DEF DriverSound
    <2>3. QED BY <1>3, <2>1, <2>2, MergedIsGood DEF DriverSound, DriverGood
  <1>7. QED BY <1>2, <1>4, <1>5, <1>6

-----------------------------------------------------------------------------
(* Persons *)

Needs(flow) ==
    CASE flow = "sender"     -> SenderNeeds
      [] flow = "courier"    -> CourierNeeds
      [] flow = "dispatcher" -> DispatcherNeeds
      [] flow = "station"    -> StationNeeds
      [] flow = "driver"     -> DriverNeeds
      [] flow = "admin"      -> [here \in DOMAIN Admin!Declared |-> {}]

Allows(flow) ==
    CASE flow = "sender"     -> SenderAllows
      [] flow = "courier"    -> CourierAllows
      [] flow = "dispatcher" -> DispatcherAllows
      [] flow = "station"    -> StationAllows
      [] flow = "driver"     -> DriverAllows
      [] flow = "admin"      -> [here \in DOMAIN Admin!Declared |-> {}]

(* The context has what the state relies on.                               *)
Ready(p) == Needs(p.here[1])[p.here[2]] \subseteq p.ctx

(* From one state to another: where FormsInOrder lets a message go.        *)
InOrder(from, to) ==
    (from[1] = to[1] /\ from # to /\ to[2] \notin Entries(to[1]))
        => to[2] \in Declared(from[1])[from[2]]

(* The keys of the handlers are not an administrator's.                    *)
LEMMA FlowKeysApart ==
    /\ SenderKeys \subseteq FlowKeys /\ CourierKeys \subseteq FlowKeys
    /\ DispatcherKeys \subseteq FlowKeys /\ Station!ManagementKeys \subseteq FlowKeys
    /\ DriverKeys \subseteq FlowKeys
    /\ FlowKeys \subseteq Keys /\ Admin!AdminKeys \subseteq Keys
    /\ FlowKeys \cap Admin!AdminKeys = {}
    /\ DispatcherKeys \cap Station!ManagementKeys = {}
    /\ \A flow \in Flows : FormKeys(flow) \subseteq FlowKeys
    /\ FlowKeys \cap {"contact_admin_pending", "admin_root_menu", "entered_as_admin"} = {}
    /\ Keys \ Admin!AdminKeys =
         FlowKeys \cup {"contact_admin_pending", "admin_root_menu", "entered_as_admin"}
  <1>1. /\ FormKeys("sender") = Sender!DeliveryKeys
        /\ FormKeys("courier") = Courier!KycKeys \ {"changing_area"}
        /\ FormKeys("dispatcher") = Dispatcher!FormKeys
        /\ FormKeys("station") = Station!ManagementKeys
        /\ FormKeys("driver") = Driver!RegistrationKeys \cup Driver!SearchKeys \cup Driver!RideKeys
        /\ FormKeys("admin") = {}
    BY DEF FormKeys
  <1>2. FlowKeys = Sender!DeliveryKeys \cup (Courier!KycKeys \ {"changing_area"}) \cup
                   Dispatcher!FormKeys \cup Station!ManagementKeys \cup
                   (Driver!RegistrationKeys \cup Driver!SearchKeys \cup Driver!RideKeys) \cup
                   {"name", "changing_area", "pending_menu_action", "subscription_months",
                    "support_prompt_shown"}
    <2> DEFINE all == UNION {FormKeys(flow) : flow \in Flows}
    <2>1. \A k : k \in all <=> \E flow \in Flows : k \in FormKeys(flow)
      OBVIOUS
    <2>2. FlowKeys = all \cup {"name", "changing_area", "pending_menu_action", "subscription_months",
                              "support_prompt_shown"}
      BY DEF FlowKeys
    <2> HIDE DEF all
    <2>3. \A k : (\E flow \in Flows : k \in FormKeys(flow)) <=>
              \/ k \in FormKeys("sender") \/ k \in FormKeys("courier") \/ k \in FormKeys("dispatcher")
              \/ k \in FormKeys("station") \/ k \in FormKeys("driver") \/ k \in FormKeys("admin")
      BY DEF Flows
    <2>4. all = FormKeys("sender") \cup FormKeys("courier") \cup FormKeys("dispatcher") \cup
                FormKeys("station") \cup FormKeys("driver")
      BY <1>1, <2>1, <2>3
    <2>5. QED BY <1>1, <2>2, <2>4
  <1>3. /\ SenderKeys \subseteq FlowKeys /\ CourierKeys \subseteq FlowKeys
        /\ DispatcherKeys \subseteq FlowKeys /\ Station!ManagementKeys \subseteq FlowKeys
        /\ DriverKeys \subseteq FlowKeys
    BY <1>2 DEF SenderKeys, CourierKeys, DispatcherKeys, DriverKeys
  <1>4. Admin!AdminKeys = {"original_role", "as_dispatcher", "as_other", "admin_dispatcher_preexisted",
                           "original_approval_pending", "original_approval_approved",
                           "original_approval_rejected", "original_approval_blocked"}
    BY DEF Admin!AdminKeys, Admin!ApprovalKey
  <1>5. FlowKeys \cap Admin!AdminKeys = {}
    BY <1>2, <1>4 DEF Sender!DeliveryKeys, Courier!KycKeys, Dispatcher!FormKeys,
       Dispatcher!ShipmentKeys,
       Dispatcher!ChargeKeys, Dispatcher!RideKeys, Station!ManagementKeys, Driver!RegistrationKeys,
       Driver!SearchKeys, Driver!RideKeys
  <1>6. DispatcherKeys \cap Station!ManagementKeys = {}
    BY DEF DispatcherKeys, Dispatcher!FormKeys, Dispatcher!ShipmentKeys, Dispatcher!ChargeKeys,
       Dispatcher!RideKeys, Station!ManagementKeys
  <1>7. FlowKeys \cap {"contact_admin_pending", "admin_root_menu", "entered_as_admin"} = {}
    BY <1>2 DEF Sender!DeliveryKeys, Courier!KycKeys, Dispatcher!FormKeys, Dispatcher!ShipmentKeys,
       Dispatcher!ChargeKeys, Dispatcher!RideKeys, Station!ManagementKeys, Driver!RegistrationKeys,
       Driver!SearchKeys, Driver!RideKeys
  <1>8. \A flow \in Flows : FormKeys(flow) \subseteq FlowKeys
    BY DEF FlowKeys
  <1>9. QED BY <1>3, <1>4, <1>5, <1>6, <1>7, <1>8 DEF Keys

(* A state is a flow and one of the states it declares.                    *)
LEMMA StatesOf ==
    /\ \A s \in States : /\ s = <<s[1], s[2]>> /\ s[1] \in Flows
                         /\ s[2] \in DOMAIN Declared(s[1])
    /\ \A flow \in Flows : \A here \in DOMAIN Declared(flow) : <<flow, here>> \in States
  BY DEF States

(* "ELSEWHERE" is no state of a flow.                                      *)
LEMMA NowhereElse == \A flow \in Flows : "ELSEWHERE" \notin DOMAIN Declared(flow)
  BY DEF Flows, Declared, Sender!Declared, Courier!Declared, Dispatcher!Declared, Station!Declared,
     Driver!Declared, Admin!Declared

(* What a handler's outcome keeps of the person it is for.                 *)
GoodFor(p, flow, o) ==
    /\ o.to \in DOMAIN Declared(flow)
    /\ InOrder(p.here, <<flow, o.to>>)
    /\ o.ctx \subseteq Keys /\ o.ctx \cap Admin!AdminKeys = p.ctx \cap Admin!AdminKeys
    /\ o.missing = {}
    /\ Needs(flow)[o.to] \subseteq o.ctx
    /\ (flow = "courier" /\ <<flow, o.to>> # p.here /\ o.to \in Courier!Declared.MENU)
          => p.approval = "approved" /\ o.does # "apply_as_courier"
    /\ Tidied(o, Step(p, flow), p.ctx, FormKeys(flow), Allows(flow))
    /\ flow = "sender" => o.to # "INITIAL"
    /\ flow = "dispatcher" => o.ctx \cap Station!ManagementKeys \subseteq p.ctx

(* An outcome that is good in the tables of its flow is good for a person  *)
(* in a state of the flow or elsewhere.                                    *)
LEMMA GoodIsGoodFor ==
    ASSUME NEW p \in Person, NEW flow \in Flows, NEW o, NEW keys, keys \subseteq FlowKeys,
           Good(o, Step(p, flow), p.ctx, Declared(flow), Entries(flow), keys, Needs(flow)),
           (flow = "courier" /\ <<flow, o.to>> # p.here /\ o.to \in Courier!Declared.MENU)
              => p.approval = "approved" /\ o.does # "apply_as_courier",
           Tidied(o, Step(p, flow), p.ctx, FormKeys(flow), Allows(flow)),
           flow = "sender" => o.to # "INITIAL",
           flow = "dispatcher" => keys \cap Station!ManagementKeys = {}
    PROVE  GoodFor(p, flow, o)
  <1>1. p.here \in States /\ p.ctx \subseteq Keys
    BY DEF Person
  <1>2. InOrder(p.here, <<flow, o.to>>)
    BY <1>1, StatesOf DEF Good, InOrder, Step
  <1>3. o.ctx \subseteq Keys /\ o.ctx \cap Admin!AdminKeys = p.ctx \cap Admin!AdminKeys
    BY <1>1, FlowKeysApart DEF Good
  <1>4. QED BY <1>2, <1>3 DEF Good, GoodFor

(* get_handler and handle_message: whoever writes, wherever the person is. *)
(* Dispatchers and drivers come to their handlers in a state of the flow.  *)
LEMMA OutcomesAreGood ==
    ASSUME NEW p \in Person, Ready(p), NEW flow \in Flows \ {"admin"},
           flow \in {"dispatcher", "driver"} => p.here[1] = flow,
           NEW o \in Outcomes(p, flow)
    PROVE  GoodFor(p, flow, o)
  <1> DEFINE here == Step(p, flow)
  <1>1. p.here \in States
    BY DEF Person
  <1>2. /\ here \in DOMAIN Declared(flow) \cup {"ELSEWHERE"}
        /\ flow \in {"dispatcher", "driver"} => here \in DOMAIN Declared(flow) /\ here # "ELSEWHERE"
        /\ here # "ELSEWHERE" => Needs(flow)[here] \subseteq p.ctx
    BY <1>1, StatesOf, NowhereElse DEF Step, Ready
  <1>3. CASE flow = "sender"
    <2>1. SenderGood(here, p.ctx, o)
      BY <1>2, <1>3, SenderOutcomes DEF Outcomes, Declared, Needs
    <2>2. QED BY <1>3, <2>1, GoodIsGoodFor, FlowKeysApart
       DEF SenderGood, Declared, Needs, Allows, FormKeys
  <1>4. CASE flow = "courier"
    <2>1. CourierGood(here, p.ctx, p, o)
      BY <1>2, <1>4, CourierOutcomes DEF Outcomes, Declared, Needs
    <2>2. (<<flow, o.to>> # p.here /\ o.to \in Courier!Declared.MENU)
             => p.approval = "approved" /\ o.does # "apply_as_courier"
      <3>1. ASSUME <<flow, o.to>> # p.here, o.to \in Courier!Declared.MENU
            PROVE  o.to # here
        <4>1. "ELSEWHERE" \notin Courier!Declared.MENU
          BY DEF Courier!Declared
        <4>2. QED BY <1>1, <3>1, <4>1, StatesOf DEF Step
      <3>2. QED BY <2>1, <3>1 DEF CourierGood
    <2>3. QED BY <1>4, <2>1, <2>2, GoodIsGoodFor, FlowKeysApart
       DEF CourierGood, Declared, Needs, Allows, FormKeys, CourierForm
  <1>5. CASE flow = "dispatcher"
    <2>1. DispatcherGood(here, p.ctx, o)
      BY <1>2, <1>5, DispatcherOutcomes DEF Outcomes, Declared, Needs
    <2>2. QED BY <1>5, <2>1, GoodIsGoodFor, FlowKeysApart
       DEF DispatcherGood, Declared, Needs, Allows, FormKeys
  <1>6. CASE flow = "station"
    <2>1. StationGood(here, p.ctx, o)
      BY <1>2, <1>6, StationOutcomes DEF Outcomes, Declared, Needs
    <2>2. QED BY <1>6, <2>1, GoodIsGoodFor, FlowKeysApart
       DEF StationGood, Declared, Needs, Allows, FormKeys
  <1>7. CASE flow = "driver"
    <2>1. DriverGood(here, p.ctx, o)
      BY <1>2, <1>7, DriverOutcomes DEF Outcomes, Declared, Needs
    <2>2. QED BY <1>7, <2>1, GoodIsGoodFor, FlowKeysApart
       DEF DriverGood, Declared, Needs, Allows, FormKeys, DriverForms
  <1>8. QED BY <1>3, <1>4, <1>5, <1>6, <1>7 DEF Flows

-----------------------------------------------------------------------------
(* What a handler's operation does to the person who asked for it: the     *)
(* conversation is as before, and nobody becomes an administrator or is    *)
(* lent a station.                                                         *)
Operated(p, q) ==
    /\ q \in Person
    /\ q.here = p.here /\ q.ctx = p.ctx
    /\ q.role = p.role \/ q.role \in {"SENDER", "COURIER"}
    /\ q.dispatcher = "lent" => p.dispatcher = "lent"

(* remove_owner, of the person or of somebody else.                        *)
LEMMA NoLongerOwnerIsOperated ==
    ASSUME NEW p \in Person, NEW q \in NoLongerOwner(p)
    PROVE  Operated(p, q) /\ q.approval = p.approval
  <1>1. PICK role \in Roles : /\ q = [p EXCEPT !.owner = FALSE, !.role = role]
                              /\ role = p.role \/ role \in {"SENDER", "COURIER"}
    BY DEF NoLongerOwner, Person, Roles
  <1>2. QED BY <1>1 DEF Operated, Person

(* Every operation of a handler.                                           *)
LEMMA EffectsAreOperated ==
    ASSUME NEW p \in Person, NEW does, NEW q \in Effects(p, does)
    PROVE  Operated(p, q) /\ (does # "apply_as_courier" => q.approval = p.approval)
  <1>1. CASE q = p
    BY <1>1 DEF Operated
  <1>2. CASE q \in NoLongerOwner(p)
    BY <1>2, NoLongerOwnerIsOperated
  <1>3. CASE q = [p EXCEPT !.named = TRUE]
    BY <1>3 DEF Operated, Person
  <1>4. CASE q = [p EXCEPT !.named = TRUE, !.phoned = TRUE]
    BY <1>4 DEF Operated, Person
  <1>5. CASE /\ does = "apply_as_courier"
             /\ q = [p EXCEPT !.role = "COURIER", !.terms = TRUE, !.approval = "pending"]
    BY <1>5 DEF Operated, Person, Roles
  <1>6. CASE q = [p EXCEPT !.driver = TRUE]
    BY <1>6 DEF Operated, Person
  <1>7. CASE q = [p EXCEPT !.verification = "pending"]
    BY <1>7 DEF Operated, Person
  <1>8. CASE q = [p EXCEPT !.dispatcher = IF @ = "none" THEN "real" ELSE @]
    BY <1>8 DEF Operated, Person
  <1>9. CASE q = [p EXCEPT !.dispatcher = "none"]
    BY <1>9 DEF Operated, Person
  <1>10. QED BY <1>1, <1>2, <1>3, <1>4, <1>5, <1>6, <1>7, <1>8, <1>9 DEF Effects

-----------------------------------------------------------------------------
(* Replies *)

(* Does the person have what the handler of a flow is for?                 *)
Entitled(p, flow) ==
    /\ flow = "dispatcher" => p.dispatcher # "none"
    /\ flow = "station"    => p.owner
    /\ flow = "courier"    => p.role = "COURIER"
    /\ flow = "driver"     => p.role = "DRIVER"
    /\ flow = "admin"      => p.role = "ADMIN"

(* Nothing of any form is in the context.                                  *)
Blank(p) == p.ctx \cap FlowKeys = {}

(* Of the forms of its flow, the conversation keeps what its state may.    *)
Own(p) == p.ctx \cap FormKeys(p.here[1]) \subseteq Allows(p.here[1])[p.here[2]]

(* The conversation is where it was, with the replies it had.              *)
Same(p, q) == q.here = p.here /\ q.ctx \cap FlowKeys = p.ctx \cap FlowKeys

(* A flow goes on: if the conversation kept what it may, it does again.    *)
Carried(p, q) ==
    /\ q.here # <<"sender", "INITIAL">>
    /\ q.here[1] \in {"dispatcher", "driver"} => p.here[1] = q.here[1]
    /\ (IF p.here[1] = q.here[1] THEN Own(p) ELSE p.ctx \cap FormKeys(q.here[1]) = {}) => Own(q)
    /\ q.here[1] = "dispatcher" => q.ctx \cap Station!ManagementKeys \subseteq p.ctx

(* From p to q by a message: what HandledForRole asks of the handler that  *)
(* ran, and what the replies that are kept and missing need.               *)
Served(p, q) ==
    /\ q \in Person
    /\ Ready(q) /\ q.heard.missing = {}
    /\ Blank(q) \/ Same(p, q) \/ Carried(p, q)
    /\ InOrder(p.here, q.here)
    /\ Entitled(p, q.heard.flow) \/ Entitled(q, q.heard.flow)
    /\ (q.heard.flow = "courier" /\ q.here # p.here /\ q.here[2] \in Courier!Declared.MENU)
          => q.approval = "approved"

(* What is left of an administrator's switch of role.                      *)
Switch(p) == p.ctx \cap Admin!AdminKeys

(* The handler of a flow for somebody who is entitled to it.               *)
LEMMA HandleServes ==
    ASSUME NEW p \in Person, Ready(p), NEW flow \in Flows \ {"admin"}, Entitled(p, flow),
           flow \in {"dispatcher", "driver"} => p.here[1] = flow,
           NEW q \in Handle(p, flow)
    PROVE  /\ Served(p, q) /\ q.here[1] = flow
           /\ Switch(q) = Switch(p)
           /\ q.role = p.role \/ q.role \in {"SENDER", "COURIER"}
           /\ q.dispatcher = "lent" => p.dispatcher = "lent"
  <1>1. PICK o \in Outcomes(p, flow) : \E r \in Effects(p, o.does) :
           q = [r EXCEPT !.here = <<flow, o.to>>, !.ctx = o.ctx,
                         !.heard = [flow |-> flow, missing |-> o.missing]]
    BY ZenonT(60) DEF Handle
  <1>2. PICK r \in Effects(p, o.does) :
           q = [r EXCEPT !.here = <<flow, o.to>>, !.ctx = o.ctx,
                         !.heard = [flow |-> flow, missing |-> o.missing]]
    BY <1>1
  <1>3. GoodFor(p, flow, o)
    BY OutcomesAreGood
  <1>4. Operated(p, r) /\ (o.does # "apply_as_courier" => r.approval = p.approval)
    BY EffectsAreOperated
  <1>5. /\ q.here = <<flow, o.to>> /\ q.ctx = o.ctx
        /\ q.heard = [flow |-> flow, missing |-> o.missing]
        /\ q.role = r.role /\ q.approval = r.approval /\ q.dispatcher = r.dispatcher
    BY <1>2, <1>4 DEF Operated, Person
  <1>6. q \in Person
    <2>1. <<flow, o.to>> \in States
      BY <1>3, StatesOf DEF GoodFor
    <2>2. [flow |-> flow, missing |-> o.missing] \in [flow : Flows \cup {"none"}, missing : SUBSET Keys]
      BY <1>3 DEF GoodFor
    <2>3. o.ctx \in SUBSET Keys
      BY <1>3 DEF GoodFor
    <2>4. QED BY <1>2, <1>4, <2>1, <2>2, <2>3 DEF Operated, Person
  <1>7. Ready(q) /\ q.heard.missing = {} /\ InOrder(p.here, q.here) /\ q.heard.flow = flow
    BY <1>3, <1>5 DEF GoodFor, Ready
  <1>8. (flow = "courier" /\ q.here # p.here /\ q.here[2] \in Courier!Declared.MENU) => q.approval = "approved"
    BY <1>3, <1>4, <1>5 DEF GoodFor
  <1>9. Carried(p, q)
    <2>1. q.here # <<"sender", "INITIAL">>
      BY <1>3, <1>5 DEF GoodFor
    <2>2. Tidied(o, Step(p, flow), p.ctx, FormKeys(flow), Allows(flow))
      BY <1>3 DEF GoodFor
    <2>3. q.here[1] = flow /\ q.here[2] = o.to /\ q.ctx = o.ctx
      BY <1>5
    <2>4. DOMAIN Allows(flow) = DOMAIN Declared(flow)
      BY DEF Allows, Declared, SenderAllows, CourierAllows, DispatcherAllows, StationAllows,
         DriverAllows, Flows
    <2>5. p.here[1] = flow => Step(p, flow) = p.here[2] /\ p.here[2] \in DOMAIN Declared(flow)
      BY StatesOf DEF Step, Person
    <2>6. (IF p.here[1] = flow THEN Own(p) ELSE p.ctx \cap FormKeys(flow) = {}) => Own(q)
      BY <2>2, <2>3, <2>4, <2>5 DEF Own, Tidied
    <2>7. flow = "dispatcher" => q.ctx \cap Station!ManagementKeys \subseteq p.ctx
      BY <1>3, <2>3 DEF GoodFor
    <2>8. QED BY <2>1, <2>3, <2>6, <2>7 DEF Carried
  <1>10. Served(p, q)
    BY <1>6, <1>7, <1>8, <1>9 DEF Served
  <1>11. Switch(q) = Switch(p)
    BY <1>3, <1>5 DEF GoodFor, Switch
  <1>12. QED BY <1>4, <1>5, <1>10, <1>11 DEF Operated

(* The states that force_state sets before it shows a menu.                *)
Starts ==
    {<<"sender", "MENU">>, <<"courier", "MENU">>, <<"courier", "INITIAL">>,
     <<"dispatcher", "MENU">>, <<"station", "MENU">>, <<"driver", "INITIAL">>, <<"admin", "MENU">>}

(* q is shown the menu of a flow, whose state p was set to.                *)
Shown(p, q) ==
    /\ q \in Person
    /\ q.role = p.role /\ q.approval = p.approval /\ q.dispatcher = p.dispatcher
    /\ q.owner = p.owner
    /\ q.ctx = p.ctx /\ q.here[1] = p.here[1]
    /\ q.heard = [flow |-> p.here[1], missing |-> {}]
    /\ Needs(q.here[1])[q.here[2]] = {}
    /\ \A from \in States : InOrder(from, q.here)
    /\ q.here[1] = "courier" => q.here[2] \notin Courier!Declared.MENU

(* The first screens of a flow need nothing and can be shown at any time.  *)
LEMMA FirstScreens ==
    ASSUME NEW p, p.here \in Starts, p.here[1] # "admin", NEW screen \in MenuScreens(p, p.here[1])
    PROVE  /\ screen.to \in DOMAIN Declared(p.here[1]) /\ screen.to \in Entries(p.here[1])
           /\ Needs(p.here[1])[screen.to] = {}
           /\ p.here[1] = "courier" => screen.to \notin Courier!Declared.MENU
  <1>1. CASE p.here[1] = "sender"
    BY <1>1 DEF MenuScreens, Show, Answer, Declared, Sender!Declared, Entries, Needs, SenderNeeds
  <1>2. CASE p.here[1] = "courier"
    BY <1>2 DEF MenuScreens, Courier!Initial, Courier!BackToMenu, Courier!PendingApproval,
       Courier!Show, Courier!Answer, Declared, Courier!Declared, Entries, Needs, CourierNeeds
  <1>3. CASE p.here[1] = "dispatcher"
    BY <1>3 DEF MenuScreens, Show, Answer, Declared, Dispatcher!Declared, Entries, Needs,
       DispatcherNeeds
  <1>4. CASE p.here[1] = "station"
    BY <1>4 DEF MenuScreens, Show, Answer, Declared, Station!Declared, Entries, Needs, StationNeeds
  <1>5. CASE p.here[1] = "driver"
    BY <1>5 DEF MenuScreens, Driver!Initial, Driver!MainMenu, Driver!Show, Driver!Answer, Declared,
       Driver!Declared, Entries, Needs, DriverNeeds
  <1>6. QED BY <1>1, <1>2, <1>3, <1>4, <1>5 DEF Starts

(* The handler of a menu, right after the state was set to it.             *)
LEMMA HandleMenuShows ==
    ASSUME NEW p \in Person, p.here \in Starts, NEW q \in HandleMenu(p, p.here[1])
    PROVE  Shown(p, q)
  <1>1. p.here[1] \in Flows
    BY DEF Starts, Flows
  <1>2. CASE p.here[1] = "admin"
    <2>1. p.here = <<"admin", "MENU">>
      BY <1>2 DEF Starts
    <2>2. q = [[p EXCEPT !.here = <<"admin", "SELECT_ROLE">>] EXCEPT !.heard = [flow |-> "admin", missing |-> {}]]
      BY <1>2, <2>1 DEF HandleMenu, HandleAdmin, Admin!HandleMessage, Admin!Menu
    <2>3. <<"admin", "SELECT_ROLE">> \in States
      BY StatesOf DEF Declared, Admin!Declared, Flows
    <2>4. q \in Person
      BY <1>1, <1>2, <2>2, <2>3 DEF Person
    <2>5. \A from \in States : InOrder(from, <<"admin", "SELECT_ROLE">>)
      <3>1. SUFFICES ASSUME NEW from \in States, from[1] = "admin", from # <<"admin", "SELECT_ROLE">>
                     PROVE  "SELECT_ROLE" \in Declared("admin")[from[2]]
        BY DEF InOrder
      <3>2. from = <<from[1], from[2]>> /\ from[2] \in DOMAIN Declared("admin")
        BY <3>1, StatesOf
      <3>3. from[2] \in {"MENU", "SELECT_ROLE"}
        BY <3>2 DEF Declared, Admin!Declared
      <3>4. from[2] = "MENU"
        BY <3>1, <3>2, <3>3
      <3>5. QED BY <3>4 DEF Declared, Admin!Declared
    <2>6. Needs("admin")["SELECT_ROLE"] = {}
      BY DEF Needs, Admin!Declared
    <2>7. q.here = <<"admin", "SELECT_ROLE">> /\ q.heard = [flow |-> "admin", missing |-> {}]
      BY <2>2 DEF Person
    <2>8. /\ q.role = p.role /\ q.approval = p.approval /\ q.dispatcher = p.dispatcher
          /\ q.owner = p.owner
          /\ q.ctx = p.ctx
      BY <2>2 DEF Person
    <2>9. QED BY <1>2, <2>4, <2>5, <2>6, <2>7, <2>8 DEF Shown
  <1>3. CASE p.here[1] # "admin"
    <2> DEFINE flow == p.here[1]
    <2>1. PICK screen \in MenuScreens(p, flow) :
             q = [p EXCEPT !.here = <<flow, screen.to>>, !.heard = [flow |-> flow, missing |-> {}]]
      BY <1>3 DEF HandleMenu
    <2>2. /\ screen.to \in DOMAIN Declared(flow) /\ screen.to \in Entries(flow)
          /\ Needs(flow)[screen.to] = {}
          /\ flow = "courier" => screen.to \notin Courier!Declared.MENU
      BY <1>3, FirstScreens
    <2>3. <<flow, screen.to>> \in States
      BY <1>1, <2>2, StatesOf
    <2>4. q \in Person
      BY <1>1, <2>1, <2>3 DEF Person
    <2>5. q.here = <<flow, screen.to>> /\ q.heard = [flow |-> flow, missing |-> {}]
      BY <2>1 DEF Person
    <2>6. /\ q.role = p.role /\ q.approval = p.approval /\ q.dispatcher = p.dispatcher
          /\ q.owner = p.owner
          /\ q.ctx = p.ctx
      BY <2>1 DEF Person
    <2>7. \A from \in States : InOrder(from, q.here)
      BY <2>2, <2>5 DEF InOrder
    <2>8. QED BY <2>2, <2>4, <2>5, <2>6, <2>7 DEF Shown
  <1>4. QED BY <1>2, <1>3

-----------------------------------------------------------------------------
(* Menus *)

(* A person in a state of a flow, or just switched to another role.        *)
Somewhere(p) == \E r \in Person : \E s : p = [r EXCEPT !.here = s]

(* Every person is somewhere.                                              *)
LEMMA PersonSomewhere == \A p \in Person : Somewhere(p)
  <1>1. SUFFICES ASSUME NEW p \in Person PROVE p = [p EXCEPT !.here = p.here]
    BY DEF Somewhere
  <1>2. QED BY DEF Person

(* force_state: the state is set, and the whole context replaced.          *)
LEMMA ForcedState ==
    ASSUME NEW p, Somewhere(p), NEW s \in States
    PROVE  LET f == ForceState(p, s) IN
           /\ f \in Person /\ f.here = s /\ f.ctx = {} /\ f.heard = Silent
           /\ f.role = p.role /\ f.approval = p.approval /\ f.dispatcher = p.dispatcher
           /\ f.owner = p.owner
  <1>1. PICK r \in Person : \E x : p = [r EXCEPT !.here = x]
    BY DEF Somewhere
  <1>2. PICK x : p = [r EXCEPT !.here = x]
    BY <1>1
  <1>3. Silent \in [flow : Flows \cup {"none"}, missing : SUBSET Keys]
    BY DEF Silent
  <1>4. QED BY <1>2, <1>3 DEF ForceState, Person

(* Every start is a state.                                                 *)
LEMMA StartsAreStates == Starts \subseteq States
  <1>1. /\ "MENU" \in DOMAIN Sender!Declared /\ "MENU" \in DOMAIN Courier!Declared
        /\ "INITIAL" \in DOMAIN Courier!Declared /\ "MENU" \in DOMAIN Dispatcher!Declared
        /\ "MENU" \in DOMAIN Station!Declared /\ "INITIAL" \in DOMAIN Driver!Declared
        /\ "MENU" \in DOMAIN Admin!Declared
    BY DEF Sender!Declared, Courier!Declared, Dispatcher!Declared, Station!Declared,
       Driver!Declared,
       Admin!Declared
  <1>2. QED BY <1>1, StatesOf DEF Starts, Flows, Declared

(* q is p in the menu of a flow, with these keys of the context alone.     *)
InMenu(p, q, flow, keys) ==
    /\ q \in Person
    /\ q.role = p.role /\ q.approval = p.approval /\ q.dispatcher = p.dispatcher
    /\ q.owner = p.owner
    /\ q.ctx = keys /\ q.here[1] = flow
    /\ q.heard = [flow |-> flow, missing |-> {}]
    /\ Needs(flow)[q.here[2]] = {}
    /\ \A from \in States : InOrder(from, q.here)
    /\ flow = "courier" => q.here[2] \notin Courier!Declared.MENU

(* A menu is shown after its state was forced.                             *)
LEMMA ForcedMenu ==
    ASSUME NEW p, Somewhere(p), NEW s \in Starts, NEW q \in HandleMenu(ForceState(p, s), s[1])
    PROVE  InMenu(p, q, s[1], {})
  <1>1. s \in States
    BY StartsAreStates
  <1>2. LET f == ForceState(p, s) IN f \in Person /\ f.here = s /\ f.ctx = {}
    BY <1>1, ForcedState
  <1>3. Shown(ForceState(p, s), q)
    BY <1>2, HandleMenuShows
  <1>4. QED BY <1>1, <1>2, <1>3, ForcedState DEF Shown, InMenu

(* The same, and keys are put back into the context.                       *)
LEMMA RestoredMenu ==
    ASSUME NEW p, Somewhere(p), NEW s \in Starts, NEW keys \in SUBSET Keys,
           NEW q \in Restored(HandleMenu(ForceState(p, s), s[1]), keys)
    PROVE  InMenu(p, q, s[1], keys)
  <1>1. PICK r \in HandleMenu(ForceState(p, s), s[1]) : q = [r EXCEPT !.ctx = @ \cup keys]
    BY DEF Restored
  <1>2. InMenu(p, r, s[1], {})
    BY ForcedMenu
  <1>3. q \in Person /\ q.ctx = keys
    BY <1>1, <1>2 DEF InMenu, Person
  <1>4. /\ q.role = r.role /\ q.approval = r.approval /\ q.dispatcher = r.dispatcher
        /\ q.owner = r.owner
        /\ q.here = r.here /\ q.heard = r.heard
    BY <1>1, <1>2 DEF InMenu, Person
  <1>5. QED BY <1>2, <1>3, <1>4 DEF InMenu

(* Whoever is in a menu they are entitled to was served, wherever the      *)
(* message found them.                                                     *)
LEMMA MenuServes ==
    ASSUME NEW p, p.here \in States, NEW r, NEW q, NEW flow, NEW keys, InMenu(r, q, flow, keys),
           Entitled(r, flow),
           flow = "admin" \/ keys \cap FlowKeys = {}
    PROVE  Served(p, q)
  <1>1. q.heard.flow = flow /\ q.heard.missing = {}
    BY DEF InMenu
  <1>2. Entitled(q, flow)
    BY DEF InMenu, Entitled
  <1>3. q.here[1] = flow /\ Ready(q)
    BY DEF InMenu, Ready
  <1>4. Blank(q) \/ Carried(p, q)
    <2>1. CASE keys \cap FlowKeys = {}
      BY <2>1 DEF InMenu, Blank
    <2>2. CASE flow = "admin"
      BY <1>3, <2>2 DEF Carried, Own, FormKeys
    <2>3. QED BY <2>1, <2>2
  <1>5. QED BY <1>1, <1>2, <1>3, <1>4 DEF InMenu, Served

(* Somebody answers without a handler: only the context changes.           *)
LEMMA SilenceServes ==
    ASSUME NEW p \in Person, Ready(p), NEW keys \in SUBSET Keys, p.ctx \subseteq keys,
           keys \cap FlowKeys = p.ctx \cap FlowKeys,
           NEW q, q = [p EXCEPT !.ctx = keys, !.heard = Silent]
    PROVE  Served(p, q)
  <1>1. Silent \in [flow : Flows \cup {"none"}, missing : SUBSET Keys]
    BY DEF Silent
  <1>2. q \in Person /\ q.here = p.here /\ q.ctx = keys /\ q.heard = Silent
    BY <1>1 DEF Person
  <1>3. q.heard.flow = "none" /\ q.heard.missing = {}
    BY <1>2 DEF Silent
  <1>4. Ready(q) /\ InOrder(p.here, q.here)
    BY <1>2 DEF Ready, InOrder
  <1>5. QED BY <1>2, <1>3, <1>4 DEF Served, Entitled, Same

-----------------------------------------------------------------------------
(* Switches of role *)

(* An administrator, and whoever is not visiting a role, has nothing of a  *)
(* switch in the context.                                                  *)
Clean(p) == (p.role = "ADMIN" \/ ~Impersonating(p)) => Switch(p) = {}

Stays(p, q) ==
    /\ q.role = "ADMIN" => p.role = "ADMIN"
    /\ q.dispatcher = "lent" => p.dispatcher = "lent"

(* What a message may do to a switch: keep what is left of it, forget it,  *)
(* undo it, or make it.                                                    *)
Keeps(p, q) == Stays(p, q) /\ Switch(q) = Switch(p)

Forgets(p, q) == Stays(p, q) /\ Switch(q) = {}

Returns(p, q) ==
    /\ q.role = "ADMIN" /\ q.approval = Admin!OriginalApproval(p.ctx) /\ Switch(q) = {}
    /\ q.dispatcher = "lent" => p.dispatcher = "lent"

Lent(ctx) == "as_dispatcher" \in ctx /\ "admin_dispatcher_preexisted" \notin ctx

(* Undoing it on Telegram ends the association it made.                    *)
ReturnsStation(p, q) == Returns(p, q) /\ (q.dispatcher = "lent" => ~Lent(p.ctx))

Switches(p, q) ==
    /\ p.role = "ADMIN" /\ q.role # "ADMIN" /\ Impersonating(q)
    /\ Admin!OriginalApproval(q.ctx) = p.approval
    /\ q.dispatcher = "lent" => p.dispatcher = "lent" \/ Lent(q.ctx)

(* On Telegram a flow is only entered in the middle with nothing of its    *)
(* forms in the context: by somebody who is in it, has not begun, or comes *)
(* to the station's from the dispatcher's.                                 *)
Continues(p, flow) ==
    \/ p.here[1] = flow \/ p.here = <<"sender", "INITIAL">>
    \/ flow = "station" /\ p.here[1] = "dispatcher"

Follows(p, q) == Blank(q) \/ Continues(p, q.here[1])

(* A message on Telegram, and on WhatsApp.                                 *)
Replied(p, q) ==
    Served(p, q) /\ Follows(p, q) /\ (Keeps(p, q) \/ ReturnsStation(p, q) \/ Switches(p, q))

RepliedOnWhatsApp(p, q) ==
    Served(p, q) /\ (Keeps(p, q) \/ Forgets(p, q) \/ Returns(p, q) \/ Switches(p, q))

(* The approval that a context remembers is one.                           *)
LEMMA OriginalApprovals ==
    \A ctx : Admin!OriginalApproval(ctx) \in {"none", "pending", "approved", "rejected", "blocked"}
  BY DEF Admin!OriginalApproval

(* The keys of a switch are all there is to it.                            *)
LEMMA SwitchKeys ==
    /\ Admin!AdminKeys \subseteq Keys
    /\ {"original_role", "as_dispatcher", "as_other", "admin_dispatcher_preexisted"} \subseteq Admin!AdminKeys
    /\ \A p, q : Switch(p) = Switch(q) =>
          /\ Impersonating(p) <=> Impersonating(q)
          /\ Lent(p.ctx) <=> Lent(q.ctx)
          /\ Admin!OriginalApproval(p.ctx) = Admin!OriginalApproval(q.ctx)
  <1>1. Admin!AdminKeys = {"original_role", "as_dispatcher", "as_other", "admin_dispatcher_preexisted",
                           "original_approval_pending", "original_approval_approved",
                           "original_approval_rejected", "original_approval_blocked"}
    BY DEF Admin!AdminKeys, Admin!ApprovalKey
  <1>2. ASSUME NEW p, NEW q, Switch(p) = Switch(q)
        PROVE  /\ \A k \in Admin!AdminKeys : k \in p.ctx <=> k \in q.ctx
               /\ Impersonating(p) <=> Impersonating(q)
               /\ Lent(p.ctx) <=> Lent(q.ctx)
               /\ Admin!OriginalApproval(p.ctx) = Admin!OriginalApproval(q.ctx)
    <2>1. \A k \in Admin!AdminKeys : k \in p.ctx <=> k \in q.ctx
      BY <1>2 DEF Switch
    <2>2. QED BY <1>1, <2>1 DEF Impersonating, Lent, Admin!OriginalApproval
  <1>3. QED BY <1>1, <1>2, FlowKeysApart

(* Nothing is left of a switch: nobody is visiting.                        *)
LEMMA NoSwitch ==
    \A p : Switch(p) = {} => ~Impersonating(p) /\ ~Lent(p.ctx)
  BY SwitchKeys DEF Switch, Impersonating, Lent

(* The dialogue is the same in the webhook as in this module. *)
LEMMA TelegramDialogue ==
    /\ \A p, s : Telegram!ForceState(p, s) = ForceState(p, s)
    /\ \A p, key : Telegram!Put(p, key) = Put(p, key)
    /\ \A p : Telegram!Keep(p) = Keep(p)
    /\ \A p : Telegram!Impersonating(p) = Impersonating(p)
    /\ \A p : Telegram!Saved(p) = Switch(p)
    /\ \A p : Telegram!SavedIfAdmin(p) = IF Impersonating(p) THEN Switch(p) ELSE {}
    /\ \A persons, keys : Telegram!Restored(persons, keys) = Restored(persons, keys)
    /\ \A p : Telegram!AdminAgain(p) = AdminAgain(p)
    /\ \A p, flow : Telegram!Handle(p, flow) = Handle(p, flow)
    /\ \A p : Telegram!HandleAdmin(p) = HandleAdmin(p)
    /\ \A p, flow : Telegram!HandleMenu(p, flow) = HandleMenu(p, flow)
    /\ \A p : Telegram!RestoreAdminRole(p) = RestoreAdminRole(p)
    /\ \A p, flow : Telegram!In(p, flow) = In(p, flow)
    /\ \A p : Telegram!DispatcherMenuFirst(p) => p.dispatcher # "none"
  <1>1. \A p, s : Telegram!ForceState(p, s) = ForceState(p, s)
    BY DEF Telegram!ForceState, ForceState, Telegram!Silent, Silent
  <1>2. \A p, key : Telegram!Put(p, key) = Put(p, key)
    BY DEF Telegram!Put, Put, Telegram!Silent, Silent
  <1>3. \A p : Telegram!Keep(p) = Keep(p)
    BY DEF Telegram!Keep, Keep, Telegram!Silent, Silent
  <1>4. \A p : Telegram!Impersonating(p) = Impersonating(p)
    BY DEF Telegram!Impersonating, Impersonating
  <1>5. \A p : Telegram!Saved(p) = Switch(p)
    BY DEF Telegram!Saved, Telegram!Admin!AdminKeys, Admin!AdminKeys,
       Telegram!Admin!ApprovalKey, Admin!ApprovalKey, Switch
  <1>6. \A p : Telegram!SavedIfAdmin(p) = IF Impersonating(p) THEN Switch(p) ELSE {}
    BY <1>4, <1>5 DEF Telegram!SavedIfAdmin
  <1>7. \A persons, keys : Telegram!Restored(persons, keys) = Restored(persons, keys)
    BY DEF Telegram!Restored, Restored
  <1>8. \A p : Telegram!AdminAgain(p) = AdminAgain(p)
    BY DEF Telegram!AdminAgain, AdminAgain, Telegram!Admin!OriginalApproval,
       Admin!OriginalApproval
  <1>9. \A p, flow : Telegram!Handle(p, flow) = Handle(p, flow)
    BY DEF Telegram!Handle, Handle, Telegram!Effects, Effects, Telegram!NoLongerOwner,
       NoLongerOwner
  <1>10. \A p : Telegram!HandleAdmin(p) = HandleAdmin(p)
    BY DEF Telegram!HandleAdmin, HandleAdmin, Telegram!Admin!HandleMessage, Admin!HandleMessage,
       Telegram!Admin!SelectRole, Admin!SelectRole, Telegram!Admin!Menu, Admin!Menu,
       Telegram!Admin!SwitchToRole, Admin!SwitchToRole, Telegram!Admin!SwitchRoles,
       Admin!SwitchRoles, Telegram!Admin!AdminKeys, Admin!AdminKeys, Telegram!Admin!ApprovalKey,
       Admin!ApprovalKey, Telegram!Admin!RoleOf, Admin!RoleOf, Telegram!Admin!WithDispatcher,
       Admin!WithDispatcher, Telegram!Admin!WithoutLentDispatcher, Admin!WithoutLentDispatcher
  <1>11. \A p, flow : Telegram!HandleMenu(p, flow) = HandleMenu(p, flow)
    BY <1>10 DEF Telegram!HandleMenu, HandleMenu
  <1>12. \A p : Telegram!RestoreAdminRole(p) = RestoreAdminRole(p)
    BY <1>1, <1>8, <1>11 DEF Telegram!RestoreAdminRole, RestoreAdminRole,
       Telegram!Admin!WithoutLentDispatcher, Admin!WithoutLentDispatcher
  <1>13. \A p, flow : Telegram!In(p, flow) = In(p, flow)
    BY DEF Telegram!In, In
  <1>14. \A p : Telegram!DispatcherMenuFirst(p) => p.dispatcher # "none"
    BY DEF Telegram!DispatcherMenuFirst
  <1>15. QED BY <1>1, <1>2, <1>3, <1>4, <1>5, <1>6, <1>7, <1>8, <1>9, <1>10, <1>11, <1>12, <1>13,
       <1>14

(* _switch_to_role: the switch is remembered, and where a station was lent *)
(* so is that it has to be returned.                                       *)
LEMMA SwitchToRoleSwitches ==
    ASSUME NEW p \in Person, p.role = "ADMIN", Switch(p) = {}, NEW target \in Admin!SwitchRoles,
           NEW q, q = Admin!SwitchToRole(p, target)
    PROVE  /\ Somewhere(q) /\ q.ctx \subseteq Keys
           /\ q.here[1] = "switch"
           /\ Switches(p, q)
  <1>1. /\ Admin!ApprovalKey("none") = {}
        /\ Admin!ApprovalKey("pending") = {"original_approval_pending"}
        /\ Admin!ApprovalKey("approved") = {"original_approval_approved"}
        /\ Admin!ApprovalKey("rejected") = {"original_approval_rejected"}
        /\ Admin!ApprovalKey("blocked") = {"original_approval_blocked"}
    BY DEF Admin!ApprovalKey
  <1>2. p.approval \in {"none", "pending", "approved", "rejected", "blocked"} /\ p.ctx \subseteq Keys
    BY DEF Person
  <1>3. Admin!ApprovalKey(p.approval) \subseteq Keys
    BY <1>1, <1>2, FlowKeysApart DEF Admin!AdminKeys
  <1> DEFINE station == IF target = "dispatcher" /\ p.dispatcher # "none"
                        THEN {"admin_dispatcher_preexisted"} ELSE {}
             as == IF target = "dispatcher" THEN "as_dispatcher" ELSE "as_other"
             ctx == (p.ctx \ Admin!AdminKeys) \cup {"original_role", as} \cup
                    Admin!ApprovalKey(p.approval) \cup station
  <1>4. ctx \subseteq Keys
    BY <1>2, <1>3, SwitchKeys
  <1> DEFINE approved == IF target = "courier" THEN "approved" ELSE p.approval
             Is(role, approval, dispatcher, owner) ==
                /\ q = [p EXCEPT !.dispatcher = dispatcher, !.owner = owner, !.role = role,
                                 !.approval = approval, !.here = <<"switch", target>>, !.ctx = ctx]
                /\ dispatcher = "lent" => p.dispatcher = "lent" \/ (target = "dispatcher" /\ p.dispatcher = "none")
  <1>5. \E role \in Roles \ {"ADMIN"}, approval \in {"none", "pending", "approved", "rejected", "blocked"},
           dispatcher \in {"none", "real", "lent"}, owner \in BOOLEAN : Is(role, approval, dispatcher, owner)
    <2>1. Admin!RoleOf(target) \in Roles \ {"ADMIN"}
      BY DEF Admin!RoleOf, Admin!SwitchRoles, Roles
    <2>2. approved \in {"none", "pending", "approved", "rejected", "blocked"}
      BY <1>2
    <2>3. p.dispatcher \in {"none", "real", "lent"} /\ p.owner \in BOOLEAN
      BY DEF Person
    <2>4. \E dispatcher \in {"none", "real", "lent"}, owner \in BOOLEAN :
             Is(Admin!RoleOf(target), approved, dispatcher, owner)
      <3>1. CASE target = "dispatcher" /\ p.dispatcher = "none"
        <4>1. Is(Admin!RoleOf(target), approved, "lent", p.owner)
          BY <3>1 DEF Admin!SwitchToRole, Admin!WithDispatcher, Person
        <4> HIDE DEF Is
        <4>2. QED BY <2>3, <4>1
      <3>2. CASE target = "dispatcher" /\ p.dispatcher # "none"
        <4>1. q = [p EXCEPT !.dispatcher = p.dispatcher, !.owner = p.owner, !.role = Admin!RoleOf(target),
                            !.approval = IF target = "courier" THEN "approved" ELSE p.approval,
                            !.here = <<"switch", target>>, !.ctx = ctx]
          BY <3>2 DEF Admin!SwitchToRole, Admin!WithDispatcher, Person
        <4>2. Is(Admin!RoleOf(target), approved, p.dispatcher, p.owner)
          BY <4>1
        <4> HIDE DEF Is
        <4>3. QED BY <2>3, <4>2
      <3>3. CASE target # "dispatcher"
        <4>1. Admin!WithoutLentDispatcher(p, p.ctx) = p
          BY NoSwitch DEF Admin!WithoutLentDispatcher, Lent
        <4>2. CASE target = "station_owner"
          <5>1. q = [p EXCEPT !.dispatcher = p.dispatcher, !.owner = TRUE, !.role = Admin!RoleOf(target),
                              !.approval = IF target = "courier" THEN "approved" ELSE p.approval,
                              !.here = <<"switch", target>>, !.ctx = ctx]
            BY <3>3, <4>1, <4>2 DEF Admin!SwitchToRole, Person
          <5>2. Is(Admin!RoleOf(target), approved, p.dispatcher, TRUE)
            BY <5>1
          <5> HIDE DEF Is
          <5>3. QED BY <2>3, <5>2
        <4>3. CASE target # "station_owner"
          <5>1. q = [p EXCEPT !.dispatcher = p.dispatcher, !.owner = p.owner, !.role = Admin!RoleOf(target),
                              !.approval = IF target = "courier" THEN "approved" ELSE p.approval,
                              !.here = <<"switch", target>>, !.ctx = ctx]
            BY <3>3, <4>1, <4>3 DEF Admin!SwitchToRole, Person
          <5>2. Is(Admin!RoleOf(target), approved, p.dispatcher, p.owner)
            BY <5>1
          <5> HIDE DEF Is
          <5>3. QED BY <2>3, <5>2
        <4>4. QED BY <4>2, <4>3
      <3>4. QED BY <3>1, <3>2, <3>3
    <2> HIDE DEF Is, approved
    <2>5. QED BY <2>1, <2>2, <2>4
  <1> HIDE DEF ctx
  <1>6. PICK role \in Roles \ {"ADMIN"}, approval \in {"none", "pending", "approved", "rejected", "blocked"},
             dispatcher \in {"none", "real", "lent"}, owner \in BOOLEAN : Is(role, approval, dispatcher, owner)
    BY <1>5
  <1>7. /\ q.role = role /\ q.ctx = ctx /\ q.dispatcher = dispatcher
        /\ q.here = <<"switch", target>>
    BY <1>6 DEF Person
  <1>8. Somewhere(q)
    <2> DEFINE r == [p EXCEPT !.dispatcher = dispatcher, !.owner = owner, !.role = role,
                              !.approval = approval, !.ctx = ctx]
    <2>1. r \in Person
      BY <1>4 DEF Person
    <2>2. q = [r EXCEPT !.here = <<"switch", target>>]
      BY <1>6 DEF Person
    <2>3. QED BY <2>1, <2>2 DEF Somewhere
  <1>9. Impersonating(q)
    BY <1>7 DEF Impersonating, ctx
  <1>10. Admin!OriginalApproval(ctx) = p.approval
    <2>1. \A k \in {"original_approval_pending", "original_approval_approved",
                    "original_approval_rejected", "original_approval_blocked"} :
             k \in Admin!AdminKeys
      BY <1>1 DEF Admin!AdminKeys
    <2>2. QED BY <1>1, <1>2, <2>1 DEF ctx, Admin!OriginalApproval
  <1>11. target = "dispatcher" /\ p.dispatcher = "none" => Lent(ctx)
    <2>1. "admin_dispatcher_preexisted" \in Admin!AdminKeys
      BY SwitchKeys
    <2>2. "admin_dispatcher_preexisted" \notin Admin!ApprovalKey(p.approval)
      BY <1>1, <1>2
    <2>3. QED BY <2>1, <2>2 DEF Lent, ctx
  <1>12. QED BY <1>4, <1>6, <1>7, <1>8, <1>9, <1>10, <1>11 DEF Switches

(* The administrator's handler: its menu, or a switch.                     *)
LEMMA HandleAdminAnswers ==
    ASSUME NEW p \in Person, p.role = "ADMIN", p.here[1] = "admin", Switch(p) = {},
           NEW q \in HandleAdmin(p)
    PROVE  \/ /\ q.here[1] # "switch" /\ InMenu(p, q, "admin", p.ctx)
           \/ /\ q.here[1] = "switch" /\ Somewhere(q) /\ q.ctx \subseteq Keys /\ Switches(p, q)
  <1>1. PICK a \in Admin!HandleMessage(p) : q = [a EXCEPT !.heard = [flow |-> "admin", missing |-> {}]]
    BY DEF HandleAdmin
  <1>2. [flow |-> "admin", missing |-> {}] \in [flow : Flows \cup {"none"}, missing : SUBSET Keys]
    BY DEF Flows
  <1>3. CASE a = [p EXCEPT !.here = <<"admin", "SELECT_ROLE">>]
    <2>1. <<"admin", "SELECT_ROLE">> \in States
      BY StatesOf DEF Declared, Admin!Declared, Flows
    <2>2. q = [p EXCEPT !.here = <<"admin", "SELECT_ROLE">>, !.heard = [flow |-> "admin", missing |-> {}]]
      BY <1>1, <1>3
    <2>3. q \in Person
      BY <1>2, <2>1, <2>2 DEF Person
    <2>4. /\ q.role = p.role /\ q.approval = p.approval /\ q.dispatcher = p.dispatcher
          /\ q.owner = p.owner
          /\ q.ctx = p.ctx /\ q.here = <<"admin", "SELECT_ROLE">>
          /\ q.heard = [flow |-> "admin", missing |-> {}]
      BY <2>2 DEF Person
    <2>5. \A from \in States : InOrder(from, <<"admin", "SELECT_ROLE">>)
      <3>1. SUFFICES ASSUME NEW from \in States, from[1] = "admin", from # <<"admin", "SELECT_ROLE">>
                     PROVE  "SELECT_ROLE" \in Declared("admin")[from[2]]
        BY DEF InOrder
      <3>2. from = <<from[1], from[2]>> /\ from[2] \in {"MENU", "SELECT_ROLE"}
        BY <3>1, StatesOf DEF Declared, Admin!Declared
      <3>3. from[2] = "MENU"
        BY <3>1, <3>2
      <3>4. QED BY <3>3 DEF Declared, Admin!Declared
    <2>6. Needs("admin")["SELECT_ROLE"] = {}
      BY DEF Needs, Admin!Declared
    <2>7. QED BY <2>3, <2>4, <2>5, <2>6 DEF InMenu
  <1>4. CASE \E target \in Admin!SwitchRoles : a = Admin!SwitchToRole(p, target)
    <2>1. PICK target \in Admin!SwitchRoles : a = Admin!SwitchToRole(p, target)
      BY <1>4
    <2>2. Somewhere(a) /\ a.ctx \subseteq Keys /\ a.here[1] = "switch" /\ Switches(p, a)
      BY <2>1, SwitchToRoleSwitches
    <2>3. PICK r \in Person : \E s : a = [r EXCEPT !.here = s]
      BY <2>2 DEF Somewhere
    <2>4. PICK s : a = [r EXCEPT !.here = s]
      BY <2>3
    <2> DEFINE h == [r EXCEPT !.heard = [flow |-> "admin", missing |-> {}]]
    <2>5. h \in Person /\ q = [h EXCEPT !.here = s]
      BY <1>1, <1>2, <2>4 DEF Person
    <2>6. /\ q.role = a.role /\ q.dispatcher = a.dispatcher /\ q.ctx = a.ctx /\ q.here = a.here
      BY <1>1, <2>4 DEF Person
    <2>7. Somewhere(q)
      BY <2>5 DEF Somewhere
    <2>8. QED BY <2>2, <2>6, <2>7 DEF Switches, Impersonating
  <1>5. QED BY <1>1, <1>3, <1>4 DEF Admin!HandleMessage, Admin!SelectRole, Admin!Menu

(* _restore_admin_role_and_route.                                          *)
LEMMA RestoreReturns ==
    ASSUME NEW p \in Person, NEW q \in RestoreAdminRole(p)
    PROVE  /\ \A from : from.here \in States => Served(from, q)
           /\ ReturnsStation(p, q) /\ Blank(q)
  <1> DEFINE w == Admin!WithoutLentDispatcher(p, p.ctx)
             r == AdminAgain(w)
  <1>1. /\ w \in Person /\ w.ctx = p.ctx
        /\ w.dispatcher = "lent" => p.dispatcher = "lent" /\ ~Lent(p.ctx)
    BY DEF Admin!WithoutLentDispatcher, Person, Lent
  <1> HIDE DEF w
  <1>2. /\ r \in Person /\ r.role = "ADMIN" /\ r.approval = Admin!OriginalApproval(w.ctx)
        /\ r.dispatcher = w.dispatcher
    BY <1>1, OriginalApprovals DEF AdminAgain, Person, Roles
  <1>3. Somewhere(r)
    BY <1>2, PersonSomewhere
  <1>4. q \in HandleMenu(ForceState(r, <<"admin", "MENU">>), <<"admin", "MENU">>[1])
    BY DEF RestoreAdminRole, w
  <1> HIDE DEF r
  <1>5. InMenu(r, q, "admin", {})
    BY <1>3, <1>4, ForcedMenu DEF Starts
  <1>6. Entitled(r, "admin")
    BY <1>2 DEF Entitled
  <1>7. \A from : from.here \in States => Served(from, q)
    BY <1>5, <1>6, MenuServes
  <1>8. ReturnsStation(p, q)
    BY <1>1, <1>2, <1>5 DEF InMenu, ReturnsStation, Returns, Switch
  <1>9. QED BY <1>5, <1>7, <1>8 DEF InMenu, Blank

-----------------------------------------------------------------------------
(* Going to the menu of a role *)

(* The state s is where r, who is p but may have lost a role, belongs.     *)
Resolved(p, r, s) ==
    /\ s \in Starts /\ Somewhere(r) /\ Entitled(r, s[1])
    /\ r.role = p.role \/ r.role = "SENDER"
    /\ r.approval = p.approval /\ r.dispatcher = p.dispatcher

(* q is p in the menu of the role, with what is left of a switch if p is   *)
(* visiting.                                                               *)
Routed(p, q) ==
    /\ \A from : from.here \in States => Served(from, q)
    /\ q.role = p.role \/ q.role = "SENDER"
    /\ q.approval = p.approval /\ q.dispatcher = p.dispatcher
    /\ Switch(q) = IF Impersonating(p) THEN Switch(p) ELSE {}
    /\ Blank(q)

(* The fields of a person somewhere, and another role for them.            *)
LEMMA SomewhereFields ==
    ASSUME NEW p, Somewhere(p)
    PROVE  /\ p.role \in Roles /\ p.owner \in BOOLEAN /\ p.ctx \subseteq Keys
           /\ p.dispatcher \in {"none", "real", "lent"}
           /\ \A role \in Roles : LET r == [p EXCEPT !.role = role] IN
                /\ Somewhere(r) /\ r.role = role
                /\ r.approval = p.approval /\ r.dispatcher = p.dispatcher /\ r.owner = p.owner
                /\ r.ctx = p.ctx /\ r.here = p.here
  <1>1. PICK t \in Person : \E x : p = [t EXCEPT !.here = x]
    BY DEF Somewhere
  <1>2. PICK x : p = [t EXCEPT !.here = x]
    BY <1>1
  <1>3. ASSUME NEW role \in Roles
        PROVE  LET r == [p EXCEPT !.role = role] IN
                /\ Somewhere(r) /\ r.role = role
                /\ r.approval = p.approval /\ r.dispatcher = p.dispatcher /\ r.owner = p.owner
                /\ r.ctx = p.ctx /\ r.here = p.here
    <2> DEFINE r == [p EXCEPT !.role = role]
               u == [t EXCEPT !.role = role]
    <2>1. u \in Person /\ r = [u EXCEPT !.here = x]
      BY <1>2 DEF Person
    <2>2. Somewhere(r)
      BY <2>1 DEF Somewhere
    <2>3. QED BY <1>2, <2>2 DEF Person
  <1>4. QED BY <1>2, <1>3 DEF Person

(* route_to_role_menu of either webhook, from where the role belongs.      *)
LEMMA ResolvedIsRouted ==
    ASSUME NEW p, Somewhere(p), NEW r, NEW s, Resolved(p, r, s),
           NEW q \in Restored(HandleMenu(ForceState(r, s), s[1]),
           IF Impersonating(p) THEN Switch(p) ELSE {})
    PROVE  Routed(p, q)
  <1> DEFINE keys == IF Impersonating(p) THEN Switch(p) ELSE {}
  <1>1. keys \in SUBSET Keys /\ keys \cap Admin!AdminKeys = keys /\ keys \cap FlowKeys = {}
    BY SwitchKeys, FlowKeysApart DEF Switch
  <1>2. InMenu(r, q, s[1], keys)
    BY <1>1, RestoredMenu DEF Resolved
  <1>3. \A from : from.here \in States => Served(from, q)
    BY <1>1, <1>2, MenuServes DEF Resolved
  <1>4. QED BY <1>1, <1>2, <1>3 DEF InMenu, Resolved, Routed, Switch, Blank

(* A first state of a flow can be set at any time, without a handler.      *)
LEMMA StartServes ==
    ASSUME NEW q \in Person, q.here \in Starts, q.heard = Silent, Blank(q)
    PROVE  \A from : Served(from, q)
  <1> DEFINE s == q.here
  <1>1. /\ Needs(s[1])[s[2]] = {} /\ s[2] \in Entries(s[1])
        /\ s[1] = "courier" => s[2] \notin Courier!Declared.MENU
    BY SMTT(30)
    DEF Starts, Needs, SenderNeeds, CourierNeeds, DispatcherNeeds, StationNeeds, DriverNeeds,
       Sender!Declared, Courier!Declared, Dispatcher!Declared, Station!Declared, Driver!Declared,
       Admin!Declared, Entries
  <1>2. q.heard.flow = "none" /\ q.heard.missing = {}
    BY DEF Silent
  <1>3. Ready(q) /\ \A from : InOrder(from, q.here)
    BY <1>1 DEF Ready, InOrder
  <1>4. QED BY <1>2, <1>3 DEF Served, Entitled

(* The same without a menu: the state of the role, set and restored.       *)
LEMMA ResolvedIsReset ==
    ASSUME NEW p, Somewhere(p), NEW r, NEW s, Resolved(p, r, s),
           NEW q \in Restored({ForceState(r, s)}, IF Impersonating(p) THEN Switch(p) ELSE {})
    PROVE  Routed(p, q)
  <1> DEFINE keys == IF Impersonating(p) THEN Switch(p) ELSE {}
             f == ForceState(r, s)
  <1>1. keys \in SUBSET Keys /\ keys \cap Admin!AdminKeys = keys /\ keys \cap FlowKeys = {}
    BY SwitchKeys, FlowKeysApart DEF Switch
  <1>2. s \in States /\ s \in Starts
    BY StartsAreStates DEF Resolved
  <1>3. /\ f \in Person /\ f.here = s /\ f.ctx = {} /\ f.heard = Silent
        /\ f.role = r.role /\ f.approval = r.approval /\ f.dispatcher = r.dispatcher
    BY <1>2, ForcedState DEF Resolved
  <1>4. q = [f EXCEPT !.ctx = @ \cup keys]
    BY DEF Restored
  <1> HIDE DEF f, keys
  <1>5. /\ q \in Person /\ q.ctx = keys /\ q.here = s /\ q.heard = Silent
        /\ q.role = r.role /\ q.approval = r.approval /\ q.dispatcher = r.dispatcher
    BY <1>1, <1>3, <1>4 DEF Person
  <1>6. Blank(q) /\ \A from : Served(from, q)
    BY <1>1, <1>2, <1>5, StartServes DEF Blank
  <1>7. QED BY <1>1, <1>5, <1>6 DEF Routed, Resolved, Switch, keys

(* Going to a menu keeps a switch.                                         *)
LEMMA RoutedIsReplied ==
    ASSUME NEW p, p.here \in States, Clean(p), NEW r, NEW q, Routed(r, q), Switch(r) = Switch(p),
           r.role = p.role \/ r.role = "SENDER", r.dispatcher = p.dispatcher
    PROVE  Served(p, q) /\ Keeps(p, q) /\ Blank(q)
  <1>1. Switch(q) = Switch(p)
    <2>1. Impersonating(r) <=> Impersonating(p)
      BY SwitchKeys
    <2>2. QED BY <2>1 DEF Routed, Clean
  <1>2. QED BY <1>1 DEF Routed, Keeps, Stays

(* After a switch of role, too.                                            *)
LEMMA SwitchedIsReplied ==
    ASSUME NEW p, p.here \in States, NEW r, Switches(p, r), NEW q, Routed(r, q)
    PROVE  Served(p, q) /\ Switches(p, q) /\ Blank(q)
  <1>1. Switch(q) = Switch(r)
    BY DEF Routed, Switches
  <1>2. /\ Impersonating(q) /\ (Lent(q.ctx) <=> Lent(r.ctx))
        /\ Admin!OriginalApproval(q.ctx) = Admin!OriginalApproval(r.ctx)
    BY <1>1, SwitchKeys DEF Switches
  <1>3. QED BY <1>2 DEF Routed, Switches

(* Somebody answers without a handler, and keys of the webhook itself, but *)
(* none of a switch, are set or cleared.                                   *)
LEMMA SilenceIsReplied ==
    ASSUME NEW p \in Person, Ready(p), NEW keys \in SUBSET Keys, p.ctx \subseteq keys,
           keys \cap Admin!AdminKeys = p.ctx \cap Admin!AdminKeys,
           keys \cap FlowKeys = p.ctx \cap FlowKeys,
           NEW q, q = [p EXCEPT !.ctx = keys, !.heard = Silent]
    PROVE  Served(p, q) /\ Keeps(p, q) /\ q.here = p.here
  <1>1. q.role = p.role /\ q.dispatcher = p.dispatcher /\ q.ctx = keys /\ q.here = p.here
    BY DEF Person
  <1>2. QED BY <1>1, SilenceServes DEF Keeps, Stays, Switch

(* The handler of a flow keeps a switch.                                   *)
LEMMA HandleIsReplied ==
    ASSUME NEW p \in Person, Ready(p), NEW flow \in Flows \ {"admin"}, Entitled(p, flow),
           flow \in {"dispatcher", "driver"} => p.here[1] = flow,
           NEW q \in Handle(p, flow)
    PROVE  Served(p, q) /\ Keeps(p, q) /\ q.here[1] = flow
  BY HandleServes DEF Keeps, Stays

(* So does a menu that is shown with the keys of the switch put back.      *)
LEMMA MenuIsReplied ==
    ASSUME NEW p \in Person, NEW r, NEW q, NEW flow, NEW keys, InMenu(r, q, flow, keys),
           Entitled(r, flow),
           keys \cap Admin!AdminKeys = Switch(p), flow = "admin" \/ keys \cap FlowKeys = {},
           r.role = "ADMIN" => p.role = "ADMIN", r.dispatcher = p.dispatcher
    PROVE  Served(p, q) /\ Keeps(p, q) /\ (keys \cap FlowKeys = {} => Blank(q)) /\ q.here[1] = flow
  <1>1. p.here \in States
    BY DEF Person
  <1>2. Served(p, q)
    BY <1>1, MenuServes
  <1>3. QED BY <1>2 DEF InMenu, Keeps, Stays, Switch, Blank

-----------------------------------------------------------------------------
(* Telegram *)

(* _resolve_role_state: a menu the person is entitled to.                  *)
LEMMA TelegramResolves ==
    ASSUME NEW p, Somewhere(p)
    PROVE  \E r, s : Telegram!ResolveRoleState(p) = ForceState(r, s) /\ Resolved(p, r, s)
  <1> DEFINE Is(r, s) == Telegram!ResolveRoleState(p) = ForceState(r, s) /\ Resolved(p, r, s)
             first == Telegram!DispatcherMenuFirst(p)
  <1>1. p.role \in Roles /\ p.owner \in BOOLEAN
    BY SomewhereFields
  <1>2. CASE p.role = "COURIER"
    <2>1. Is(p, <<"courier", "MENU">>)
      BY <1>2, TelegramDialogue DEF Telegram!ResolveRoleState, Resolved, Starts, Entitled
    <2> HIDE DEF Is
    <2>2. QED BY <2>1 DEF Is
  <1>3. CASE p.role = "STATION_OWNER" /\ p.owner
    <2>1. Telegram!OwnerOrDowngraded(p) = p
      BY <1>3 DEF Telegram!OwnerOrDowngraded
    <2>2. Is(p, <<"station", "MENU">>)
      BY <1>3, <2>1, TelegramDialogue DEF Telegram!ResolveRoleState, Resolved, Starts, Entitled
    <2>3. QED BY <2>2
  <1>4. CASE p.role = "STATION_OWNER" /\ ~p.owner
    <2> DEFINE r == [p EXCEPT !.role = "SENDER"]
    <2>1. "SENDER" \in Roles
      BY DEF Roles
    <2>2. /\ Somewhere(r) /\ r.role = "SENDER" /\ r.approval = p.approval
          /\ r.dispatcher = p.dispatcher
      BY <2>1, SomewhereFields
    <2>3. Telegram!OwnerOrDowngraded(p) = r
      BY <1>4 DEF Telegram!OwnerOrDowngraded
    <2> HIDE DEF r
    <2>4. Is(r, <<"sender", "MENU">>)
      BY <1>4, <2>2, <2>3, TelegramDialogue DEF Telegram!ResolveRoleState, Resolved, Starts,
         Entitled
    <2>5. QED BY <2>4
  <1>5. CASE p.role = "ADMIN"
    <2>1. CASE switching
      <3>1. Is(p, <<"admin", "MENU">>)
        BY <1>5, <2>1, TelegramDialogue DEF Telegram!ResolveRoleState, Resolved, Starts, Entitled
      <3>2. QED BY <3>1
    <2>2. CASE ~switching
      <3>1. Is(p, <<"sender", "MENU">>)
        BY <1>5, <2>2, TelegramDialogue DEF Telegram!ResolveRoleState, Resolved, Starts, Entitled
      <3>2. QED BY <3>1
    <2>3. QED BY <2>1, <2>2
  <1>6. CASE p.role \in {"SENDER", "DRIVER"} /\ first
    <2>1. Is(p, <<"dispatcher", "MENU">>)
      BY <1>6, TelegramDialogue DEF Telegram!ResolveRoleState, Resolved, Starts, Entitled
    <2>2. QED BY <2>1
  <1>7. CASE p.role = "DRIVER" /\ ~first
    <2>1. Is(p, <<"driver", "INITIAL">>)
      BY <1>7, TelegramDialogue DEF Telegram!ResolveRoleState, Resolved, Starts, Entitled
    <2>2. QED BY <2>1
  <1>8. CASE p.role = "SENDER" /\ ~first
    <2>1. Is(p, <<"sender", "MENU">>)
      BY <1>8, TelegramDialogue DEF Telegram!ResolveRoleState, Resolved, Starts, Entitled
    <2>2. QED BY <2>1
  <1>9. QED BY <1>1, <1>2, <1>3, <1>4, <1>5, <1>6, <1>7, <1>8 DEF Roles

(* _route_to_role_menu and _reset_role_state.                              *)
LEMMA TelegramRoutes ==
    ASSUME NEW p, Somewhere(p),
           NEW q \in Telegram!RouteToRoleMenu(p) \cup Telegram!ResetRoleState(p)
    PROVE  Routed(p, q)
  <1>1. PICK r, s : Telegram!ResolveRoleState(p) = ForceState(r, s) /\ Resolved(p, r, s)
    BY TelegramResolves
  <1> DEFINE keys == IF Impersonating(p) THEN Switch(p) ELSE {}
  <1>2. s \in States
    BY <1>1, StartsAreStates DEF Resolved
  <1>3. ForceState(r, s).here = s
    BY <1>1, <1>2, ForcedState DEF Resolved
  <1>4. Telegram!RouteToRoleMenu(p) = Restored(HandleMenu(ForceState(r, s), s[1]), keys)
    BY <1>1, <1>3, TelegramDialogue DEF Telegram!RouteToRoleMenu, Telegram!RoleMenu
  <1>5. Telegram!ResetRoleState(p) = Restored({ForceState(r, s)}, keys)
    BY <1>1, TelegramDialogue DEF Telegram!ResetRoleState
  <1>6. CASE q \in Telegram!RouteToRoleMenu(p)
    <2>1. q \in Restored(HandleMenu(ForceState(r, s), s[1]), keys)
      BY <1>4, <1>6
    <2>2. QED BY <1>1, <2>1, ResolvedIsRouted
  <1>7. CASE q \in Telegram!ResetRoleState(p)
    <2>1. q \in Restored({ForceState(r, s)}, keys)
      BY <1>5, <1>7
    <2>2. QED BY <1>1, <2>1, ResolvedIsReset
  <1>8. QED BY <1>6, <1>7

(* What the branches of the webhook have in common: a person whose replies *)
(* are in the context, and nothing of a switch unless visiting.            *)
Fine(p) == p \in Person /\ Ready(p) /\ Clean(p)

(* The menu of the role: of the person as it is, or without the message to *)
(* management, or without a role that was lost.                            *)
LEMMA TelegramMenuReplied ==
    ASSUME NEW p, Fine(p), NEW r, Somewhere(r), Switch(r) = Switch(p),
           r.role = p.role \/ r.role = "SENDER", r.dispatcher = p.dispatcher,
           NEW q \in Telegram!RouteToRoleMenu(r) \cup Telegram!ResetRoleState(r)
    PROVE  Replied(p, q)
  <1>1. p.here \in States /\ Clean(p)
    BY DEF Fine, Person
  <1>2. Routed(r, q)
    BY TelegramRoutes
  <1>3. QED BY <1>1, <1>2, RoutedIsReplied DEF Replied, Follows

(* The menu of the role of the person as it is.                            *)
LEMMA TelegramRoleMenu ==
    ASSUME NEW p, Fine(p), NEW q \in Telegram!RouteToRoleMenu(p)
    PROVE  Replied(p, q)
  <1>1. Somewhere(p)
    BY PersonSomewhere DEF Fine
  <1>2. QED BY <1>1, TelegramMenuReplied

(* restore_admin_role_and_route, for whoever gets there.                   *)
LEMMA TelegramRestored ==
    ASSUME NEW p, Fine(p), NEW q \in Telegram!RestoreAdminRole(p)
    PROVE  Replied(p, q)
  <1>1. p \in Person /\ p.here \in States
    BY DEF Fine, Person
  <1>2. q \in RestoreAdminRole(p)
    BY TelegramDialogue
  <1>3. QED BY <1>1, <1>2, RestoreReturns DEF Replied, Follows

(* A handler of the person's own role.                                     *)
LEMMA TelegramHandled ==
    ASSUME NEW p, Fine(p), NEW flow \in Flows \ {"admin"}, Entitled(p, flow),
           flow \in {"dispatcher", "driver"} => Telegram!In(p, flow), Continues(p, flow),
           NEW q \in Telegram!Handle(p, flow)
    PROVE  Replied(p, q)
  <1>1. flow \in {"dispatcher", "driver"} => p.here[1] = flow
    BY TelegramDialogue DEF In
  <1>2. q \in Handle(p, flow)
    BY TelegramDialogue
  <1>3. QED BY <1>1, <1>2, HandleIsReplied DEF Fine, Replied, Follows

(* A menu that the person's role opens, when nothing of a switch is left   *)
(* or it is put back.                                                      *)
LEMMA TelegramOpened ==
    ASSUME NEW p, Fine(p), NEW r, Somewhere(r), NEW s \in Starts, Entitled(r, s[1]),
           r.role = "ADMIN" => p.role = "ADMIN", r.dispatcher = p.dispatcher,
           NEW q, \/ Switch(p) = {} /\ q \in HandleMenu(ForceState(r, s), s[1])
                  \/ q \in Restored(HandleMenu(ForceState(r, s), s[1]), Switch(p))
    PROVE  Replied(p, q)
  <1>1. p \in Person
    BY DEF Fine
  <1>2. /\ Switch(p) \in SUBSET Keys /\ Switch(p) \cap Admin!AdminKeys = Switch(p)
        /\ Switch(p) \cap FlowKeys = {}
    BY SwitchKeys, FlowKeysApart DEF Switch
  <1>3. InMenu(r, q, s[1], Switch(p))
    BY <1>2, ForcedMenu, RestoredMenu
  <1>4. QED BY <1>1, <1>2, <1>3, MenuIsReplied DEF Replied, Follows

(* /start *)
LEMMA TelegramStart ==
    ASSUME NEW p, Fine(p), NEW q \in Telegram!Start(p)
    PROVE  Replied(p, q)
  <1>1. CASE q \in Telegram!RouteToRoleMenu(p)
    BY <1>1, TelegramRoleMenu
  <1>2. CASE q \in Telegram!RestoreAdminRole(p)
    BY <1>2, TelegramRestored
  <1>3. CASE /\ p.role = "COURIER" /\ ~Telegram!Impersonating(p)
             /\ q \in Telegram!HandleMenu(Telegram!ForceState(p, <<"courier", "INITIAL">>), "courier")
    <2>1. q \in HandleMenu(ForceState(p, <<"courier", "INITIAL">>), <<"courier", "INITIAL">>[1])
      BY <1>3, TelegramDialogue
    <2>2. Switch(p) = {} /\ Somewhere(p)
      BY <1>3, TelegramDialogue, PersonSomewhere DEF Clean, Fine
    <2>3. QED BY <1>3, <2>1, <2>2, TelegramOpened DEF Starts, Entitled
  <1>4. QED BY <1>1, <1>2, <1>3 DEF Telegram!Start

(* "#" *)
LEMMA TelegramHome ==
    ASSUME NEW p, Fine(p), NEW q \in Telegram!Home(p)
    PROVE  Replied(p, q)
  <1>1. CASE q \in Telegram!RouteToRoleMenu(p)
    BY <1>1, TelegramRoleMenu
  <1>2. CASE q \in Telegram!RestoreAdminRole(p)
    BY <1>2, TelegramRestored
  <1>3. CASE /\ ~Telegram!Impersonating(p)
             /\ q = Telegram!ForceState([p EXCEPT !.role = "SENDER"], <<"sender", "MENU">>)
    <2> DEFINE r == [p EXCEPT !.role = "SENDER"]
               s == <<"sender", "MENU">>
    <2>1. "SENDER" \in Roles /\ s \in Starts /\ s \in States
      BY StartsAreStates DEF Roles, Starts
    <2>2. Somewhere(r) /\ r.role = "SENDER" /\ r.dispatcher = p.dispatcher
      BY <2>1, PersonSomewhere, SomewhereFields DEF Fine
    <2>3. q = ForceState(r, s)
      BY <1>3, TelegramDialogue
    <2> HIDE DEF r, s
    <2>4. /\ q \in Person /\ q.here = s /\ q.ctx = {} /\ q.heard = Silent
          /\ q.role = "SENDER" /\ q.dispatcher = p.dispatcher
      BY <2>1, <2>2, <2>3, ForcedState
    <2>5. Served(p, q) /\ Blank(q)
      BY <2>1, <2>4, StartServes DEF Blank
    <2>6. Switch(p) = {} /\ Switch(q) = {}
      BY <1>3, <2>4, TelegramDialogue DEF Clean, Fine, Switch
    <2>7. QED BY <2>4, <2>5, <2>6 DEF Replied, Keeps, Stays, Follows
  <1>4. QED BY <1>1, <1>2, <1>3 DEF Telegram!Home

(* The buttons of a sender's menu.                                         *)
LEMMA TelegramSenderButton ==
    ASSUME NEW p, Fine(p), NEW text, Telegram!PressesSenderButton(p, text),
           NEW q \in Telegram!SenderButton(p, text)
    PROVE  Replied(p, q)
  <1>1. ASSUME NEW role \in {"COURIER", "DRIVER"}, NEW s, s \in Starts, s[1] = IF role = "COURIER" THEN "courier" ELSE "driver",
               q \in Restored(HandleMenu(ForceState([p EXCEPT !.role = role], s), s[1]),
                              IF Impersonating(p) THEN Switch(p) ELSE {})
        PROVE  Replied(p, q)
    <2> DEFINE r == [p EXCEPT !.role = role]
    <2>1. role \in Roles
      BY DEF Roles
    <2>2. Somewhere(r) /\ r.role = role /\ r.dispatcher = p.dispatcher
      BY <2>1, PersonSomewhere, SomewhereFields DEF Fine
    <2>3. (IF Impersonating(p) THEN Switch(p) ELSE {}) = Switch(p)
      BY DEF Fine, Clean
    <2>4. q \in Restored(HandleMenu(ForceState(r, s), s[1]), Switch(p))
      BY <1>1, <2>3
    <2> HIDE DEF r
    <2>5. Entitled(r, s[1]) /\ r.role # "ADMIN"
      BY <1>1, <2>2 DEF Entitled
    <2>6. QED BY <1>1, <2>2, <2>4, <2>5, TelegramOpened
  <1>2. CASE text = "join as courier"
    <2>1. q \in Restored(HandleMenu(ForceState([p EXCEPT !.role = "COURIER"], <<"courier", "INITIAL">>),
                                    <<"courier", "INITIAL">>[1]), IF Impersonating(p) THEN Switch(p) ELSE {})
      BY <1>2, TelegramDialogue DEF Telegram!SenderButton, Telegram!JoinAsCourier
    <2>2. QED BY <1>1, <2>1 DEF Starts
  <1>3. CASE text = "join as driver"
    <2>1. q \in Restored(HandleMenu(ForceState([p EXCEPT !.role = "DRIVER"], <<"driver", "INITIAL">>),
                                    <<"driver", "INITIAL">>[1]), IF Impersonating(p) THEN Switch(p) ELSE {})
      BY <1>3, TelegramDialogue DEF Telegram!SenderButton, Telegram!JoinAsDriver
    <2>2. QED BY <1>1, <2>1 DEF Starts
  <1>4. CASE text = "join as station"
    <2>1. q = [p EXCEPT !.heard = Silent]
      BY <1>4, TelegramDialogue DEF Telegram!SenderButton, Keep
    <2>2. q = [p EXCEPT !.ctx = p.ctx, !.heard = Silent] /\ p.ctx \in SUBSET Keys
      BY <2>1 DEF Fine, Person
    <2>3. QED BY <2>2, SilenceIsReplied DEF Replied, Fine, Follows, Continues
  <1>5. QED BY <1>2, <1>3, <1>4 DEF Telegram!PressesSenderButton

(* Somebody is only answered, or asked for a message to management.        *)
LEMMA TelegramSilent ==
    ASSUME NEW p, Fine(p), NEW q \in Telegram!Keep(p) \cup {Telegram!Put(p,
           "contact_admin_pending")}
    PROVE  Replied(p, q)
  <1>1. /\ p.ctx \in SUBSET Keys /\ "contact_admin_pending" \in Keys
        /\ "contact_admin_pending" \notin Admin!AdminKeys /\ "contact_admin_pending" \notin FlowKeys
    BY FlowKeysApart DEF Fine, Person, Keys, Admin!AdminKeys, Admin!ApprovalKey
  <1>2. CASE q \in Telegram!Keep(p)
    <2>1. q = [p EXCEPT !.ctx = p.ctx, !.heard = Silent]
      BY <1>2, TelegramDialogue DEF Keep, Fine, Person
    <2>2. QED BY <1>1, <2>1, SilenceIsReplied DEF Replied, Fine, Follows, Continues
  <1>3. CASE q = Telegram!Put(p, "contact_admin_pending")
    <2> DEFINE keys == p.ctx \cup {"contact_admin_pending"}
    <2>1. q = [p EXCEPT !.ctx = keys, !.heard = Silent]
      BY <1>3, TelegramDialogue DEF Put
    <2>2. /\ keys \in SUBSET Keys /\ p.ctx \subseteq keys
          /\ keys \cap Admin!AdminKeys = p.ctx \cap Admin!AdminKeys
          /\ keys \cap FlowKeys = p.ctx \cap FlowKeys
      BY <1>1
    <2>3. QED BY <2>1, <2>2, SilenceIsReplied DEF Replied, Fine, Follows, Continues
  <1>4. QED BY <1>2, <1>3

(* The message to management, or the way back instead of it.               *)
LEMMA TelegramContactAdmin ==
    ASSUME NEW p, Fine(p), NEW text, NEW q \in Telegram!ContactAdmin(p, text)
    PROVE  Replied(p, q)
  <1> DEFINE sent == [p EXCEPT !.ctx = @ \ {"contact_admin_pending"}]
  <1>1. "contact_admin_pending" \notin Admin!AdminKeys
    BY DEF Admin!AdminKeys, Admin!ApprovalKey
  <1>2. /\ sent \in Person /\ sent.role = p.role /\ sent.dispatcher = p.dispatcher
        /\ sent.ctx = p.ctx \ {"contact_admin_pending"}
    BY DEF Fine, Person
  <1>3. q \in Telegram!RouteToRoleMenu(sent) \cup Telegram!ResetRoleState(sent)
    BY DEF Telegram!ContactAdmin
  <1> HIDE DEF sent
  <1>4. Somewhere(sent) /\ Switch(sent) = Switch(p)
    BY <1>1, <1>2, PersonSomewhere DEF Switch
  <1>5. QED BY <1>2, <1>3, <1>4, TelegramMenuReplied

(* Nobody who gets this far is in a state of a role that is not theirs.    *)
LEMMA NobodyIsStale ==
    ASSUME NEW p, Fine(p), ~Telegram!Stale(p)
    PROVE  /\ p.role = "STATION_OWNER" => Continues(p, "station")
           /\ (p.role = "COURIER" /\ ~Telegram!In(p, "dispatcher")) => Continues(p, "courier")
           /\ (p.role = "SENDER" /\ ~Telegram!In(p, "dispatcher")) => Continues(p, "sender")
  <1>1. CASE p.here = <<"sender", "INITIAL">>
    BY <1>1 DEF Continues
  <1>2. CASE p.here # <<"sender", "INITIAL">>
    <2>1. p.here[1] \in Flows
      BY StatesOf DEF Fine, Person
    <2>2. \A flow : Telegram!In(p, flow) <=> p.here[1] = flow
      BY <1>2, TelegramDialogue DEF In
    <2>3. QED BY <2>1, <2>2 DEF Telegram!Stale, Continues, Flows
  <1>3. QED BY <1>1, <1>2

(* A station's owner, or somebody who was one.                             *)
LEMMA TelegramOwnerMessage ==
    ASSUME NEW p, Fine(p), Continues(p, "station"), NEW q \in Telegram!OwnerMessage(p)
    PROVE  Replied(p, q)
  <1>1. CASE p.owner
    <2>1. q \in Telegram!Handle(p, "station") /\ Entitled(p, "station")
      BY <1>1 DEF Telegram!OwnerMessage, Entitled
    <2>2. QED BY <2>1, TelegramHandled DEF Flows
  <1>2. CASE ~p.owner
    <2> DEFINE r == [p EXCEPT !.role = "SENDER"]
    <2>1. "SENDER" \in Roles
      BY DEF Roles
    <2>2. Somewhere(r) /\ r.role = "SENDER" /\ r.dispatcher = p.dispatcher /\ r.ctx = p.ctx
      BY <2>1, PersonSomewhere, SomewhereFields DEF Fine
    <2>3. q \in Telegram!RouteToRoleMenu(r)
      BY <1>2 DEF Telegram!OwnerMessage, Telegram!OwnerOrDowngraded
    <2> HIDE DEF r
    <2>4. QED BY <2>2, <2>3, TelegramMenuReplied DEF Switch
  <1>3. QED BY <1>1, <1>2

(* The way out of the dispatcher's menu.                                   *)
LEMMA TelegramLeaves ==
    ASSUME NEW p, Fine(p), NEW q \in Telegram!LeaveDispatcherFlow(p)
    PROVE  Replied(p, q)
  <1>1. CASE Telegram!Impersonating(p)
    BY <1>1, TelegramRestored DEF Telegram!LeaveDispatcherFlow
  <1>2. CASE ~Telegram!Impersonating(p)
    <2>1. Switch(p) = {} /\ Somewhere(p)
      BY <1>2, TelegramDialogue, PersonSomewhere DEF Fine, Clean
    <2>2. CASE p.role = "COURIER"
      <3>1. q \in HandleMenu(ForceState(p, <<"courier", "MENU">>), <<"courier", "MENU">>[1])
        BY <1>2, <2>2, TelegramDialogue DEF Telegram!LeaveDispatcherFlow
      <3>2. QED BY <2>1, <2>2, <3>1, TelegramOpened DEF Starts, Entitled
    <2>3. CASE p.role = "DRIVER"
      <3>1. q \in HandleMenu(ForceState(p, <<"driver", "INITIAL">>), <<"driver", "INITIAL">>[1])
        BY <1>2, <2>3, TelegramDialogue DEF Telegram!LeaveDispatcherFlow
      <3>2. QED BY <2>1, <2>3, <3>1, TelegramOpened DEF Starts, Entitled
    <2>4. CASE p.role \notin {"COURIER", "DRIVER"}
      <3>1. q \in HandleMenu(ForceState(p, <<"sender", "MENU">>), <<"sender", "MENU">>[1])
        BY <1>2, <2>4, TelegramDialogue DEF Telegram!LeaveDispatcherFlow, Telegram!SenderFallback
      <3>2. QED BY <2>1, <3>1, TelegramOpened DEF Starts, Entitled
    <2>5. QED BY <2>2, <2>3, <2>4
  <1>3. QED BY <1>1, <1>2

(* A dispatcher, or somebody who was one.                                  *)
LEMMA TelegramDispatcherMessage ==
    ASSUME NEW p, Fine(p), NEW text, NEW q \in Telegram!DispatcherMessage(p, text)
    PROVE  Replied(p, q)
  <1>1. CASE q \in Telegram!RouteToRoleMenu(p)
    BY <1>1, TelegramRoleMenu
  <1>2. CASE p.dispatcher # "none" /\ q \in Telegram!OpenDispatcherMenu(p)
    <2>1. q \in Restored(HandleMenu(ForceState(p, <<"dispatcher", "MENU">>), <<"dispatcher", "MENU">>[1]), Switch(p))
      BY <1>2, TelegramDialogue DEF Telegram!OpenDispatcherMenu
    <2>2. Somewhere(p) /\ Entitled(p, "dispatcher")
      BY <1>2, PersonSomewhere DEF Fine, Entitled
    <2>3. QED BY <2>1, <2>2, TelegramOpened DEF Starts
  <1>3. CASE q \in Telegram!LeaveDispatcherFlow(p)
    BY <1>3, TelegramLeaves
  <1>4. CASE p.dispatcher # "none" /\ Telegram!In(p, "dispatcher") /\ q \in Telegram!Handle(p, "dispatcher")
    <2>1. Continues(p, "dispatcher")
      BY <1>4, TelegramDialogue DEF In, Continues
    <2>2. QED BY <1>4, <2>1, TelegramHandled DEF Entitled, Flows
  <1>5. QED BY <1>1, <1>2, <1>3, <1>4 DEF Telegram!DispatcherMessage

(* A driver, in a state of the driver's flow or elsewhere.                 *)
LEMMA TelegramDriverMessage ==
    ASSUME NEW p, Fine(p), p.role = "DRIVER", NEW q \in Telegram!DriverMessage(p)
    PROVE  Replied(p, q)
  <1>1. Entitled(p, "driver")
    BY DEF Entitled
  <1>2. CASE Telegram!In(p, "driver") /\ q \in Telegram!Handle(p, "driver")
    <2>1. Continues(p, "driver")
      BY <1>2, TelegramDialogue DEF In, Continues
    <2>2. QED BY <1>1, <1>2, <2>1, TelegramHandled DEF Flows
  <1>3. CASE q \notin Telegram!Handle(p, "driver") \/ ~Telegram!In(p, "driver")
    <2>1. q \in Restored(HandleMenu(ForceState(p, <<"driver", "INITIAL">>), <<"driver", "INITIAL">>[1]), Switch(p))
      BY <1>3, TelegramDialogue DEF Telegram!DriverMessage
    <2>2. Somewhere(p)
      BY PersonSomewhere DEF Fine
    <2>3. QED BY <1>1, <2>1, <2>2, TelegramOpened DEF Starts
  <1>4. QED BY <1>2, <1>3

(* An administrator's menu, and the menu of the role switched to.          *)
LEMMA TelegramAdminMessage ==
    ASSUME NEW p, Fine(p), p.role = "ADMIN", NEW q \in Telegram!AdminMessage(p)
    PROVE  Replied(p, q)
  <1>1. Switch(p) = {} /\ p \in Person /\ p.here \in States /\ Somewhere(p)
    BY PersonSomewhere DEF Fine, Clean, Person
  <1>2. CASE switching
    <2> DEFINE from == IF Telegram!In(p, "admin") THEN p ELSE Telegram!ForceState(p, <<"admin", "MENU">>)
    <2>1. <<"admin", "MENU">> \in States
      BY StartsAreStates DEF Starts
    <2>2. /\ from \in Person /\ from.role = "ADMIN" /\ from.here[1] = "admin" /\ Switch(from) = {}
          /\ from.dispatcher = p.dispatcher /\ from.approval = p.approval
      <3>1. CASE Telegram!In(p, "admin")
        BY <1>1, <3>1, TelegramDialogue DEF In
      <3>2. CASE ~Telegram!In(p, "admin")
        <4>1. from = ForceState(p, <<"admin", "MENU">>)
          BY <3>2, TelegramDialogue
        <4> HIDE DEF from
        <4>2. QED BY <1>1, <2>1, <4>1, ForcedState DEF Switch
      <3>3. QED BY <3>1, <3>2
    <2>3. p.here[1] = "admin" \/ from.ctx = {}
      <3>1. CASE Telegram!In(p, "admin")
        BY <3>1, TelegramDialogue DEF In
      <3>2. CASE ~Telegram!In(p, "admin")
        <4>1. from = ForceState(p, <<"admin", "MENU">>)
          BY <3>2, TelegramDialogue
        <4> HIDE DEF from
        <4>2. QED BY <1>1, <2>1, <4>1, ForcedState
      <3>3. QED BY <3>1, <3>2
    <2>4. PICK a \in HandleAdmin(from) :
             q \in IF a.here[1] = "switch" THEN Telegram!RouteToRoleMenu(a) ELSE {a}
      BY <1>2, TelegramDialogue DEF Telegram!AdminMessage
    <2> HIDE DEF from
    <2>5. CASE a.here[1] # "switch"
      <3>1. InMenu(from, q, "admin", from.ctx)
        BY <2>2, <2>4, <2>5, HandleAdminAnswers
      <3>2. Entitled(from, "admin") /\ from.ctx \cap Admin!AdminKeys = Switch(p)
        BY <1>1, <2>2 DEF Entitled, Switch
      <3>3. q.here[1] = "admin" /\ (from.ctx = {} => Blank(q))
        BY <3>1 DEF InMenu, Blank
      <3>4. Follows(p, q)
        BY <2>2, <3>3, <2>3 DEF Follows, Continues
      <3>5. QED BY <1>1, <2>2, <3>1, <3>2, <3>4, MenuIsReplied DEF Replied
    <2>6. CASE a.here[1] = "switch"
      <3>1. Somewhere(a) /\ Switches(from, a)
        BY <2>2, <2>4, <2>6, HandleAdminAnswers
      <3>2. Routed(a, q)
        BY <2>4, <2>6, <3>1, TelegramRoutes
      <3>3. Switches(p, a)
        BY <2>2, <3>1 DEF Switches
      <3>4. QED BY <1>1, <3>2, <3>3, SwitchedIsReplied DEF Replied, Follows
    <2>7. QED BY <2>5, <2>6
  <1>3. CASE ~switching /\ Telegram!In(p, "sender")
    <2>1. q \in Telegram!Handle(p, "sender")
      BY <1>3 DEF Telegram!AdminMessage
    <2>2. Continues(p, "sender")
      BY <1>3, TelegramDialogue DEF In, Continues
    <2>3. QED BY <2>1, <2>2, TelegramHandled DEF Flows, Entitled
  <1>4. CASE ~switching /\ ~Telegram!In(p, "sender")
    <2>1. q \in HandleMenu(ForceState(p, <<"sender", "MENU">>), <<"sender", "MENU">>[1])
      BY <1>4, TelegramDialogue DEF Telegram!AdminMessage, Telegram!SenderFallback
    <2>2. QED BY <1>1, <2>1, TelegramOpened DEF Starts, Entitled
  <1>5. QED BY <1>2, <1>3, <1>4

(* The rest of a message, by the role and the state of the person.         *)
LEMMA TelegramMessageByRole ==
    ASSUME NEW p, Fine(p), ~Telegram!Stale(p), NEW text, NEW q \in Telegram!MessageByRole(p, text)
    PROVE  Replied(p, q)
  <1>1. p.role \in Roles
    BY DEF Fine, Person
  <1>2. CASE p.role = "STATION_OWNER"
    <2>1. q \in Telegram!OwnerMessage(p)
      BY <1>2 DEF Telegram!MessageByRole
    <2>2. QED BY <1>2, <2>1, NobodyIsStale, TelegramOwnerMessage
  <1>3. CASE p.role # "STATION_OWNER" /\ (Telegram!In(p, "dispatcher") \/ text = "dispatcher menu")
    <2>1. q \in Telegram!DispatcherMessage(p, text)
      BY <1>3 DEF Telegram!MessageByRole
    <2>2. QED BY <2>1, TelegramDispatcherMessage
  <1>4. CASE p.role # "STATION_OWNER" /\ ~(Telegram!In(p, "dispatcher") \/ text = "dispatcher menu")
    <2>1. CASE p.role = "COURIER"
      <3>1. q \in Telegram!Handle(p, "courier") /\ Entitled(p, "courier")
        BY <1>4, <2>1 DEF Telegram!MessageByRole, Entitled
      <3>2. Continues(p, "courier")
        BY <1>4, <2>1, NobodyIsStale
      <3>3. QED BY <3>1, <3>2, TelegramHandled DEF Flows
    <2>2. CASE p.role = "DRIVER"
      <3>1. q \in Telegram!DriverMessage(p)
        BY <1>4, <2>2 DEF Telegram!MessageByRole
      <3>2. QED BY <2>2, <3>1, TelegramDriverMessage
    <2>3. CASE p.role = "ADMIN"
      <3>1. q \in Telegram!AdminMessage(p)
        BY <1>4, <2>3 DEF Telegram!MessageByRole
      <3>2. QED BY <2>3, <3>1, TelegramAdminMessage
    <2>4. CASE p.role = "SENDER"
      <3>1. q \in Telegram!Handle(p, "sender") \/ q \in Telegram!Keep(p)
        BY <1>4, <2>4 DEF Telegram!MessageByRole, Telegram!SenderMessage
      <3>2. Entitled(p, "sender") /\ Continues(p, "sender")
        BY <1>4, <2>4, NobodyIsStale DEF Entitled
      <3>3. QED BY <3>1, <3>2, TelegramHandled, TelegramSilent DEF Flows
    <2>5. QED BY <1>1, <1>4, <2>1, <2>2, <2>3, <2>4 DEF Roles
  <1>5. QED BY <1>2, <1>3, <1>4

(* telegram_webhook: every message, whoever writes and whatever it says.   *)
LEMMA TelegramReplies ==
    ASSUME NEW p, Fine(p), NEW text, NEW q \in Telegram!Answered(p, text)
    PROVE  Replied(p, q)
  <1>1. CASE q \in Telegram!Start(p)
    BY <1>1, TelegramStart
  <1>2. CASE q \in Telegram!Home(p)
    BY <1>2, TelegramHome
  <1>3. CASE q \in Telegram!RouteToRoleMenu(p)
    BY <1>3, TelegramRoleMenu
  <1>4. CASE q \in Telegram!RestoreAdminRole(p)
    BY <1>4, TelegramRestored
  <1>5. CASE Telegram!PressesSenderButton(p, text) /\ q \in Telegram!SenderButton(p, text)
    BY <1>5, TelegramSenderButton
  <1>6. CASE q = Telegram!Put(p, "contact_admin_pending")
    BY <1>6, TelegramSilent
  <1>7. CASE q \in Telegram!ContactAdmin(p, text)
    BY <1>7, TelegramContactAdmin
  <1>8. CASE ~Telegram!Stale(p) /\ q \in Telegram!MessageByRole(p, text)
    BY <1>8, TelegramMessageByRole
  <1>9. QED BY <1>1, <1>2, <1>3, <1>4, <1>5, <1>6, <1>7, <1>8 DEF Telegram!Answered

-----------------------------------------------------------------------------
(* WhatsApp *)

(* The dialogue is the same in the webhook as in this module. *)
LEMMA WhatsAppDialogue ==
    /\ \A p, s : WhatsApp!ForceState(p, s) = ForceState(p, s)
    /\ \A p, key : WhatsApp!Put(p, key) = Put(p, key)
    /\ \A p : WhatsApp!Keep(p) = Keep(p)
    /\ \A p : WhatsApp!Impersonating(p) = Impersonating(p)
    /\ \A p : WhatsApp!Saved(p) = Switch(p)
    /\ \A p : WhatsApp!SavedIfAdmin(p) = IF Impersonating(p) THEN Switch(p) ELSE {}
    /\ \A persons, keys : WhatsApp!Restored(persons, keys) = Restored(persons, keys)
    /\ \A p : WhatsApp!AdminAgain(p) = AdminAgain(p)
    /\ \A p, flow : WhatsApp!Handle(p, flow) = Handle(p, flow)
    /\ \A p : WhatsApp!HandleAdmin(p) = HandleAdmin(p)
    /\ \A p, flow : WhatsApp!HandleMenu(p, flow) = HandleMenu(p, flow)
    /\ \A p : WhatsApp!RestoreAdminRole(p) = RestoreAdminRole(p)
    /\ \A p, flow : WhatsApp!In(p, flow) = In(p, flow)
    /\ \A p : WhatsApp!DispatcherMenuFirst(p) => p.dispatcher # "none"
  <1>1. \A p, s : WhatsApp!ForceState(p, s) = ForceState(p, s)
    BY DEF WhatsApp!ForceState, ForceState, WhatsApp!Silent, Silent
  <1>2. \A p, key : WhatsApp!Put(p, key) = Put(p, key)
    BY DEF WhatsApp!Put, Put, WhatsApp!Silent, Silent
  <1>3. \A p : WhatsApp!Keep(p) = Keep(p)
    BY DEF WhatsApp!Keep, Keep, WhatsApp!Silent, Silent
  <1>4. \A p : WhatsApp!Impersonating(p) = Impersonating(p)
    BY DEF WhatsApp!Impersonating, Impersonating
  <1>5. \A p : WhatsApp!Saved(p) = Switch(p)
    BY DEF WhatsApp!Saved, WhatsApp!Admin!AdminKeys, Admin!AdminKeys,
       WhatsApp!Admin!ApprovalKey, Admin!ApprovalKey, Switch
  <1>6. \A p : WhatsApp!SavedIfAdmin(p) = IF Impersonating(p) THEN Switch(p) ELSE {}
    BY <1>4, <1>5 DEF WhatsApp!SavedIfAdmin
  <1>7. \A persons, keys : WhatsApp!Restored(persons, keys) = Restored(persons, keys)
    BY DEF WhatsApp!Restored, Restored
  <1>8. \A p : WhatsApp!AdminAgain(p) = AdminAgain(p)
    BY DEF WhatsApp!AdminAgain, AdminAgain, WhatsApp!Admin!OriginalApproval,
       Admin!OriginalApproval
  <1>9. \A p, flow : WhatsApp!Handle(p, flow) = Handle(p, flow)
    BY DEF WhatsApp!Handle, Handle, WhatsApp!Effects, Effects, WhatsApp!NoLongerOwner,
       NoLongerOwner
  <1>10. \A p : WhatsApp!HandleAdmin(p) = HandleAdmin(p)
    BY DEF WhatsApp!HandleAdmin, HandleAdmin, WhatsApp!Admin!HandleMessage, Admin!HandleMessage,
       WhatsApp!Admin!SelectRole, Admin!SelectRole, WhatsApp!Admin!Menu, Admin!Menu,
       WhatsApp!Admin!SwitchToRole, Admin!SwitchToRole, WhatsApp!Admin!SwitchRoles,
       Admin!SwitchRoles, WhatsApp!Admin!AdminKeys, Admin!AdminKeys, WhatsApp!Admin!ApprovalKey,
       Admin!ApprovalKey, WhatsApp!Admin!RoleOf, Admin!RoleOf, WhatsApp!Admin!WithDispatcher,
       Admin!WithDispatcher, WhatsApp!Admin!WithoutLentDispatcher, Admin!WithoutLentDispatcher
  <1>11. \A p, flow : WhatsApp!HandleMenu(p, flow) = HandleMenu(p, flow)
    BY <1>10 DEF WhatsApp!HandleMenu, HandleMenu
  <1>12. \A p : WhatsApp!RestoreAdminRole(p) = RestoreAdminRole(p)
    BY <1>1, <1>8, <1>11 DEF WhatsApp!RestoreAdminRole, RestoreAdminRole,
       WhatsApp!Admin!WithoutLentDispatcher, Admin!WithoutLentDispatcher
  <1>13. \A p, flow : WhatsApp!In(p, flow) = In(p, flow)
    BY DEF WhatsApp!In, In
  <1>14. \A p : WhatsApp!DispatcherMenuFirst(p) => p.dispatcher # "none"
    BY DEF WhatsApp!DispatcherMenuFirst
  <1>15. QED BY <1>1, <1>2, <1>3, <1>4, <1>5, <1>6, <1>7, <1>8, <1>9, <1>10, <1>11, <1>12, <1>13,
       <1>14

(* _resolve_role_state_wa: a menu the person is entitled to.               *)
LEMMA WhatsAppResolves ==
    ASSUME NEW p, Somewhere(p)
    PROVE  \E r, s : WhatsApp!ResolveRoleState(p) = ForceState(r, s) /\ Resolved(p, r, s)
  <1> DEFINE Is(r, s) == WhatsApp!ResolveRoleState(p) = ForceState(r, s) /\ Resolved(p, r, s)
             first == WhatsApp!DispatcherMenuFirst(p)
  <1>1. p.role \in Roles /\ p.owner \in BOOLEAN
    BY SomewhereFields
  <1>2. CASE p.role = "COURIER"
    <2>1. Is(p, <<"courier", "MENU">>)
      BY <1>2, WhatsAppDialogue DEF WhatsApp!ResolveRoleState, Resolved, Starts, Entitled
    <2> HIDE DEF Is
    <2>2. QED BY <2>1 DEF Is
  <1>3. CASE p.role = "STATION_OWNER" /\ p.owner
    <2>1. Is(p, <<"station", "MENU">>)
      BY <1>3, WhatsAppDialogue DEF WhatsApp!ResolveRoleState, Resolved, Starts, Entitled
    <2>2. QED BY <2>1
  <1>4. CASE p.role = "STATION_OWNER" /\ ~p.owner
    <2> DEFINE r == [p EXCEPT !.role = "SENDER"]
    <2>1. "SENDER" \in Roles
      BY DEF Roles
    <2>2. /\ Somewhere(r) /\ r.role = "SENDER" /\ r.approval = p.approval
          /\ r.dispatcher = p.dispatcher
      BY <2>1, SomewhereFields
    <2>3. WhatsApp!ResolveRoleState(p) = ForceState(r, <<"sender", "MENU">>)
      BY <1>4, WhatsAppDialogue DEF WhatsApp!ResolveRoleState
    <2> HIDE DEF r
    <2>4. Is(r, <<"sender", "MENU">>)
      BY <2>2, <2>3 DEF Resolved, Starts, Entitled
    <2>5. QED BY <2>4
  <1>5. CASE p.role = "ADMIN"
    <2>1. CASE switching
      <3>1. Is(p, <<"admin", "MENU">>)
        BY <1>5, <2>1, WhatsAppDialogue DEF WhatsApp!ResolveRoleState, Resolved, Starts, Entitled
      <3>2. QED BY <3>1
    <2>2. CASE ~switching
      <3>1. Is(p, <<"sender", "MENU">>)
        BY <1>5, <2>2, WhatsAppDialogue DEF WhatsApp!ResolveRoleState, Resolved, Starts, Entitled
      <3>2. QED BY <3>1
    <2>3. QED BY <2>1, <2>2
  <1>6. CASE p.role \in {"SENDER", "DRIVER"} /\ first
    <2>1. Is(p, <<"dispatcher", "MENU">>)
      BY <1>6, WhatsAppDialogue DEF WhatsApp!ResolveRoleState, Resolved, Starts, Entitled
    <2>2. QED BY <2>1
  <1>7. CASE p.role = "DRIVER" /\ ~first
    <2>1. Is(p, <<"driver", "INITIAL">>)
      BY <1>7, WhatsAppDialogue DEF WhatsApp!ResolveRoleState, Resolved, Starts, Entitled
    <2>2. QED BY <2>1
  <1>8. CASE p.role = "SENDER" /\ ~first
    <2>1. Is(p, <<"sender", "MENU">>)
      BY <1>8, WhatsAppDialogue DEF WhatsApp!ResolveRoleState, Resolved, Starts, Entitled
    <2>2. QED BY <2>1
  <1>9. QED BY <1>1, <1>2, <1>3, <1>4, <1>5, <1>6, <1>7, <1>8 DEF Roles

(* _route_to_role_menu_wa and _reset_role_state_wa.                        *)
LEMMA WhatsAppRoutes ==
    ASSUME NEW p, Somewhere(p),
           NEW q \in WhatsApp!RouteToRoleMenu(p) \cup WhatsApp!ResetRoleState(p)
    PROVE  Routed(p, q)
  <1>1. PICK r, s : WhatsApp!ResolveRoleState(p) = ForceState(r, s) /\ Resolved(p, r, s)
    BY WhatsAppResolves
  <1> DEFINE keys == IF Impersonating(p) THEN Switch(p) ELSE {}
  <1>2. s \in States
    BY <1>1, StartsAreStates DEF Resolved
  <1>3. ForceState(r, s).here = s
    BY <1>1, <1>2, ForcedState DEF Resolved
  <1>4. WhatsApp!RouteToRoleMenu(p) = Restored(HandleMenu(ForceState(r, s), s[1]), keys)
    BY <1>1, <1>3, WhatsAppDialogue DEF WhatsApp!RouteToRoleMenu, WhatsApp!RoleMenu
  <1>5. WhatsApp!ResetRoleState(p) = Restored({ForceState(r, s)}, keys)
    BY <1>1, WhatsAppDialogue DEF WhatsApp!ResetRoleState
  <1>6. CASE q \in WhatsApp!RouteToRoleMenu(p)
    <2>1. q \in Restored(HandleMenu(ForceState(r, s), s[1]), keys)
      BY <1>4, <1>6
    <2>2. QED BY <1>1, <2>1, ResolvedIsRouted
  <1>7. CASE q \in WhatsApp!ResetRoleState(p)
    <2>1. q \in Restored({ForceState(r, s)}, keys)
      BY <1>5, <1>7
    <2>2. QED BY <1>1, <2>1, ResolvedIsReset
  <1>8. QED BY <1>6, <1>7

(* The branches of the webhook, as on Telegram. The menu of the role: of   *)
(* the person as it is, or without the message to management.              *)
LEMMA WhatsAppMenuReplied ==
    ASSUME NEW p, Fine(p), NEW r, Somewhere(r), Switch(r) = Switch(p),
           r.role = p.role \/ r.role = "SENDER", r.dispatcher = p.dispatcher,
           NEW q \in WhatsApp!RouteToRoleMenu(r) \cup WhatsApp!ResetRoleState(r)
    PROVE  RepliedOnWhatsApp(p, q)
  <1>1. p.here \in States /\ Clean(p)
    BY DEF Fine, Person
  <1>2. Routed(r, q)
    BY WhatsAppRoutes
  <1>3. QED BY <1>1, <1>2, RoutedIsReplied DEF RepliedOnWhatsApp

(* The menu of the role of the person as it is.                            *)
LEMMA WhatsAppRoleMenu ==
    ASSUME NEW p, Fine(p), NEW q \in WhatsApp!RouteToRoleMenu(p)
    PROVE  RepliedOnWhatsApp(p, q)
  <1>1. Somewhere(p)
    BY PersonSomewhere DEF Fine
  <1>2. QED BY <1>1, WhatsAppMenuReplied

(* What leaves the dispatcher's menu for an administrator's:               *)
(* restore_admin_role_and_route, here too.                                 *)
LEMMA WhatsAppRestored ==
    ASSUME NEW p, Fine(p), NEW q \in WhatsApp!RestoreAdminRole(p)
    PROVE  RepliedOnWhatsApp(p, q)
  <1>1. p \in Person /\ p.here \in States
    BY DEF Fine, Person
  <1>2. q \in RestoreAdminRole(p)
    BY WhatsAppDialogue
  <1>3. QED BY <1>1, <1>2, RestoreReturns DEF RepliedOnWhatsApp, ReturnsStation

(* A handler of the person's own role, or station.                         *)
LEMMA WhatsAppHandled ==
    ASSUME NEW p, Fine(p), NEW flow \in Flows \ {"admin"}, Entitled(p, flow),
           flow \in {"dispatcher", "driver"} => WhatsApp!In(p, flow),
           NEW q \in WhatsApp!Handle(p, flow)
    PROVE  RepliedOnWhatsApp(p, q)
  <1>1. flow \in {"dispatcher", "driver"} => p.here[1] = flow
    BY WhatsAppDialogue DEF In
  <1>2. q \in Handle(p, flow)
    BY WhatsAppDialogue
  <1>3. QED BY <1>1, <1>2, HandleIsReplied DEF Fine, RepliedOnWhatsApp

(* A menu that the person's role opens, with what is left of a switch put  *)
(* back.                                                                   *)
LEMMA WhatsAppReopened ==
    ASSUME NEW p, Fine(p), NEW r, Somewhere(r), NEW s \in Starts, Entitled(r, s[1]),
           r.role = "ADMIN" => p.role = "ADMIN", r.dispatcher = p.dispatcher,
           NEW q \in Restored(HandleMenu(ForceState(r, s), s[1]), Switch(p))
    PROVE  RepliedOnWhatsApp(p, q)
  <1>1. p \in Person
    BY DEF Fine
  <1>2. /\ Switch(p) \in SUBSET Keys /\ Switch(p) \cap Admin!AdminKeys = Switch(p)
        /\ Switch(p) \cap FlowKeys = {}
    BY SwitchKeys, FlowKeysApart DEF Switch
  <1>3. InMenu(r, q, s[1], Switch(p))
    BY <1>2, RestoredMenu
  <1>4. QED BY <1>1, <1>2, <1>3, MenuIsReplied DEF RepliedOnWhatsApp

(* A menu that is shown with keys of the webhook alone: a switch is        *)
(* forgotten.                                                              *)
LEMMA MenuIsForgotten ==
    ASSUME NEW p, Fine(p), NEW f \in Person, f.here \in Starts, Entitled(f, f.here[1]),
           Switch(f) = {}, Blank(f),
           f.role = "ADMIN" => p.role = "ADMIN", f.dispatcher = p.dispatcher,
           NEW q \in HandleMenu(f, f.here[1])
    PROVE  RepliedOnWhatsApp(p, q)
  <1>1. p.here \in States
    BY DEF Fine, Person
  <1>2. InMenu(f, q, f.here[1], f.ctx)
    BY HandleMenuShows DEF Shown, InMenu
  <1>3. Served(p, q)
    BY <1>1, <1>2, MenuServes DEF Blank
  <1>4. Forgets(p, q)
    BY <1>2 DEF InMenu, Forgets, Stays, Switch
  <1>5. QED BY <1>3, <1>4 DEF RepliedOnWhatsApp

(* So it is where the state was just forced.                               *)
LEMMA WhatsAppOpened ==
    ASSUME NEW p, Fine(p), NEW r, Somewhere(r), NEW s \in Starts, Entitled(r, s[1]),
           r.role = "ADMIN" => p.role = "ADMIN", r.dispatcher = p.dispatcher,
           NEW q \in HandleMenu(ForceState(r, s), s[1])
    PROVE  RepliedOnWhatsApp(p, q)
  <1> DEFINE f == ForceState(r, s)
  <1>1. s \in States
    BY StartsAreStates
  <1>2. /\ f \in Person /\ f.here = s /\ f.ctx = {} /\ f.role = r.role
        /\ f.dispatcher = r.dispatcher
        /\ f.owner = r.owner
    BY <1>1, ForcedState
  <1>3. q \in HandleMenu(f, f.here[1])
    BY <1>2
  <1> HIDE DEF f
  <1>4. Entitled(f, f.here[1]) /\ Switch(f) = {} /\ Blank(f)
    BY <1>2 DEF Entitled, Switch, Blank
  <1>5. QED BY <1>2, <1>3, <1>4, MenuIsForgotten

(* A state that is set without showing its menu: a switch is forgotten.    *)
LEMMA StartIsForgotten ==
    ASSUME NEW p, Fine(p), NEW q \in Person, q.here \in Starts, q.heard = Silent, Switch(q) = {},
           Blank(q),
           q.role = "ADMIN" => p.role = "ADMIN", q.dispatcher = p.dispatcher
    PROVE  RepliedOnWhatsApp(p, q)
  BY StartServes DEF RepliedOnWhatsApp, Forgets, Stays

(* "#" of a listed administrator, and of everybody else.                   *)
LEMMA WhatsAppHome ==
    ASSUME NEW p, Fine(p), NEW q \in WhatsApp!Home(p)
    PROVE  RepliedOnWhatsApp(p, q)
  <1> DEFINE s == <<"sender", "MENU">>
  <1>1. s \in Starts /\ s \in States /\ "SENDER" \in Roles /\ p.role \in Roles /\ Somewhere(p)
    BY StartsAreStates, PersonSomewhere DEF Starts, Roles, Fine, Person
  <1>2. /\ "admin_root_menu" \in Keys /\ "admin_root_menu" \notin Admin!AdminKeys
        /\ "admin_root_menu" \notin FlowKeys
    BY FlowKeysApart DEF Keys, Admin!AdminKeys, Admin!ApprovalKey
  <1>3. CASE q \in WhatsApp!RouteToRoleMenu(p)
    BY <1>3, WhatsAppRoleMenu
  <1>4. CASE q = WhatsApp!ForceState([p EXCEPT !.role = "SENDER"], s)
    <2> DEFINE r == [p EXCEPT !.role = "SENDER"]
    <2>1. Somewhere(r) /\ r.role = "SENDER" /\ r.dispatcher = p.dispatcher
      BY <1>1, SomewhereFields
    <2>2. q = ForceState(r, s)
      BY <1>4, WhatsAppDialogue
    <2> HIDE DEF r, s
    <2>3. /\ q \in Person /\ q.here = s /\ q.ctx = {} /\ q.heard = Silent
          /\ q.role = "SENDER" /\ q.dispatcher = p.dispatcher
      BY <1>1, <2>1, <2>2, ForcedState
    <2>4. QED BY <1>1, <2>3, StartIsForgotten DEF Switch, Blank
  <1>5. CASE q \in WhatsApp!AdminHome(p)
    <2> DEFINE role == IF p.role = "COURIER" THEN "SENDER" ELSE p.role
               r == [p EXCEPT !.role = role]
               f == ForceState(r, s)
    <2>1. role \in Roles /\ (role = "ADMIN" => p.role = "ADMIN")
      BY <1>1
    <2>2. Somewhere(r) /\ r.role = role /\ r.dispatcher = p.dispatcher
      BY <1>1, <2>1, SomewhereFields
    <2>3. r = [p EXCEPT !.role = IF @ = "COURIER" THEN "SENDER" ELSE @]
      BY DEF Fine, Person
    <2>4. q = Put(f, "admin_root_menu")
      BY <1>5, <2>3, WhatsAppDialogue DEF WhatsApp!AdminHome
    <2> HIDE DEF r, s
    <2>5. /\ f \in Person /\ f.here = s /\ f.ctx = {} /\ f.heard = Silent
          /\ f.role = role /\ f.dispatcher = p.dispatcher
      BY <1>1, <2>2, ForcedState
    <2> HIDE DEF f
    <2>6. q = [f EXCEPT !.ctx = {"admin_root_menu"}, !.heard = Silent]
      BY <2>4, <2>5 DEF Put
    <2>7. /\ q \in Person /\ q.here = s /\ q.ctx = {"admin_root_menu"} /\ q.heard = Silent
          /\ q.role = role /\ q.dispatcher = p.dispatcher
      BY <1>2, <2>5, <2>6 DEF Person
    <2>8. Switch(q) = {} /\ Blank(q)
      BY <1>2, <2>7 DEF Switch, Blank
    <2>9. QED BY <1>1, <2>1, <2>7, <2>8, StartIsForgotten
  <1>6. QED BY <1>3, <1>4, <1>5 DEF WhatsApp!Home

(* The way back from a role: the administrator's approval is restored, the *)
(* association with a station is not.                                      *)
LEMMA WhatsAppReturns ==
    ASSUME NEW p, Fine(p), NEW q \in WhatsApp!ReturnToAdmin(p)
    PROVE  RepliedOnWhatsApp(p, q)
  <1> DEFINE r == AdminAgain(p)
  <1>1. p \in Person /\ p.here \in States
    BY DEF Fine, Person
  <1>2. /\ r \in Person /\ r.role = "ADMIN" /\ r.approval = Admin!OriginalApproval(p.ctx)
        /\ r.dispatcher = p.dispatcher
    BY <1>1, OriginalApprovals DEF AdminAgain, Person, Roles
  <1>3. q \in HandleMenu(ForceState(r, <<"admin", "MENU">>), <<"admin", "MENU">>[1])
    BY WhatsAppDialogue DEF WhatsApp!ReturnToAdmin
  <1> HIDE DEF r
  <1>4. InMenu(r, q, "admin", {})
    BY <1>2, <1>3, PersonSomewhere, ForcedMenu DEF Starts
  <1>5. Served(p, q)
    BY <1>1, <1>2, <1>4, MenuServes DEF Entitled
  <1>6. Returns(p, q)
    BY <1>2, <1>4 DEF InMenu, Returns, Switch
  <1>7. QED BY <1>5, <1>6 DEF RepliedOnWhatsApp

(* Joining from the menu, with or without the mark of an administrator.    *)
LEMMA WhatsAppJoins ==
    ASSUME NEW p, Fine(p), NEW role, NEW flow,
           <<role, flow>> \in {<<"COURIER", "courier">>, <<"DRIVER", "driver">>},
           NEW q \in WhatsApp!Join(p, role, flow) \cup WhatsApp!JoinFromMenu(p, role, flow)
    PROVE  RepliedOnWhatsApp(p, q)
  <1> DEFINE r == [p EXCEPT !.role = role]
             s == <<flow, "INITIAL">>
             f == ForceState(r, s)
             m == Put(f, "entered_as_admin")
  <1>1. role \in Roles /\ s \in Starts /\ s \in States /\ s[1] = flow
    BY StartsAreStates DEF Starts, Roles
  <1>2. Somewhere(r) /\ r.role = role /\ r.dispatcher = p.dispatcher
    BY <1>1, PersonSomewhere, SomewhereFields DEF Fine
  <1>3. q \in HandleMenu(f, flow) \/ q \in HandleMenu(m, flow)
    BY WhatsAppDialogue DEF WhatsApp!Join, WhatsApp!JoinFromMenu
  <1> HIDE DEF r, s
  <1>4. Entitled(r, s[1]) /\ r.role # "ADMIN"
    BY <1>1, <1>2 DEF Entitled
  <1>5. CASE q \in HandleMenu(f, flow)
    BY <1>1, <1>2, <1>4, <1>5, WhatsAppOpened
  <1>6. CASE q \in HandleMenu(m, flow)
    <2>1. /\ "entered_as_admin" \in Keys /\ "entered_as_admin" \notin Admin!AdminKeys
          /\ "entered_as_admin" \notin FlowKeys
      BY FlowKeysApart DEF Keys, Admin!AdminKeys, Admin!ApprovalKey
    <2>2. /\ f \in Person /\ f.here = s /\ f.ctx = {} /\ f.heard = Silent
          /\ f.role = role /\ f.dispatcher = p.dispatcher
      BY <1>1, <1>2, ForcedState
    <2> HIDE DEF f
    <2>3. m = [f EXCEPT !.ctx = {"entered_as_admin"}, !.heard = Silent]
      BY <2>2 DEF Put
    <2> HIDE DEF m
    <2>4. /\ m \in Person /\ m.here = s /\ m.ctx = {"entered_as_admin"}
          /\ m.role = role /\ m.dispatcher = p.dispatcher
      BY <2>1, <2>2, <2>3 DEF Person, Silent
    <2>5. Switch(m) = {} /\ Blank(m) /\ Entitled(m, m.here[1]) /\ m.role # "ADMIN"
      BY <1>1, <2>1, <2>4 DEF Switch, Blank, Entitled
    <2>6. QED BY <1>1, <1>6, <2>4, <2>5, MenuIsForgotten
  <1>7. QED BY <1>3, <1>5, <1>6

(* Somebody is only answered, or asked for a message to management.        *)
LEMMA WhatsAppSilent ==
    ASSUME NEW p, Fine(p), NEW q \in WhatsApp!Keep(p) \cup {WhatsApp!Put(p,
           "contact_admin_pending")}
    PROVE  RepliedOnWhatsApp(p, q)
  <1>1. /\ p.ctx \in SUBSET Keys /\ "contact_admin_pending" \in Keys
        /\ "contact_admin_pending" \notin Admin!AdminKeys /\ "contact_admin_pending" \notin FlowKeys
    BY FlowKeysApart DEF Fine, Person, Keys, Admin!AdminKeys, Admin!ApprovalKey
  <1>2. CASE q \in WhatsApp!Keep(p)
    <2>1. q = [p EXCEPT !.ctx = p.ctx, !.heard = Silent]
      BY <1>2, WhatsAppDialogue DEF Keep, Fine, Person
    <2>2. QED BY <1>1, <2>1, SilenceIsReplied DEF RepliedOnWhatsApp, Fine
  <1>3. CASE q = WhatsApp!Put(p, "contact_admin_pending")
    <2> DEFINE keys == p.ctx \cup {"contact_admin_pending"}
    <2>1. q = [p EXCEPT !.ctx = keys, !.heard = Silent]
      BY <1>3, WhatsAppDialogue DEF Put
    <2>2. /\ keys \in SUBSET Keys /\ p.ctx \subseteq keys
          /\ keys \cap Admin!AdminKeys = p.ctx \cap Admin!AdminKeys
          /\ keys \cap FlowKeys = p.ctx \cap FlowKeys
      BY <1>1
    <2>3. QED BY <2>1, <2>2, SilenceIsReplied DEF RepliedOnWhatsApp, Fine
  <1>4. QED BY <1>2, <1>3

(* The message to management, or the way back instead of it.               *)
LEMMA WhatsAppContactAdmin ==
    ASSUME NEW p, Fine(p), NEW text, NEW q \in WhatsApp!ContactAdmin(p, text)
    PROVE  RepliedOnWhatsApp(p, q)
  <1> DEFINE sent == [p EXCEPT !.ctx = @ \ {"contact_admin_pending"}]
  <1>1. "contact_admin_pending" \notin Admin!AdminKeys
    BY DEF Admin!AdminKeys, Admin!ApprovalKey
  <1>2. /\ sent \in Person /\ sent.role = p.role /\ sent.dispatcher = p.dispatcher
        /\ sent.ctx = p.ctx \ {"contact_admin_pending"}
    BY DEF Fine, Person
  <1>3. q \in WhatsApp!RouteToRoleMenu(sent) \cup WhatsApp!ResetRoleState(sent)
    BY DEF WhatsApp!ContactAdmin
  <1> HIDE DEF sent
  <1>4. Somewhere(sent) /\ Switch(sent) = Switch(p)
    BY <1>1, <1>2, PersonSomewhere DEF Switch
  <1>5. QED BY <1>2, <1>3, <1>4, WhatsAppMenuReplied

(* A station's owner, or somebody who was one or is in an owner's state.   *)
LEMMA WhatsAppOwnerMessage ==
    ASSUME NEW p, Fine(p), NEW q \in WhatsApp!OwnerMessage(p)
    PROVE  RepliedOnWhatsApp(p, q)
  <1>1. CASE p.owner
    <2>1. q \in WhatsApp!Handle(p, "station") /\ Entitled(p, "station")
      BY <1>1 DEF WhatsApp!OwnerMessage, Entitled
    <2>2. QED BY <2>1, WhatsAppHandled DEF Flows
  <1>2. CASE ~p.owner
    BY <1>2, WhatsAppRoleMenu DEF WhatsApp!OwnerMessage
  <1>3. QED BY <1>1, <1>2

(* The ways out of the dispatcher's menu, one for each webhook.            *)
LEMMA WhatsAppLeaves ==
    ASSUME NEW p, Fine(p),
           NEW q \in WhatsApp!LeaveDispatcherFlow(p) \cup WhatsApp!LeaveDispatcherMenu(p)
    PROVE  RepliedOnWhatsApp(p, q)
  <1>1. Somewhere(p)
    BY PersonSomewhere DEF Fine
  <1>2. CASE q \in WhatsApp!RestoreAdminRole(p)
    BY <1>2, WhatsAppRestored
  <1>3. CASE p.role = "COURIER" /\ q \in WhatsApp!HandleMenu(WhatsApp!ForceState(p, <<"courier", "MENU">>), "courier")
    <2>1. q \in HandleMenu(ForceState(p, <<"courier", "MENU">>), <<"courier", "MENU">>[1])
      BY <1>3, WhatsAppDialogue
    <2>2. QED BY <1>1, <1>3, <2>1, WhatsAppOpened DEF Starts, Entitled
  <1>4. CASE p.role = "DRIVER" /\ q \in WhatsApp!HandleMenu(WhatsApp!ForceState(p, <<"driver", "INITIAL">>), "driver")
    <2>1. q \in HandleMenu(ForceState(p, <<"driver", "INITIAL">>), <<"driver", "INITIAL">>[1])
      BY <1>4, WhatsAppDialogue
    <2>2. QED BY <1>1, <1>4, <2>1, WhatsAppOpened DEF Starts, Entitled
  <1>5. CASE q \in WhatsApp!SenderFallback(p)
    <2>1. q \in HandleMenu(ForceState(p, <<"sender", "MENU">>), <<"sender", "MENU">>[1])
      BY <1>5, WhatsAppDialogue DEF WhatsApp!SenderFallback
    <2>2. QED BY <1>1, <2>1, WhatsAppOpened DEF Starts, Entitled
  <1>6. QED BY <1>2, <1>3, <1>4, <1>5 DEF WhatsApp!LeaveDispatcherFlow, WhatsApp!LeaveDispatcherMenu

(* The dispatcher's menu, for a dispatcher.                                *)
LEMMA WhatsAppOpensDispatcherMenu ==
    ASSUME NEW p, Fine(p), NEW q \in WhatsApp!OpenDispatcherMenu(p)
    PROVE  RepliedOnWhatsApp(p, q)
  <1>1. CASE p.dispatcher = "none"
    BY <1>1, WhatsAppRoleMenu DEF WhatsApp!OpenDispatcherMenu
  <1>2. CASE p.dispatcher # "none"
    <2>1. q \in Restored(HandleMenu(ForceState(p, <<"dispatcher", "MENU">>), <<"dispatcher", "MENU">>[1]), Switch(p))
      BY <1>2, WhatsAppDialogue DEF WhatsApp!OpenDispatcherMenu
    <2>2. Somewhere(p) /\ Entitled(p, "dispatcher")
      BY <1>2, PersonSomewhere DEF Fine, Entitled
    <2>3. QED BY <2>1, <2>2, WhatsAppReopened DEF Starts
  <1>3. QED BY <1>1, <1>2

(* A dispatcher, or somebody who was one.                                  *)
LEMMA WhatsAppDispatcherMessage ==
    ASSUME NEW p, Fine(p), WhatsApp!In(p, "dispatcher"), NEW text,
           NEW q \in WhatsApp!DispatcherMessage(p, text) \cup WhatsApp!InDispatcherFlow(p, text)
    PROVE  RepliedOnWhatsApp(p, q)
  <1>1. CASE q \in WhatsApp!RouteToRoleMenu(p)
    BY <1>1, WhatsAppRoleMenu
  <1>2. CASE q \in WhatsApp!LeaveDispatcherFlow(p) \cup WhatsApp!LeaveDispatcherMenu(p)
    BY <1>2, WhatsAppLeaves
  <1>3. CASE p.dispatcher # "none" /\ q \in WhatsApp!Handle(p, "dispatcher")
    BY <1>3, WhatsAppHandled DEF Entitled, Flows
  <1>4. QED BY <1>1, <1>2, <1>3 DEF WhatsApp!DispatcherMessage, WhatsApp!InDispatcherFlow

(* A driver, in a state of the driver's flow or elsewhere.                 *)
LEMMA WhatsAppDriverMessage ==
    ASSUME NEW p, Fine(p), p.role = "DRIVER", NEW q \in WhatsApp!DriverMessage(p)
    PROVE  RepliedOnWhatsApp(p, q)
  <1>1. Entitled(p, "driver")
    BY DEF Entitled
  <1>2. CASE WhatsApp!In(p, "driver") /\ q \in WhatsApp!Handle(p, "driver")
    BY <1>1, <1>2, WhatsAppHandled DEF Flows
  <1>3. CASE q \notin WhatsApp!Handle(p, "driver") \/ ~WhatsApp!In(p, "driver")
    <2>1. q \in Restored(HandleMenu(ForceState(p, <<"driver", "INITIAL">>), <<"driver", "INITIAL">>[1]), Switch(p))
      BY <1>3, WhatsAppDialogue DEF WhatsApp!DriverMessage
    <2>2. Somewhere(p)
      BY PersonSomewhere DEF Fine
    <2>3. QED BY <1>1, <2>1, <2>2, WhatsAppReopened DEF Starts
  <1>4. QED BY <1>2, <1>3

(* An administrator's menu, and the menu of the role switched to.          *)
LEMMA WhatsAppAdminMessage ==
    ASSUME NEW p, Fine(p), p.role = "ADMIN", NEW q \in WhatsApp!AdminMessage(p)
    PROVE  RepliedOnWhatsApp(p, q)
  <1>1. Switch(p) = {} /\ p \in Person /\ p.here \in States /\ Somewhere(p)
    BY PersonSomewhere DEF Fine, Clean, Person
  <1>2. CASE switching
    <2> DEFINE from == IF WhatsApp!In(p, "admin") THEN p ELSE WhatsApp!ForceState(p, <<"admin", "MENU">>)
    <2>1. <<"admin", "MENU">> \in States
      BY StartsAreStates DEF Starts
    <2>2. /\ from \in Person /\ from.role = "ADMIN" /\ from.here[1] = "admin" /\ Switch(from) = {}
          /\ from.dispatcher = p.dispatcher /\ from.approval = p.approval
      <3>1. CASE WhatsApp!In(p, "admin")
        BY <1>1, <3>1, WhatsAppDialogue DEF In
      <3>2. CASE ~WhatsApp!In(p, "admin")
        <4>1. from = ForceState(p, <<"admin", "MENU">>)
          BY <3>2, WhatsAppDialogue
        <4> HIDE DEF from
        <4>2. QED BY <1>1, <2>1, <4>1, ForcedState DEF Switch
      <3>3. QED BY <3>1, <3>2
    <2>3. PICK a \in HandleAdmin(from) :
             q \in IF a.here[1] = "switch" THEN WhatsApp!RouteToRoleMenu(a) ELSE {a}
      BY <1>2, WhatsAppDialogue DEF WhatsApp!AdminMessage
    <2> HIDE DEF from
    <2>4. CASE a.here[1] # "switch"
      <3>1. InMenu(from, q, "admin", from.ctx)
        BY <2>2, <2>3, <2>4, HandleAdminAnswers
      <3>2. Entitled(from, "admin") /\ from.ctx \cap Admin!AdminKeys = Switch(p)
        BY <1>1, <2>2 DEF Entitled, Switch
      <3>3. QED BY <1>1, <2>2, <3>1, <3>2, MenuIsReplied DEF RepliedOnWhatsApp
    <2>5. CASE a.here[1] = "switch"
      <3>1. Somewhere(a) /\ Switches(from, a)
        BY <2>2, <2>3, <2>5, HandleAdminAnswers
      <3>2. Routed(a, q)
        BY <2>3, <2>5, <3>1, WhatsAppRoutes
      <3>3. Switches(p, a)
        BY <2>2, <3>1 DEF Switches
      <3>4. QED BY <1>1, <3>2, <3>3, SwitchedIsReplied DEF RepliedOnWhatsApp
    <2>6. QED BY <2>4, <2>5
  <1>3. CASE ~switching /\ WhatsApp!In(p, "sender")
    <2>1. q \in WhatsApp!Handle(p, "sender")
      BY <1>3 DEF WhatsApp!AdminMessage
    <2>2. QED BY <2>1, WhatsAppHandled DEF Flows, Entitled
  <1>4. CASE ~switching /\ ~WhatsApp!In(p, "sender")
    <2>1. q \in HandleMenu(ForceState(p, <<"sender", "MENU">>), <<"sender", "MENU">>[1])
      BY <1>4, WhatsAppDialogue DEF WhatsApp!AdminMessage, WhatsApp!SenderFallback
    <2>2. QED BY <1>1, <2>1, WhatsAppOpened DEF Starts, Entitled
  <1>5. QED BY <1>2, <1>3, <1>4

(* A sender: a form, or a word of welcome, in either webhook.              *)
LEMMA WhatsAppSenderMessage ==
    ASSUME NEW p, Fine(p), NEW text, NEW q \in WhatsApp!SenderMessage(p,
           text) \cup WhatsApp!ContinueAsSender(p)
    PROVE  RepliedOnWhatsApp(p, q)
  <1>1. q \in WhatsApp!Handle(p, "sender") \/ q \in WhatsApp!Keep(p)
    BY DEF WhatsApp!SenderMessage, WhatsApp!ContinueAsSender
  <1>2. QED BY <1>1, WhatsAppHandled, WhatsAppSilent DEF Flows, Entitled

(* The rest of a message, by the role and the state of the person.         *)
LEMMA WhatsAppMessageByRole ==
    ASSUME NEW p, Fine(p), NEW text, NEW q \in WhatsApp!MessageByRole(p, text)
    PROVE  RepliedOnWhatsApp(p, q)
  <1>1. p.role \in Roles
    BY DEF Fine, Person
  <1>2. CASE q \in WhatsApp!OwnerMessage(p)
    BY <1>2, WhatsAppOwnerMessage
  <1>3. CASE WhatsApp!In(p, "dispatcher") /\ q \in WhatsApp!DispatcherMessage(p, text)
    BY <1>3, WhatsAppDispatcherMessage
  <1>4. CASE q \in WhatsApp!OpenDispatcherMenu(p)
    BY <1>4, WhatsAppOpensDispatcherMenu
  <1>5. CASE p.role = "ADMIN" /\ q \in WhatsApp!AdminMessage(p)
    BY <1>5, WhatsAppAdminMessage
  <1>6. CASE p.role = "COURIER" /\ q \in WhatsApp!Handle(p, "courier")
    BY <1>6, WhatsAppHandled DEF Flows, Entitled
  <1>7. CASE p.role = "DRIVER" /\ q \in WhatsApp!DriverMessage(p)
    BY <1>7, WhatsAppDriverMessage
  <1>8. CASE q \in WhatsApp!SenderMessage(p, text)
    BY <1>8, WhatsAppSenderMessage
  <1>9. QED BY <1>1, <1>2, <1>3, <1>4, <1>5, <1>6, <1>7, <1>8 DEF WhatsApp!MessageByRole, Roles

(* whatsapp_webhook: every message, whoever writes and whatever it says.   *)
LEMMA WhatsAppReplies ==
    ASSUME NEW p, Fine(p), NEW text, NEW q \in WhatsApp!Answered(p, text)
    PROVE  RepliedOnWhatsApp(p, q)
  <1>1. CASE q \in WhatsApp!Home(p)
    BY <1>1, WhatsAppHome
  <1>2. CASE q \in WhatsApp!ReturnToAdmin(p)
    BY <1>2, WhatsAppReturns
  <1>3. CASE q \in WhatsApp!SenderButton(p, text)
    <2>1. CASE q \in WhatsApp!Join(p, "COURIER", "courier")
      BY <2>1, WhatsAppJoins
    <2>2. CASE q \in WhatsApp!Join(p, "DRIVER", "driver")
      BY <2>2, WhatsAppJoins
    <2>3. CASE q \in WhatsApp!Keep(p)
      BY <2>3, WhatsAppSilent
    <2>4. QED BY <1>3, <2>1, <2>2, <2>3 DEF WhatsApp!SenderButton
  <1>4. CASE q = WhatsApp!Put(p, "contact_admin_pending")
    BY <1>4, WhatsAppSilent
  <1>5. CASE q \in WhatsApp!ContactAdmin(p, text)
    BY <1>5, WhatsAppContactAdmin
  <1>6. CASE q \in WhatsApp!MessageByRole(p, text)
    BY <1>6, WhatsAppMessageByRole
  <1>7. QED BY <1>1, <1>2, <1>3, <1>4, <1>5, <1>6 DEF WhatsApp!Answered

-----------------------------------------------------------------------------
(* WhatsApp's Cloud API *)

(* The rest of a message there.                                            *)
LEMMA CloudByRole ==
    ASSUME NEW p, Fine(p), p.role # "ADMIN", NEW text, NEW q \in WhatsApp!ByRole(p, text)
    PROVE  RepliedOnWhatsApp(p, q)
  <1>1. p.role \in Roles \ {"ADMIN"}
    BY DEF Fine, Person
  <1>2. CASE q \in WhatsApp!OwnerMessage(p)
    BY <1>2, WhatsAppOwnerMessage
  <1>3. CASE WhatsApp!In(p, "dispatcher") /\ q \in WhatsApp!InDispatcherFlow(p, text)
    BY <1>3, WhatsAppDispatcherMessage
  <1>4. CASE q \in WhatsApp!OpenDispatcherMenu(p)
    BY <1>4, WhatsAppOpensDispatcherMenu
  <1>5. CASE p.role = "COURIER" /\ q \in WhatsApp!Handle(p, "courier")
    BY <1>5, WhatsAppHandled DEF Flows, Entitled
  <1>6. CASE p.role = "DRIVER" /\ q \in WhatsApp!DriverMessage(p)
    BY <1>6, WhatsAppDriverMessage
  <1>7. CASE q \in WhatsApp!ContinueAsSender(p)
    BY <1>7, WhatsAppSenderMessage
  <1>8. QED BY <1>1, <1>2, <1>3, <1>4, <1>5, <1>6, <1>7 DEF WhatsApp!ByRole, Roles

(* whatsapp_cloud.py: every message, whoever writes and whatever it says.  *)
LEMMA CloudReplies ==
    ASSUME NEW p, Fine(p), NEW text, NEW q \in WhatsApp!AnsweredInCloud(p, text)
    PROVE  RepliedOnWhatsApp(p, q)
  <1>1. CASE q \in WhatsApp!RouteToRoleMenu(p)
    BY <1>1, WhatsAppRoleMenu
  <1>2. CASE q \in WhatsApp!ReturnToAdmin(p)
    BY <1>2, WhatsAppReturns
  <1>3. CASE p.role = "ADMIN" /\ q \in WhatsApp!AdminMessage(p)
    BY <1>3, WhatsAppAdminMessage
  <1>4. CASE q \in WhatsApp!MenuButton(p, text)
    <2>1. CASE q \in WhatsApp!JoinFromMenu(p, "COURIER", "courier")
      BY <2>1, WhatsAppJoins
    <2>2. CASE q \in WhatsApp!JoinFromMenu(p, "DRIVER", "driver")
      BY <2>2, WhatsAppJoins
    <2>3. CASE q \in WhatsApp!Keep(p)
      BY <2>3, WhatsAppSilent
    <2>4. QED BY <1>4, <2>1, <2>2, <2>3 DEF WhatsApp!MenuButton
  <1>5. CASE q = WhatsApp!Put(p, "contact_admin_pending")
    BY <1>5, WhatsAppSilent
  <1>6. CASE q \in WhatsApp!ContactAdmin(p, text)
    BY <1>6, WhatsAppContactAdmin
  <1>7. CASE p.role # "ADMIN" /\ q \in WhatsApp!ByRole(p, text)
    BY <1>7, CloudByRole
  <1>8. QED BY <1>1, <1>2, <1>3, <1>4, <1>5, <1>6, <1>7 DEF WhatsApp!AnsweredInCloud

-----------------------------------------------------------------------------
(* The invariant *)

(* The approval that the way back restores is the one before the switch.   *)
Undoable == Impersonating(person) => Admin!OriginalApproval(person.ctx) = switched.approval

(* No reply was missing for the handler that ran last.                     *)
NothingMissing == person.heard.missing = {}

(* What a form keeps was asked for in its own flow: nothing before the     *)
(* first message, and nothing of a form of the station's owner while the   *)
(* person writes as a dispatcher, whose handler would not clear it.        *)
Tidy(p) ==
    /\ Own(p)
    /\ p.here = <<"sender", "INITIAL">> => Blank(p)
    /\ p.here[1] = "dispatcher" => p.ctx \cap Station!ManagementKeys = {}

(* On WhatsApp only the flows that are entered at their menu can say so.   *)
TidyHere ==
    /\ platform = "telegram" => Tidy(person)
    /\ person.here[1] \in {"dispatcher", "driver"} => Own(person)

Inv == TypeOK /\ Fine(person) /\ Undoable /\ NothingMissing /\ TidyHere

(* A conversation that keeps nothing is tidy.                              *)
LEMMA BlankIsTidy ==
    ASSUME NEW p \in Person, Blank(p)
    PROVE  Tidy(p)
  <1>1. p.here[1] \in Flows
    BY StatesOf DEF Person
  <1>2. FormKeys(p.here[1]) \subseteq FlowKeys /\ Station!ManagementKeys \subseteq FlowKeys
    BY <1>1, FlowKeysApart
  <1>3. QED BY <1>2 DEF Tidy, Own, Blank

(* So is one that goes on where it is tidy.                                *)
LEMMA SameIsOwn ==
    ASSUME NEW p \in Person, NEW q, Same(p, q)
    PROVE  /\ Own(p) => Own(q)
           /\ Tidy(p) => Tidy(q)
  <1>1. p.here[1] \in Flows
    BY StatesOf DEF Person
  <1>2. FormKeys(p.here[1]) \subseteq FlowKeys /\ Station!ManagementKeys \subseteq FlowKeys
    BY <1>1, FlowKeysApart
  <1>3. QED BY <1>2 DEF Tidy, Own, Blank, Same

(* So does whatever a message does, where its flow goes on.                *)
LEMMA ServedIsTidy ==
    ASSUME NEW p \in Person, NEW q, Served(p, q)
    PROVE  /\ (p.here[1] \in {"dispatcher", "driver"} => Own(p))
                => (q.here[1] \in {"dispatcher", "driver"} => Own(q))
           /\ Tidy(p) /\ Follows(p, q) => Tidy(q)
  <1>1. q \in Person /\ (Blank(q) \/ Same(p, q) \/ Carried(p, q))
    BY DEF Served
  <1>2. CASE Blank(q)
    BY <1>1, <1>2, BlankIsTidy DEF Tidy
  <1>3. CASE Same(p, q)
    BY <1>3, SameIsOwn DEF Same
  <1>4. CASE Carried(p, q) /\ ~Blank(q)
    <2>1. (q.here[1] \in {"dispatcher", "driver"} /\ p.here[1] = q.here[1] /\ Own(p)) => Own(q)
      BY <1>4 DEF Carried
    <2>2. ASSUME Tidy(p), Follows(p, q)
          PROVE  Tidy(q)
      <3>1. Continues(p, q.here[1])
        BY <1>4, <2>2 DEF Follows
      <3>2. q.here[1] \in Flows /\ FormKeys(q.here[1]) \subseteq FlowKeys
        BY <1>1, StatesOf, FlowKeysApart DEF Person
      <3>3. IF p.here[1] = q.here[1] THEN Own(p) ELSE p.ctx \cap FormKeys(q.here[1]) = {}
        <4>1. CASE p.here[1] = q.here[1]
          BY <2>2, <4>1 DEF Tidy
        <4>2. CASE p.here[1] # q.here[1] /\ p.here = <<"sender", "INITIAL">>
          BY <2>2, <3>2, <4>2 DEF Tidy, Blank
        <4>3. CASE q.here[1] = "station" /\ p.here[1] = "dispatcher"
          BY <2>2, <4>3 DEF Tidy, FormKeys
        <4>4. QED BY <3>1, <4>1, <4>2, <4>3 DEF Continues
      <3>4. Own(q) /\ q.here # <<"sender", "INITIAL">>
        BY <1>4, <3>3 DEF Carried
      <3>5. q.here[1] = "dispatcher" => q.ctx \cap Station!ManagementKeys = {}
        BY <1>4, <2>2 DEF Carried, Tidy
      <3>6. QED BY <3>4, <3>5 DEF Tidy
    <2>3. QED BY <1>4, <2>1, <2>2 DEF Carried
  <1>5. QED BY <1>1, <1>2, <1>3, <1>4

(* A story begins with an empty context, in a state that needs nothing.    *)
LEMMA InitInv == Init => Inv
  <1> SUFFICES ASSUME Init PROVE Inv
    OBVIOUS
  <1>1. PICK story \in Stories :
           /\ platform = story.platform /\ listed = story.listed /\ switching = story.switching
           /\ person = story.person /\ disturbances = story.disturbances
    BY DEF Init
  <1>2. switched = NotSwitched
    BY DEF Init
  <1>3. /\ platform \in {"telegram", "whatsapp", "cloud"} /\ listed \in BOOLEAN
        /\ switching \in BOOLEAN
        /\ disturbances \in Nat /\ person \in Person
        /\ person.here \in {<<"sender", "INITIAL">>} \cup {<<flow, "MENU">> : flow \in Flows}
        /\ person.ctx = {} /\ person.heard.missing = {}
    BY <1>1, ConversationAssumption
  <1>4. TypeOK
    BY <1>2, <1>3 DEF TypeOK, NotSwitched
  <1>5. Needs(person.here[1])[person.here[2]] = {}
    <2>1. person.here[2] \in DOMAIN Declared(person.here[1])
      BY <1>3, StatesOf DEF Person
    <2>2. CASE person.here[1] = "sender"
      BY <1>3, <2>1, <2>2 DEF Needs, Declared, SenderNeeds
    <2>3. CASE person.here[1] = "courier"
      BY <1>3, <2>1, <2>3 DEF Needs, Declared, CourierNeeds
    <2>4. CASE person.here[1] = "dispatcher"
      BY <1>3, <2>1, <2>4 DEF Needs, Declared, DispatcherNeeds
    <2>5. CASE person.here[1] = "station"
      BY <1>3, <2>1, <2>5 DEF Needs, Declared, StationNeeds
    <2>6. CASE person.here[1] = "driver"
      BY <1>3, <2>1, <2>6 DEF Needs, Declared, DriverNeeds
    <2>7. CASE person.here[1] = "admin"
      BY <1>3, <2>1, <2>7 DEF Needs, Declared
    <2>8. QED BY <1>3, <2>2, <2>3, <2>4, <2>5, <2>6, <2>7 DEF Flows
  <1>6. Fine(person)
    BY <1>3, <1>5 DEF Fine, Ready, Clean, Switch
  <1>7. Undoable
    BY <1>3 DEF Undoable, Impersonating
  <1>8. Tidy(person)
    BY <1>3, BlankIsTidy DEF Blank
  <1>9. QED BY <1>3, <1>4, <1>6, <1>7, <1>8 DEF Inv, NothingMissing, TidyHere, Tidy

-----------------------------------------------------------------------------
(* Messages *)

(* What a message does on the platform where it is written.                *)
LEMMA MessageReplies ==
    ASSUME Inv, NEW text, Message(text)
    PROVE  /\ Served(person, person')
           /\ \/ Keeps(person, person') \/ Returns(person, person') \/ Switches(person, person')
              \/ platform # "telegram" /\ Forgets(person, person')
           /\ platform = "telegram" => Replied(person, person')
  <1>1. Fine(person) /\ platform \in {"telegram", "whatsapp", "cloud"} /\ person' \in Answers(text)
    BY DEF Inv, TypeOK, Message
  <1>2. CASE platform = "telegram"
    <2>1. person' \in Telegram!Answered(person, text)
      BY <1>1, <1>2 DEF Answers
    <2>2. Replied(person, person')
      BY <1>1, <2>1, TelegramReplies
    <2>3. QED BY <1>2, <2>2 DEF Replied, ReturnsStation
  <1>3. CASE platform = "whatsapp"
    <2>1. person' \in WhatsApp!Answered(person, text)
      BY <1>1, <1>3 DEF Answers
    <2>2. RepliedOnWhatsApp(person, person')
      BY <1>1, <2>1, WhatsAppReplies
    <2>3. QED BY <1>3, <2>2 DEF RepliedOnWhatsApp
  <1>4. CASE platform = "cloud"
    <2>1. person' \in WhatsApp!AnsweredInCloud(person, text)
      BY <1>1, <1>4 DEF Answers
    <2>2. RepliedOnWhatsApp(person, person')
      BY <1>1, <2>1, CloudReplies
    <2>3. QED BY <1>4, <2>2 DEF RepliedOnWhatsApp
  <1>5. QED BY <1>1, <1>2, <1>3, <1>4

(* A message preserves the invariant.                                      *)
LEMMA MessageInv ==
    ASSUME Inv, NEW text, Message(text)
    PROVE  Inv'
  <1>1. /\ Fine(person) /\ Undoable /\ TypeOK /\ TidyHere
        /\ Remember(person') /\ UNCHANGED <<fixed, disturbances>>
    BY DEF Inv, Message
  <1>2. /\ Served(person, person')
        /\ \/ Keeps(person, person') \/ Returns(person, person') \/ Switches(person, person')
           \/ Forgets(person, person')
    BY MessageReplies
  <1>3. person' \in Person /\ Ready(person') /\ NothingMissing'
    BY <1>2 DEF Served, NothingMissing
  <1>4. Clean(person')
    <2>1. CASE Keeps(person, person')
      <3>1. Impersonating(person') <=> Impersonating(person)
        BY <2>1, SwitchKeys DEF Keeps
      <3>2. QED BY <1>1, <2>1, <3>1 DEF Keeps, Stays, Fine, Clean
    <2>2. CASE Returns(person, person') \/ Forgets(person, person')
      BY <2>2 DEF Returns, Forgets, Clean
    <2>3. CASE Switches(person, person')
      BY <2>3 DEF Switches, Clean
    <2>4. QED BY <1>2, <2>1, <2>2, <2>3
  <1>5. Undoable'
    <2>1. SUFFICES ASSUME Impersonating(person')
                   PROVE  Admin!OriginalApproval(person'.ctx) = switched'.approval
      BY DEF Undoable, Impersonating
    <2>2. Switch(person') # {}
      BY <2>1, NoSwitch
    <2>3. CASE Keeps(person, person')
      <3>1. /\ Impersonating(person)
            /\ Admin!OriginalApproval(person'.ctx) = Admin!OriginalApproval(person.ctx)
        BY <2>1, <2>3, SwitchKeys DEF Keeps
      <3>2. person.role # "ADMIN" /\ person'.role # "ADMIN"
        BY <1>1, <3>1, <2>2, <2>3 DEF Keeps, Stays, Fine, Clean
      <3>3. switched' = switched
        BY <1>1, <3>2 DEF Remember
      <3>4. QED BY <1>1, <3>1, <3>3 DEF Undoable
    <2>4. CASE Switches(person, person')
      <3>1. switched' = [approval |-> person.approval, dispatcher |-> person.dispatcher]
        BY <1>1, <2>1, <2>4 DEF Remember, Switches
      <3>2. QED BY <2>4, <3>1 DEF Switches
    <2>5. QED BY <1>2, <2>2, <2>3, <2>4 DEF Returns, Forgets
  <1>6. switched' \in [approval : {"none", "pending", "approved", "rejected", "blocked"},
                       dispatcher : {"none", "real", "lent"}]
    BY <1>1 DEF Remember, TypeOK, NotSwitched, Fine, Person
  <1>7. TypeOK'
    BY <1>1, <1>3, <1>6 DEF TypeOK, fixed
  <1>8. TidyHere'
    <2>1. platform' = platform /\ person \in Person
      BY <1>1 DEF fixed, Fine
    <2>2. platform = "telegram" => Follows(person, person')
      BY MessageReplies DEF Replied
    <2>3. QED BY <1>1, <1>2, <2>1, <2>2, ServedIsTidy DEF TidyHere
  <1>9. QED BY <1>3, <1>4, <1>5, <1>7, <1>8 DEF Inv, Fine, NothingMissing

-----------------------------------------------------------------------------
(* Decisions of others, and deaths of the process *)

(* d is what p becomes without a message: nobody becomes an administrator, *)
(* a switch is kept or forgotten, and the replies are left or all gone.    *)
Disturbed(p, d) ==
    /\ d \in Person /\ Ready(d)
    /\ d.role = "ADMIN" => p.role = "ADMIN"
    /\ Switch(d) = Switch(p) \/ Switch(d) = {}
    /\ (d.here = p.here /\ d.ctx = p.ctx) \/ Tidy(d)

(* A disturbance preserves the invariant.                                  *)
LEMMA DisturbInv ==
    ASSUME Inv, NEW d, Disturbed(person, d), Disturb(d)
    PROVE  Inv'
  <1>1. /\ Fine(person) /\ Undoable /\ TypeOK /\ TidyHere
        /\ disturbances > 0 /\ disturbances' = disturbances - 1
        /\ person' = [d EXCEPT !.heard = Silent] /\ UNCHANGED <<fixed, switched>>
    BY DEF Inv, Disturb
  <1>2. Silent \in [flow : Flows \cup {"none"}, missing : SUBSET Keys] /\ Silent.missing = {}
    BY DEF Silent
  <1>3. /\ person' \in Person /\ person'.here = d.here /\ person'.ctx = d.ctx
        /\ person'.role = d.role /\ person'.heard = Silent
    BY <1>1, <1>2 DEF Disturbed, Person
  <1>4. Ready(person') /\ Switch(person') = Switch(d)
    BY <1>3 DEF Disturbed, Ready, Switch
  <1>5. TidyHere'
    <2>1. Own(d) => Own(person')
      BY <1>3 DEF Own
    <2>2. Tidy(d) => Tidy(person')
      BY <1>3, <2>1 DEF Tidy, Blank
    <2>3. CASE Tidy(d)
      BY <2>2, <2>3 DEF TidyHere, Tidy
    <2>4. CASE d.here = person.here /\ d.ctx = person.ctx
      <3>1. Same(person, person')
        BY <1>3, <2>4 DEF Same
      <3>2. platform' = platform /\ person'.here = person.here /\ person \in Person
        BY <1>1, <1>3, <2>4 DEF fixed, Fine
      <3>3. QED BY <1>1, <3>1, <3>2, SameIsOwn DEF TidyHere
    <2>5. QED BY <2>3, <2>4 DEF Disturbed
  <1>6. CASE Switch(d) = {}
    <2>1. Clean(person') /\ ~Impersonating(person')
      BY <1>4, <1>6, NoSwitch DEF Clean
    <2>2. QED BY <1>1, <1>2, <1>3, <1>4, <1>5, <2>1 DEF Inv, TypeOK, fixed, Fine, Undoable,
         NothingMissing, Impersonating
  <1>7. CASE Switch(d) = Switch(person)
    <2>1. /\ Impersonating(person') <=> Impersonating(person)
          /\ Admin!OriginalApproval(person'.ctx) = Admin!OriginalApproval(person.ctx)
      BY <1>4, <1>7, SwitchKeys
    <2>2. Clean(person')
      BY <1>1, <1>3, <1>4, <1>7, <2>1 DEF Disturbed, Fine, Clean
    <2>3. Undoable'
      BY <1>1, <2>1 DEF Undoable, Impersonating
    <2>4. QED BY <1>1, <1>2, <1>3, <1>4, <1>5, <2>2, <2>3 DEF Inv, TypeOK, fixed, Fine,
         NothingMissing
  <1>8. QED BY <1>6, <1>7 DEF Disturbed

(* The same, and the conversation is not touched: the association with a   *)
(* station is lent to nobody, and remembered as before.                    *)
Untouched(p, d) ==
    /\ Disturbed(p, d) /\ Switch(d) = Switch(p)
    /\ d.dispatcher = "lent" => p.dispatcher = "lent"

(* Rows that change while the conversation stays as it is.                 *)
LEMMA RowsAreUntouched ==
    ASSUME NEW p \in Person, Fine(p), NEW d \in Person, d.here = p.here, d.ctx = p.ctx,
           d.role = "ADMIN" => p.role = "ADMIN", d.dispatcher = "lent" => p.dispatcher = "lent"
    PROVE  Untouched(p, d)
  BY DEF Fine, Ready, Untouched, Disturbed, Switch

(* What a handler's operation changes is in the rows.                      *)
LEMMA OperatedIsUntouched ==
    ASSUME NEW p \in Person, Fine(p), NEW d, Operated(p, d)
    PROVE  Untouched(p, d)
  BY RowsAreUntouched DEF Operated

(* What others decide, but about drivers.                                  *)
LEMMA OthersTouchNothing ==
    ASSUME Inv, Others, ~ApproveDriver, ~RejectDriver
    PROVE  \E d : Untouched(person, d) /\ Disturb(d)
  <1> DEFINE Is(d) == Untouched(person, d) /\ Disturb(d)
  <1>1. person \in Person /\ Fine(person)
    BY DEF Inv, TypeOK
  <1>2. CASE ApproveCourier \/ RejectCourier
    <2>1. /\ Applicant \in Person /\ Applicant.here = person.here /\ Applicant.ctx = person.ctx
          /\ Applicant.role = "ADMIN" => person.role = "ADMIN"
          /\ Applicant.dispatcher = person.dispatcher
      BY <1>1 DEF Applicant, Person, Roles
    <2>2. PICK approval \in {"approved", "rejected"} : Disturb([Applicant EXCEPT !.approval = approval])
      BY <1>2 DEF ApproveCourier, RejectCourier
    <2> DEFINE d == [Applicant EXCEPT !.approval = approval]
    <2>3. /\ d \in Person /\ d.here = person.here /\ d.ctx = person.ctx
          /\ d.role = "ADMIN" => person.role = "ADMIN"
          /\ d.dispatcher = person.dispatcher
      BY <2>1 DEF Person
    <2>4. Is(d)
      BY <1>1, <2>2, <2>3, RowsAreUntouched
    <2> HIDE DEF d, Is
    <2>5. \E x : Is(x)
      BY <2>4
    <2>6. QED BY <2>5 DEF Is
  <1>3. CASE AddOwner
    <2> DEFINE d == [person EXCEPT !.owner = TRUE, !.role = "STATION_OWNER"]
    <2>1. d \in Person /\ d.here = person.here /\ d.ctx = person.ctx /\ d.role # "ADMIN"
          /\ d.dispatcher = person.dispatcher
      BY <1>1 DEF Person, Roles
    <2>2. Is(d)
      BY <1>1, <1>3, <2>1, RowsAreUntouched DEF AddOwner
    <2>3. QED BY <2>2
  <1>4. CASE RemoveOwner
    <2>1. PICK d \in NoLongerOwner(person) : Disturb(d)
      BY <1>4 DEF RemoveOwner
    <2>2. Is(d)
      BY <1>1, <2>1, NoLongerOwnerIsOperated, OperatedIsUntouched
    <2>3. QED BY <2>2
  <1>5. CASE AddDispatcher
    <2> DEFINE d == [person EXCEPT !.dispatcher = "real"]
    <2>1. d \in Person /\ d.here = person.here /\ d.ctx = person.ctx /\ d.role = person.role
          /\ d.dispatcher = "real"
      BY <1>1 DEF Person
    <2>2. Is(d)
      BY <1>1, <1>5, <2>1, RowsAreUntouched DEF AddDispatcher
    <2>3. QED BY <2>2
  <1>6. CASE RemoveDispatcher
    <2> DEFINE d == [person EXCEPT !.dispatcher = "none"]
    <2>1. d \in Person /\ d.here = person.here /\ d.ctx = person.ctx /\ d.role = person.role
          /\ d.dispatcher = "none"
      BY <1>1 DEF Person
    <2>2. Is(d)
      BY <1>1, <1>6, <2>1, RowsAreUntouched DEF RemoveDispatcher
    <2>3. QED BY <2>2
  <1>7. CASE CloseStation
    <2> DEFINE d == [person EXCEPT !.owner = FALSE, !.dispatcher = "none"]
    <2>1. d \in Person /\ d.here = person.here /\ d.ctx = person.ctx /\ d.role = person.role
          /\ d.dispatcher = "none"
      BY <1>1 DEF Person
    <2>2. Is(d)
      BY <1>1, <1>7, <2>1, RowsAreUntouched DEF CloseStation
    <2>3. QED BY <2>2
  <1>8. CASE Block
    <2> DEFINE d == [person EXCEPT !.approval = "blocked"]
    <2>1. d \in Person /\ d.here = person.here /\ d.ctx = person.ctx /\ d.role = person.role
          /\ d.dispatcher = person.dispatcher
      BY <1>1 DEF Person
    <2>2. Is(d)
      BY <1>1, <1>8, <2>1, RowsAreUntouched DEF Block
    <2>3. QED BY <2>2
  <1>9. QED BY <1>2, <1>3, <1>4, <1>5, <1>6, <1>7, <1>8 DEF Others

(* A process that dies anywhere but between a menu and an administrator's  *)
(* keys.                                                                   *)
LEMMA DeathTouchesNothing ==
    ASSUME Inv, DieJoining \/ DieInHandler
    PROVE  \E d : Untouched(person, d) /\ Disturb(d)
  <1> DEFINE Is(d) == Untouched(person, d) /\ Disturb(d)
  <1>1. person \in Person /\ Fine(person)
    BY DEF Inv, TypeOK
  <1>2. CASE DieJoining
    <2>1. PICK role \in {"COURIER", "DRIVER"} : Disturb([person EXCEPT !.role = role])
      BY <1>2 DEF DieJoining
    <2> DEFINE d == [person EXCEPT !.role = role]
    <2>2. d \in Person /\ d.here = person.here /\ d.ctx = person.ctx /\ d.role # "ADMIN"
          /\ d.dispatcher = person.dispatcher
      BY <1>1 DEF Person, Roles
    <2>3. Is(d)
      BY <1>1, <2>1, <2>2, RowsAreUntouched
    <2> HIDE DEF d, Is
    <2>4. \E x : Is(x)
      BY <2>3
    <2>5. QED BY <2>4 DEF Is
  <1>3. CASE DieInHandler
    <2>1. PICK flow \in Flows \ {"admin"} :
             \E o \in Outcomes(person, flow) : \E p \in Effects(person, o.does) : Disturb(p)
      BY <1>3 DEF DieInHandler
    <2>2. PICK o \in Outcomes(person, flow) : \E p \in Effects(person, o.does) : Disturb(p)
      BY <2>1
    <2>3. PICK d \in Effects(person, o.does) : Disturb(d)
      BY <2>2
    <2>4. Is(d)
      BY <1>1, <2>3, EffectsAreOperated, OperatedIsUntouched
    <2>5. QED BY <2>4
  <1>4. QED BY <1>2, <1>3

(* What replaces the whole context: a menu that was forced, or the state a *)
(* decision about a driver asks for.                                       *)
LEMMA ReplacedIsDisturbed ==
    ASSUME Inv, Replaced
    PROVE  \E d : Disturbed(person, d) /\ Disturb(d)
  <1> DEFINE Is(d) == Disturbed(person, d) /\ Disturb(d)
  <1>1. person \in Person /\ Somewhere(person)
    BY PersonSomewhere DEF Inv, TypeOK
  <1>2. CASE DieInMenu
    <2> DEFINE Found(r, s) == Resolved(person, r, s) /\ Disturb(ForceState(r, s))
    <2>1. PICK r, s : Found(r, s)
      <3>1. CASE platform = "telegram"
        <4>1. PICK r, s : Telegram!ResolveRoleState(person) = ForceState(r, s) /\ Resolved(person, r, s)
          BY <1>1, TelegramResolves
        <4>2. Found(r, s)
          BY <1>2, <3>1, <4>1 DEF DieInMenu
        <4>3. QED BY <4>2
      <3>2. CASE platform # "telegram"
        <4>1. PICK r, s : WhatsApp!ResolveRoleState(person) = ForceState(r, s) /\ Resolved(person, r, s)
          BY <1>1, WhatsAppResolves
        <4>2. Found(r, s)
          BY <1>2, <3>2, <4>1 DEF DieInMenu
        <4>3. QED BY <4>2
      <3>3. QED BY <3>1, <3>2
    <2> DEFINE d == ForceState(r, s)
    <2>2. s \in Starts /\ s \in States /\ Somewhere(r) /\ (r.role = "ADMIN" => person.role = "ADMIN")
      BY <2>1, StartsAreStates DEF Resolved
    <2>3. d \in Person /\ d.here = s /\ d.ctx = {} /\ d.role = r.role /\ d.heard = Silent
      BY <2>2, ForcedState
    <2>4. Disturb(d)
      BY <2>1
    <2> HIDE DEF d
    <2>5. Ready(d)
      BY <2>2, <2>3, StartServes DEF Served, Blank
    <2>6. Tidy(d)
      BY <2>3, BlankIsTidy DEF Blank
    <2>7. Is(d)
      BY <2>2, <2>3, <2>4, <2>5, <2>6 DEF Disturbed, Switch
    <2>8. QED BY <2>7
  <1>3. CASE ApproveDriver \/ RejectDriver
    <2>1. PICK decision \in {"approved", "rejected"} : Disturb(Decided(decision))
      BY <1>3 DEF ApproveDriver, RejectDriver
    <2> DEFINE p == [person EXCEPT !.verification = decision]
    <2>2. p \in Person /\ p.role = person.role
      BY <1>1 DEF Person
    <2>3. "MENU" \in DOMAIN Driver!Declared /\ "VERIFY_COLLECT_SELFIE" \in DOMAIN Driver!Declared
      BY DEF Driver!Declared
    <2>4. /\ <<"driver", "MENU">> \in States /\ <<"driver", "VERIFY_COLLECT_SELFIE">> \in States
          /\ Needs("driver")["MENU"] = {}
          /\ Needs("driver")["VERIFY_COLLECT_SELFIE"] = RejectionContext
      BY <2>3, StatesOf DEF Flows, Declared, Needs, DriverNeeds, RejectionContext
    <2>5. Somewhere(p)
      BY <2>2, PersonSomewhere
    <2> HIDE DEF p
    <2>6. CASE decision = "approved"
      <3> DEFINE d == ForceState(p, <<"driver", "MENU">>)
      <3>1. d \in Person /\ d.here = <<"driver", "MENU">> /\ d.ctx = {} /\ d.role = person.role
        BY <2>2, <2>4, <2>5, ForcedState
      <3>2. Disturb(d)
        BY <2>1, <2>6 DEF Decided, p
      <3> HIDE DEF d
      <3>3. Tidy(d)
        BY <3>1, BlankIsTidy DEF Blank
      <3>4. Is(d)
        BY <2>4, <3>1, <3>2, <3>3 DEF Disturbed, Ready, Switch
      <3>5. QED BY <3>4
    <2>7. CASE decision = "rejected"
      <3> DEFINE f == ForceState(p, <<"driver", "VERIFY_COLLECT_SELFIE">>)
                 d == [f EXCEPT !.ctx = RejectionContext]
      <3>1. f \in Person /\ f.here = <<"driver", "VERIFY_COLLECT_SELFIE">> /\ f.role = person.role
        BY <2>2, <2>4, <2>5, ForcedState
      <3>2. Disturb(d)
        BY <2>1, <2>7 DEF Decided, p
      <3> HIDE DEF f
      <3>3. RejectionContext \subseteq DriverKeys
        BY DEF RejectionContext, DriverKeys, Driver!RegistrationKeys
      <3>4. RejectionContext \subseteq Keys /\ RejectionContext \cap Admin!AdminKeys = {}
        BY <3>3, FlowKeysApart
      <3>5. /\ d \in Person /\ d.here = <<"driver", "VERIFY_COLLECT_SELFIE">>
            /\ d.role = person.role
            /\ d.ctx = RejectionContext
        BY <3>1, <3>4 DEF Person
      <3> HIDE DEF d
      <3>6. RejectionContext \subseteq Allows("driver")["VERIFY_COLLECT_SELFIE"]
        BY DEF RejectionContext, Allows, DriverAllows, Driver!RegistrationKeys, Driver!Registering,
           Driver!Declared
      <3>7. Tidy(d)
        BY <3>5, <3>6 DEF Tidy, Own
      <3>8. Is(d)
        BY <2>4, <3>2, <3>4, <3>5, <3>7 DEF Disturbed, Ready, Switch
      <3>9. QED BY <3>8
    <2>8. QED BY <2>6, <2>7
  <1>4. QED BY <1>2, <1>3 DEF Replaced

-----------------------------------------------------------------------------
(* Steps *)

(* What a step that is not a message does.                                 *)
LEMMA DisturbanceSteps ==
    ASSUME Inv, Die \/ Others
    PROVE  /\ \E d : Disturbed(person, d) /\ Disturb(d)
           /\ ~Replaced => \E d : Untouched(person, d) /\ Disturb(d)
  <1>1. CASE Replaced
    BY <1>1, ReplacedIsDisturbed
  <1>2. CASE ~Replaced
    <2>1. PICK d : Untouched(person, d) /\ Disturb(d)
      BY <1>2, OthersTouchNothing, DeathTouchesNothing DEF Die, Replaced
    <2>2. QED BY <1>2, <2>1 DEF Untouched
  <1>3. QED BY <1>1, <1>2

(* A step is a message, or a disturbance that is counted.                  *)
LEMMA StepInv == Inv /\ [Next]_vars => Inv'
  <1> SUFFICES ASSUME Inv, [Next]_vars PROVE Inv'
    OBVIOUS
  <1>1. ASSUME NEW text \in Texts, Message(text) PROVE Inv'
    BY <1>1, MessageInv
  <1>2. CASE Die \/ Others
    <2>1. PICK d : Disturbed(person, d) /\ Disturb(d)
      BY <1>2, DisturbanceSteps
    <2>2. QED BY <2>1, DisturbInv
  <1>3. CASE UNCHANGED vars
    BY <1>3 DEF vars, Inv, TypeOK, Fine, Ready, Clean, Switch, Undoable, NothingMissing,
       Impersonating,
       TidyHere, Tidy, Own, Blank
  <1>4. QED BY <1>1, <1>2, <1>3 DEF Next

(* The invariant holds.                                                    *)
LEMMA InvHolds == Spec => []Inv
  BY InitInv, StepInv, PTL DEF Spec

(* TypeOK: every conversation is in a state that its flow declares, and    *)
(* the rows keep to their values.                                          *)
THEOREM TypeCorrect == Spec => []TypeOK
  <1>1. Inv => TypeOK
    BY DEF Inv
  <1>2. QED BY <1>1, InvHolds, PTL

(* DraftComplete: whoever decides what meanwhile, and wherever the process *)
(* dies, no handler performs an operation, or repeats earlier replies,     *)
(* without the replies it reads from the context; and the form that the    *)
(* person left last is not found by the next one.                          *)
THEOREM DraftCorrect == Spec => []DraftComplete
  <1>1. ASSUME NEW flow \in Flows
        PROVE  Allows(flow)["MENU"] = {}
    <2>1. CASE flow = "sender"
      BY <2>1 DEF Allows, SenderAllows, Sender!InForm, Sender!Declared
    <2>2. CASE flow = "courier"
      BY <2>2 DEF Allows, CourierAllows, Courier!Registering, Courier!Declared
    <2>3. CASE flow = "dispatcher"
      BY <2>3 DEF Allows, DispatcherAllows, Dispatcher!Declared
    <2>4. CASE flow = "station"
      BY <2>4 DEF Allows, StationAllows, Station!Declared
    <2>5. CASE flow = "driver"
      BY <2>5 DEF Allows, DriverAllows, Driver!Registering, Driver!Declared
    <2>6. CASE flow = "admin"
      BY <2>6 DEF Allows, Admin!Declared
    <2>7. QED BY <2>1, <2>2, <2>3, <2>4, <2>5, <2>6 DEF Flows
  <1>2. ASSUME Inv, person.here[2] = "MENU", Own(person)
        PROVE  person.ctx \cap FormKeys(person.here[1]) = {}
    <2>1. person.here[1] \in Flows
      BY <1>2, StatesOf DEF Inv, TypeOK, Person
    <2>2. QED BY <1>1, <1>2, <2>1 DEF Own
  <1>3. Inv => DraftComplete
    BY <1>2 DEF Inv, NothingMissing, TidyHere, Tidy, DraftComplete
  <1>4. QED BY <1>3, InvHolds, PTL

(* A disturbance is not a message, and no handler runs.                    *)
LEMMA DisturbanceIsSilent ==
    ASSUME Inv, Die \/ Others
    PROVE  ~IsMessage /\ person'.heard = Silent
  <1>1. PICK d : Disturbed(person, d) /\ Disturb(d)
    BY DisturbanceSteps
  <1>2. disturbances' # disturbances
    BY <1>1 DEF Disturb, Inv, TypeOK
  <1>3. person'.heard = Silent
    BY <1>1 DEF Disturb, Disturbed, Person
  <1>4. QED BY <1>2, <1>3 DEF IsMessage

(* FormsInOrder: a question in the middle of a form is only reached from   *)
(* the question before it.                                                 *)
THEOREM OrderCorrect == Spec => FormsInOrder
  <1> DEFINE A == LET from == person.here
                      to == person'.here IN
                  (IsMessage /\ from[1] = to[1] /\ from # to /\ to[2] \notin Entries(to[1]))
                     => to[2] \in Declared(from[1])[from[2]]
  <1>1. Inv /\ [Next]_vars => [A]_vars
    <2> SUFFICES ASSUME Inv, Next, IsMessage PROVE A
      OBVIOUS
    <2>1. PICK text \in Texts : Message(text)
      BY DisturbanceIsSilent DEF Next
    <2>2. InOrder(person.here, person'.here)
      BY <2>1, MessageReplies DEF Served
    <2>3. QED BY <2>2 DEF InOrder
  <1>2. QED BY <1>1, InvHolds, PTL DEF Spec, FormsInOrder

(* HandledForRole: the handler of a flow runs only for somebody who has    *)
(* the role or the station, and a courier reaches the screens of the menu  *)
(* only while approved.                                                    *)
THEOREM HandledCorrect == Spec => HandledForRole
  <1> DEFINE A == LET flow == person'.heard.flow
                      Either(P(_)) == P(person) \/ P(person') IN
                  /\ flow = "dispatcher" => Either(LAMBDA p : p.dispatcher # "none")
                  /\ flow = "station"    => Either(LAMBDA p : p.owner)
                  /\ flow = "courier"    => Either(LAMBDA p : p.role = "COURIER")
                  /\ flow = "driver"     => Either(LAMBDA p : p.role = "DRIVER")
                  /\ flow = "admin"      => Either(LAMBDA p : p.role = "ADMIN")
                  /\ (/\ flow = "courier"
                      /\ person'.here # person.here
                      /\ person'.here[2] \in Courier!Declared.MENU) => person'.approval = "approved"
  <1>1. Inv /\ [Next]_vars => [A]_vars
    <2> SUFFICES ASSUME Inv, Next PROVE A
      OBVIOUS
    <2>1. ASSUME NEW text \in Texts, Message(text) PROVE A
      <3>1. Served(person, person')
        BY <2>1, MessageReplies
      <3>2. QED BY <3>1 DEF Served, Entitled
    <2>2. CASE Die \/ Others
      <3>1. person'.heard.flow = "none"
        BY <2>2, DisturbanceIsSilent DEF Silent
      <3>2. QED BY <3>1
    <2>3. QED BY <2>1, <2>2 DEF Next
  <1>2. QED BY <1>1, InvHolds, PTL DEF Spec, HandledForRole

(* VisitIsUndone: an administrator comes back from a role with the         *)
(* approval of before the switch, and no message on Telegram loses what    *)
(* the way back needs.                                                     *)
THEOREM VisitCorrect == Spec => VisitIsUndone
  <1> DEFINE A == (IsMessage /\ Impersonating(person)) =>
                     /\ (person.role # "ADMIN" /\ person'.role = "ADMIN") => person'.approval = switched.approval
                     /\ platform = "telegram" => Impersonating(person') \/ person'.role = "ADMIN"
  <1>1. Inv /\ [Next]_vars => [A]_vars
    <2> SUFFICES ASSUME Inv, Next, IsMessage, Impersonating(person) PROVE A
      OBVIOUS
    <2>1. PICK text \in Texts : Message(text)
      BY DisturbanceIsSilent DEF Next
    <2>2. Admin!OriginalApproval(person.ctx) = switched.approval
      BY DEF Inv, Undoable
    <2>3. \/ Keeps(person, person') \/ Returns(person, person') \/ Switches(person, person')
          \/ platform # "telegram" /\ Forgets(person, person')
      BY <2>1, MessageReplies
    <2>4. CASE Keeps(person, person')
      <3>1. Impersonating(person')
        BY <2>4, SwitchKeys DEF Keeps
      <3>2. QED BY <2>4, <3>1 DEF Keeps, Stays
    <2>5. QED BY <2>2, <2>3, <2>4 DEF Returns, Switches, Forgets, Stays
  <1>2. QED BY <1>1, InvHolds, PTL DEF Spec, VisitIsUndone

(* LentIsReturned: on Telegram, nothing but a death in a menu or a         *)
(* decision about a driver makes a station that was lent be forgotten.     *)
THEOREM LentCorrect == Spec => LentIsReturned
  <1> DEFINE R == ReturnsTheAssociation({"telegram"})
  <1>1. R <=> (platform = "telegram" /\ person.dispatcher = "lent" => Lent(person.ctx))
    BY DEF ReturnsTheAssociation, Lent
  <1>2. Inv /\ [Next]_vars => [(R /\ ~R') => Replaced]_vars
    <2> SUFFICES ASSUME Inv, Next, R, ~Replaced PROVE R'
      OBVIOUS
    <2>1. R' <=> (platform' = "telegram" /\ person'.dispatcher = "lent" => Lent(person'.ctx))
      BY DEF ReturnsTheAssociation, Lent
    <2>2. ASSUME NEW text \in Texts, Message(text) PROVE R'
      <3>1. platform' = platform
        BY <2>2 DEF Message, fixed
      <3>2. SUFFICES ASSUME platform = "telegram", person'.dispatcher = "lent"
                     PROVE  Lent(person'.ctx)
        BY <2>1, <3>1
      <3>3. Replied(person, person')
        BY <2>2, <3>2, MessageReplies
      <3>4. CASE Keeps(person, person')
        BY <1>1, <3>2, <3>4, SwitchKeys DEF Keeps, Stays
      <3>5. CASE Switches(person, person')
        <4>1. ~Lent(person.ctx)
          BY <3>5, NoSwitch DEF Switches, Inv, Fine, Clean
        <4>2. QED BY <1>1, <3>2, <3>5, <4>1 DEF Switches
      <3>6. QED BY <1>1, <3>2, <3>3, <3>4, <3>5 DEF Replied, ReturnsStation, Returns
    <2>3. CASE Die \/ Others
      <3>1. PICK d : Untouched(person, d) /\ Disturb(d)
        BY <2>3, DisturbanceSteps
      <3>2. platform' = platform /\ person'.dispatcher = d.dispatcher /\ person'.ctx = d.ctx
        BY <3>1 DEF Disturb, fixed, Untouched, Disturbed, Person
      <3>3. Lent(d.ctx) <=> Lent(person.ctx)
        BY <3>1, SwitchKeys DEF Untouched
      <3>4. QED BY <1>1, <2>1, <3>1, <3>2, <3>3 DEF Untouched
    <2>4. QED BY <2>2, <2>3 DEF Next
  <1>3. QED BY <1>2, InvHolds, PTL DEF Spec, LentIsReturned
================================================================================
