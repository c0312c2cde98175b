----------------------------- MODULE DispatcherFlow -----------------------------
(***************************************************************************)
(* The dispatcher's conversation (app/state_machine/dispatcher_handler.py) *)
(* and its declared transitions (DISPATCHER_TRANSITIONS of states.py).     *)
(***************************************************************************)
EXTENDS Answers

ShipmentKeys == {"pickup_city", "pickup_street", "pickup_number", "pickup_address",
                 "dropoff_city", "dropoff_street", "dropoff_number", "dropoff_apartment",
                 "dropoff_address", "description", "fee"}

ChargeKeys == {"charge_driver_name", "charge_amount", "charge_description"}

RideKeys == {"ride_origin", "ride_destination", "ride_seats", "ride_price"}

FormKeys == ShipmentKeys \cup ChargeKeys \cup RideKeys

Declared == [
    MENU                         |-> {"ADD_SHIPMENT_PICKUP_CITY", "VIEW_ACTIVE_SHIPMENTS",
                                      "VIEW_SHIPMENT_HISTORY", "MANUAL_CHARGE_DRIVER_NAME",
                                      "POST_RIDE_ORIGIN", "VIEW_POSTED_RIDES"},
    ADD_SHIPMENT_PICKUP_CITY     |-> {"ADD_SHIPMENT_PICKUP_STREET"},
    ADD_SHIPMENT_PICKUP_STREET   |-> {"ADD_SHIPMENT_PICKUP_NUMBER"},
    ADD_SHIPMENT_PICKUP_NUMBER   |-> {"ADD_SHIPMENT_DROPOFF_CITY"},
    ADD_SHIPMENT_DROPOFF_CITY    |-> {"ADD_SHIPMENT_DROPOFF_STREET"},
    ADD_SHIPMENT_DROPOFF_STREET  |-> {"ADD_SHIPMENT_DROPOFF_NUMBER"},
    ADD_SHIPMENT_DROPOFF_NUMBER  |-> {"ADD_SHIPMENT_DROPOFF_APARTMENT"},
    ADD_SHIPMENT_DROPOFF_APARTMENT |-> {"ADD_SHIPMENT_DESCRIPTION"},
    ADD_SHIPMENT_DESCRIPTION     |-> {"ADD_SHIPMENT_FEE"},
    ADD_SHIPMENT_FEE             |-> {"ADD_SHIPMENT_CONFIRM"},
    ADD_SHIPMENT_CONFIRM         |-> {"MENU"},
    VIEW_ACTIVE_SHIPMENTS        |-> {"MENU"},
    VIEW_SHIPMENT_HISTORY        |-> {"MENU"},
    MANUAL_CHARGE_DRIVER_NAME    |-> {"MANUAL_CHARGE_AMOUNT", "MENU"},
    MANUAL_CHARGE_AMOUNT         |-> {"MANUAL_CHARGE_DESCRIPTION", "MENU"},
    MANUAL_CHARGE_DESCRIPTION    |-> {"MANUAL_CHARGE_CONFIRM", "MENU"},
    MANUAL_CHARGE_CONFIRM        |-> {"MENU"},
    POST_RIDE_ORIGIN             |-> {"POST_RIDE_DESTINATION", "MENU"},
    POST_RIDE_DESTINATION        |-> {"POST_RIDE_SEATS", "MENU"},
    POST_RIDE_SEATS              |-> {"POST_RIDE_PRICE", "MENU"},
    POST_RIDE_PRICE              |-> {"POST_RIDE_CONFIRM", "MENU"},
    POST_RIDE_CONFIRM            |-> {"MENU"},
    VIEW_POSTED_RIDES            |-> {"MENU"}]

-----------------------------------------------------------------------------
(* Handlers *)

ShowMenu == {Show("MENU")}

Menu == ShowMenu \cup Screens(Declared.MENU)

(* A new shipment *)

AddShipmentPickupCity ==
    Ask("ADD_SHIPMENT_PICKUP_CITY", "ADD_SHIPMENT_PICKUP_STREET", {"pickup_city"})

AddShipmentPickupStreet ==
    AskOver("ADD_SHIPMENT_PICKUP_STREET", "ADD_SHIPMENT_PICKUP_NUMBER",
            {"pickup_street"}, {"pickup_city"})

AddShipmentPickupNumber ==
    AskOver("ADD_SHIPMENT_PICKUP_NUMBER", "ADD_SHIPMENT_DROPOFF_CITY",
            {"pickup_number", "pickup_address"}, {"pickup_city", "pickup_street"})

AddShipmentDropoffCity ==
    Ask("ADD_SHIPMENT_DROPOFF_CITY", "ADD_SHIPMENT_DROPOFF_STREET", {"dropoff_city"})

AddShipmentDropoffStreet ==
    AskOver("ADD_SHIPMENT_DROPOFF_STREET", "ADD_SHIPMENT_DROPOFF_NUMBER",
            {"dropoff_street"}, {"dropoff_city"})

AddShipmentDropoffNumber ==
    AskOver("ADD_SHIPMENT_DROPOFF_NUMBER", "ADD_SHIPMENT_DROPOFF_APARTMENT",
            {"dropoff_number"}, {"dropoff_city", "dropoff_street"})

(* Any reply is accepted; some mean that there is no apartment.            *)
AddShipmentDropoffApartment ==
    {Answer("ADD_SHIPMENT_DESCRIPTION", {"dropoff_address"} \cup apartment,
            {"dropoff_apartment"} \ apartment, "nothing",
            {"dropoff_city", "dropoff_street", "dropoff_number"}) :
        apartment \in SUBSET {"dropoff_apartment"}}

AddShipmentDescription ==
    Ask("ADD_SHIPMENT_DESCRIPTION", "ADD_SHIPMENT_FEE", {"description"})

AddShipmentFee ==
    AskOver("ADD_SHIPMENT_FEE", "ADD_SHIPMENT_CONFIRM", {"fee"},
            {"pickup_address", "dropoff_address", "description"})

AddShipmentConfirm ==
    {Show("ADD_SHIPMENT_CONFIRM"), Show("MENU"),
     Perform("MENU", "create_delivery", {"pickup_address", "dropoff_address", "description", "fee"})}

(* A manual charge *)

ManualChargeName ==
    ShowMenu \cup Ask("MANUAL_CHARGE_DRIVER_NAME", "MANUAL_CHARGE_AMOUNT", {"charge_driver_name"})

ManualChargeAmount ==
    ShowMenu \cup Ask("MANUAL_CHARGE_AMOUNT", "MANUAL_CHARGE_DESCRIPTION", {"charge_amount"})

ManualChargeDescription ==
    ShowMenu \cup
    {Answer("MANUAL_CHARGE_CONFIRM", {"charge_description"}, {}, "nothing",
            {"charge_driver_name", "charge_amount"})}

ManualChargeConfirm ==
    {Show("MANUAL_CHARGE_CONFIRM"), Show("MENU"), Perform("MENU", "create_manual_charge", ChargeKeys)}

(* A ride *)

PostRideOrigin ==
    ShowMenu \cup Ask("POST_RIDE_ORIGIN", "POST_RIDE_DESTINATION", {"ride_origin"})

PostRideDestination ==
    ShowMenu \cup AskOver("POST_RIDE_DESTINATION", "POST_RIDE_SEATS", {"ride_destination"},
                          {"ride_origin"})

PostRideSeats ==
    ShowMenu \cup Ask("POST_RIDE_SEATS", "POST_RIDE_PRICE", {"ride_seats"})

PostRidePrice ==
    ShowMenu \cup AskOver("POST_RIDE_PRICE", "POST_RIDE_CONFIRM", {"ride_price"},
                          {"ride_origin", "ride_destination", "ride_seats"})

PostRideConfirm ==
    {Show("POST_RIDE_CONFIRM"), Show("MENU"), Perform("MENU", "create_dispatcher_ride", RideKeys)}

(* Views *)

ViewActive == ShowMenu \cup {Show("VIEW_ACTIVE_SHIPMENTS")}

ViewHistory == ShowMenu \cup {Show("VIEW_SHIPMENT_HISTORY")}

ViewPostedRides ==
    ShowMenu \cup {Show("VIEW_POSTED_RIDES"), Perform("VIEW_POSTED_RIDES", "cancel_dispatcher_ride", {})}

(* _get_handler *)
Handlers == [
    MENU                         |-> Menu,
    ADD_SHIPMENT_PICKUP_CITY     |-> AddShipmentPickupCity,
    ADD_SHIPMENT_PICKUP_STREET   |-> AddShipmentPickupStreet,
    ADD_SHIPMENT_PICKUP_NUMBER   |-> AddShipmentPickupNumber,
    ADD_SHIPMENT_DROPOFF_CITY    |-> AddShipmentDropoffCity,
    ADD_SHIPMENT_DROPOFF_STREET  |-> AddShipmentDropoffStreet,
    ADD_SHIPMENT_DROPOFF_NUMBER  |-> AddShipmentDropoffNumber,
    ADD_SHIPMENT_DROPOFF_APARTMENT |-> AddShipmentDropoffApartment,
    ADD_SHIPMENT_DESCRIPTION     |-> AddShipmentDescription,
    ADD_SHIPMENT_FEE             |-> AddShipmentFee,
    ADD_SHIPMENT_CONFIRM         |-> AddShipmentConfirm,
    VIEW_ACTIVE_SHIPMENTS        |-> ViewActive,
    VIEW_SHIPMENT_HISTORY        |-> ViewHistory,
    MANUAL_CHARGE_DRIVER_NAME    |-> ManualChargeName,
    MANUAL_CHARGE_AMOUNT         |-> ManualChargeAmount,
    MANUAL_CHARGE_DESCRIPTION    |-> ManualChargeDescription,
    MANUAL_CHARGE_CONFIRM        |-> ManualChargeConfirm,
    POST_RIDE_ORIGIN             |-> PostRideOrigin,
    POST_RIDE_DESTINATION        |-> PostRideDestination,
    POST_RIDE_SEATS              |-> PostRideSeats,
    POST_RIDE_PRICE              |-> PostRidePrice,
    POST_RIDE_CONFIRM            |-> PostRideConfirm,
    VIEW_POSTED_RIDES            |-> ViewPostedRides]

Views == {"VIEW_ACTIVE_SHIPMENTS", "VIEW_SHIPMENT_HISTORY", "VIEW_POSTED_RIDES"}

(* Fault: the confirmation of a ride is not known as part of its form. *)
InFormButRide(here) == here \in DOMAIN Handlers \ (Views \cup {"MENU", "POST_RIDE_CONFIRM"})

(* _is_known_multi_step_flow_state *)
InForm(here) == here \in DOMAIN Handlers \ (Views \cup {"MENU"})

-----------------------------------------------------------------------------
(* handle_message *)

(* A form that ends leaves nothing behind.                                 *)
Handled(here, ctx) ==
    {IF answer.to = "MENU" /\ InForm(here)
     THEN Outcome(answer, ctx, ctx \ (FormKeys \cup {"pending_menu_action"}))
     ELSE Merged(answer, ctx) : answer \in Handlers[here]}

(* A menu button pressed in a form asks whether to leave the form.         *)
AskToLeave(here, ctx) ==
    {Outcome(Show(here), ctx, ctx \cup {"pending_menu_action"})}

(* The answers to that question: yes, and the menu handles the button; no; *)
(* or the reply the form was waiting for.                                  *)
Leave(ctx) ==
    {Outcome(screen, ctx, ctx \ (FormKeys \cup {"pending_menu_action"})) :
        screen \in Screens(Declared.MENU)}

Stay(here, ctx) == {Outcome(Show(here), ctx, ctx)}

HandleMessage(here, ctx) ==
    LET asked == InForm(here) /\ "pending_menu_action" \in ctx
        resumed == IF asked THEN ctx \ {"pending_menu_action"} ELSE ctx IN
    UNION {Handled(here, resumed),
           IF asked THEN Leave(ctx) \cup Stay(here, resumed) ELSE {},
           IF InForm(here) THEN AskToLeave(here, ctx) ELSE {}}
================================================================================
