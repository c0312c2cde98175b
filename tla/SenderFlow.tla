------------------------------- MODULE SenderFlow -------------------------------
(***************************************************************************)
(* The sender's conversation (SenderStateHandler in                        *)
(* app/state_machine/handlers.py) and its declared transitions             *)
(* (SENDER_TRANSITIONS of states.py).  Nothing leads to NEW, which is left  *)
(* out, or to VIEW_DELIVERIES.                                             *)
(***************************************************************************)
EXTENDS Answers

(* _DELIVERY_CONTEXT_KEYS *)
DeliveryKeys == {"pickup_city", "pickup_street", "pickup_number", "pickup_apartment",
                 "pickup_address", "dropoff_city", "dropoff_street", "dropoff_number",
                 "dropoff_apartment", "dropoff_address", "delivery_location", "same_city",
                 "urgency", "delivery_time", "min_price", "customer_price", "description"}

Declared == [
    INITIAL                |-> {"REGISTER_COLLECT_NAME", "MENU"},
    REGISTER_COLLECT_NAME  |-> {"REGISTER_COLLECT_PHONE", "MENU"},
    REGISTER_COLLECT_PHONE |-> {"MENU"},
    MENU                   |-> {"PICKUP_CITY", "VIEW_DELIVERIES"},
    PICKUP_CITY            |-> {"PICKUP_STREET"},
    PICKUP_STREET          |-> {"PICKUP_NUMBER"},
    PICKUP_NUMBER          |-> {"PICKUP_APARTMENT"},
    PICKUP_APARTMENT       |-> {"DELIVERY_LOCATION"},
    DELIVERY_LOCATION      |-> {"DROPOFF_CITY", "DROPOFF_STREET"},
    DROPOFF_CITY           |-> {"DROPOFF_STREET"},
    DROPOFF_STREET         |-> {"DROPOFF_NUMBER"},
    DROPOFF_NUMBER         |-> {"DROPOFF_APARTMENT"},
    DROPOFF_APARTMENT      |-> {"DELIVERY_URGENCY", "MENU"},
    DELIVERY_URGENCY       |-> {"DELIVERY_TIME", "DELIVERY_DESCRIPTION"},
    DELIVERY_TIME          |-> {"DELIVERY_PRICE"},
    DELIVERY_PRICE         |-> {"DELIVERY_DESCRIPTION"},
    DELIVERY_DESCRIPTION   |-> {"DELIVERY_CONFIRM"},
    DELIVERY_CONFIRM       |-> {"MENU"},
    VIEW_DELIVERIES        |-> {"MENU"}]

(* _is_delivery_flow_state *)
InForm(here) ==
    here \in DOMAIN Declared \ {"INITIAL", "REGISTER_COLLECT_NAME",
                                "REGISTER_COLLECT_PHONE", "MENU", "VIEW_DELIVERIES"}

-----------------------------------------------------------------------------
(* Registration *)

Initial(user) == {Show(IF user.named THEN "MENU" ELSE "REGISTER_COLLECT_NAME")}

(* A telephone number is asked of those who have none yet.                 *)
CollectName(user) ==
    {Show("REGISTER_COLLECT_NAME"),
     Answer(IF user.phoned THEN "MENU" ELSE "REGISTER_COLLECT_PHONE", {"name"}, {}, "set_name", {})}

(* An invalid number, or one another user has, is asked for again.         *)
CollectPhone ==
    {Show("REGISTER_COLLECT_PHONE"), Answer("MENU", {"name"}, {}, "set_phone", {"name"})}

Menu == {Show("MENU"), Show("PICKUP_CITY")}

-----------------------------------------------------------------------------
(* The delivery form *)

PickupCity == Ask("PICKUP_CITY", "PICKUP_STREET", {"pickup_city"})

PickupStreet == AskOver("PICKUP_STREET", "PICKUP_NUMBER", {"pickup_street"}, {"pickup_city"})

(* Fault: the reply is not kept. *)
PickupNumberForgotten ==
    AskOver("PICKUP_NUMBER", "PICKUP_APARTMENT", {}, {"pickup_city", "pickup_street"})

PickupNumber ==
    AskOver("PICKUP_NUMBER", "PICKUP_APARTMENT", {"pickup_number"}, {"pickup_city", "pickup_street"})

PickupApartment ==
    {Answer("DELIVERY_LOCATION", {"pickup_apartment", "pickup_address"}, {}, "nothing",
            {"pickup_city", "pickup_street", "pickup_number"})}

(* Within the city, the city of the destination is that of the pickup.     *)
DeliveryLocation ==
    {Show("DELIVERY_LOCATION"),
     Fill("DROPOFF_CITY", {"delivery_location"}),
     Answer("DROPOFF_STREET", {"delivery_location", "dropoff_city"}, {}, "nothing", {"pickup_city"})}

(* Fault: a question is skipped. *)
DropoffCityOnly == Ask("DROPOFF_CITY", "DROPOFF_NUMBER", {"dropoff_city"})

DropoffCity == Ask("DROPOFF_CITY", "DROPOFF_STREET", {"dropoff_city"})

DropoffStreet == AskOver("DROPOFF_STREET", "DROPOFF_NUMBER", {"dropoff_street"}, {"dropoff_city"})

DropoffNumber ==
    AskOver("DROPOFF_NUMBER", "DROPOFF_APARTMENT", {"dropoff_number"},
            {"dropoff_city", "dropoff_street"})

DropoffApartment ==
    {Answer("DELIVERY_URGENCY", {"dropoff_apartment", "dropoff_address", "same_city"}, {}, "nothing",
            {"dropoff_street", "dropoff_number", "dropoff_city", "pickup_city", "delivery_location"})}

DeliveryUrgency ==
    {Show("DELIVERY_URGENCY"),
     Fill("DELIVERY_DESCRIPTION", {"urgency", "delivery_time"}),
     Fill("DELIVERY_TIME", {"urgency"})}

DeliveryTime ==
    AskOver("DELIVERY_TIME", "DELIVERY_PRICE", {"delivery_time", "min_price"}, {"delivery_location"})

DeliveryPrice ==
    AskOver("DELIVERY_PRICE", "DELIVERY_DESCRIPTION", {"customer_price"}, {"min_price"})

DeliveryDescription ==
    AskOver("DELIVERY_DESCRIPTION", "DELIVERY_CONFIRM", {"description"},
            {"pickup_address", "dropoff_address", "delivery_location", "urgency", "delivery_time"})

(* "yes" tells the sender that the delivery was created; nothing is.       *)
Confirm ==
    {Show("DELIVERY_CONFIRM"), Show("MENU"),
     Perform("MENU", "announce_delivery",
             {"pickup_address", "dropoff_address", "description", "urgency", "delivery_time"})}

(* _get_handler *)
Handlers(user) == [
    INITIAL                |-> Initial(user),
    REGISTER_COLLECT_NAME  |-> CollectName(user),
    REGISTER_COLLECT_PHONE |-> CollectPhone,
    MENU                   |-> Menu,
    PICKUP_CITY            |-> PickupCity,
    PICKUP_STREET          |-> PickupStreet,
    PICKUP_NUMBER          |-> PickupNumber,
    PICKUP_APARTMENT       |-> PickupApartment,
    DROPOFF_CITY           |-> DropoffCity,
    DROPOFF_STREET         |-> DropoffStreet,
    DROPOFF_NUMBER         |-> DropoffNumber,
    DROPOFF_APARTMENT      |-> DropoffApartment,
    DELIVERY_LOCATION      |-> DeliveryLocation,
    DELIVERY_URGENCY       |-> DeliveryUrgency,
    DELIVERY_TIME          |-> DeliveryTime,
    DELIVERY_PRICE         |-> DeliveryPrice,
    DELIVERY_DESCRIPTION   |-> DeliveryDescription,
    DELIVERY_CONFIRM       |-> Confirm]

(* _handle_unknown *)
Unknown == {Show("MENU")}

-----------------------------------------------------------------------------
(* handle_message: a menu button abandons the form, and the menu never     *)
(* keeps anything of it.                                                   *)
Abandon(ctx) == {Outcome(Show("MENU"), ctx, ctx \ DeliveryKeys)}

HandleMessage(here, ctx, user) ==
    LET answers == IF here \in DOMAIN Handlers(user) THEN Handlers(user)[here] ELSE Unknown IN
    (IF InForm(here) THEN Abandon(ctx) ELSE {}) \cup
    {IF InForm(here) /\ answer.to = "MENU"
     THEN Outcome(answer, ctx, ctx \ DeliveryKeys)
     ELSE Merged(answer, ctx) : answer \in answers}
================================================================================
