-------------------------------- MODULE Handlers --------------------------------
(***************************************************************************)
(* The handlers of the flows (get_handler and handle_message of            *)
(* app/state_machine/), for a person in a conversation: see Dialogue.      *)
(***************************************************************************)
EXTENDS Answers

Sender     == INSTANCE SenderFlow
Courier    == INSTANCE CourierFlow
Dispatcher == INSTANCE DispatcherFlow
Station    == INSTANCE StationOwnerFlow
Driver     == INSTANCE DriverFlow

(* A courier who fills in the form of the registration.                    *)
RegisteringAsCourier(p) ==
    /\ p.role = "COURIER" /\ p.here[1] = "courier"
    /\ p.here[2] # "PENDING_APPROVAL" /\ Courier!Registering(p.here[2])

Step(p, flow) == IF p.here[1] = flow THEN p.here[2] ELSE "ELSEWHERE"

(* The outcomes of a flow's handler for a message it has not been spared.  *)
Outcomes(p, flow) ==
    CASE flow = "sender"     -> Sender!HandleMessage(Step(p, flow), p.ctx, p)
      [] flow = "courier"    -> Courier!HandleMessage(Step(p, flow), p.ctx, p)
      [] flow = "dispatcher" -> Dispatcher!HandleMessage(Step(p, flow), p.ctx)
      [] flow = "station"    -> Station!HandleMessage(Step(p, flow), p.ctx)
      [] flow = "driver"     -> Driver!HandleMessage(Step(p, flow), p.ctx, p)

(* The same in the state force_state has just set: an initial state, where *)
(* the text does not matter, or a menu, with the word "menu" for a text.   *)
MenuScreens(p, flow) ==
    CASE flow = "courier" -> IF p.here[2] = "INITIAL" THEN Courier!Initial(p) ELSE Courier!BackToMenu(p)
      [] flow = "driver"  -> Driver!Initial(p)
      [] OTHER            -> {Show("MENU")}
================================================================================
