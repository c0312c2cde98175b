--------------------------- MODULE DeliveryContract ---------------------------
(***************************************************************************)
(* What the capture flow promises its users, one atomic step at a time: a  *)
(* delivery moves from open to captured to delivered, a station's delivery *)
(* through its dispatcher's approval of the courier who asked for it, and  *)
(* a courier pays exactly when he takes a delivery and gets his money back *)
(* exactly when he returns it.  ARCHITECTURE.md 64-72 and 135-157 and the  *)
(* docstrings of the three services describe this machine.                 *)
(***************************************************************************)
CONSTANTS Deliveries, Couriers, StationOf, None

VARIABLES
    status,   \* of each delivery
    wanted,   \* the courier whose request waits for the dispatcher
    holder,   \* the courier who has the delivery
    charged   \* <<courier, delivery>> pairs paid and not refunded

vars == <<status, wanted, holder, charged>>

Init ==
    /\ status = [d \in Deliveries |-> "OPEN"]
    /\ wanted = [d \in Deliveries |-> None]
    /\ holder = [d \in Deliveries |-> None]
    /\ charged = {}

Move(d, from, to) ==
    /\ status[d] = from
    /\ status' = [status EXCEPT ![d] = to]

Ask(d, c) ==
    /\ StationOf[d] # None
    /\ Move(d, "OPEN", "PENDING_APPROVAL")
    /\ wanted' = [wanted EXCEPT ![d] = c]
    /\ UNCHANGED <<holder, charged>>

Deny(d) ==
    /\ Move(d, "PENDING_APPROVAL", "OPEN")
    /\ wanted' = [wanted EXCEPT ![d] = None]
    /\ UNCHANGED <<holder, charged>>

(* Taking a delivery and paying for it are one step. *)
Take(d, c) ==
    /\ \/ StationOf[d] = None /\ Move(d, "OPEN", "CAPTURED")
       \/ wanted[d] = c /\ Move(d, "PENDING_APPROVAL", "CAPTURED")
    /\ wanted' = [wanted EXCEPT ![d] = None]
    /\ holder' = [holder EXCEPT ![d] = c]
    /\ charged' = charged \cup {<<c, d>>}

(* So are returning it and the refund. *)
Return(d) ==
    /\ Move(d, "CAPTURED", "OPEN")
    /\ holder' = [holder EXCEPT ![d] = None]
    /\ charged' = charged \ {<<holder[d], d>>}
    /\ UNCHANGED wanted

Complete(d) ==
    /\ Move(d, "CAPTURED", "DELIVERED")
    /\ UNCHANGED <<wanted, holder, charged>>

Withdraw(d) ==
    /\ \E from \in {"OPEN", "PENDING_APPROVAL"} : Move(d, from, "CANCELLED")
    /\ wanted' = [wanted EXCEPT ![d] = None]
    /\ UNCHANGED <<holder, charged>>

Next ==
    \E d \in Deliveries :
        \/ Deny(d) \/ Return(d) \/ Complete(d) \/ Withdraw(d)
        \/ \E c \in Couriers : Ask(d, c) \/ Take(d, c)

Spec == Init /\ [][Next]_vars

=============================================================================
