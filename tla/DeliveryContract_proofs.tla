------------------------ MODULE DeliveryContract_proofs ------------------------
(***************************************************************************)
(* Theorems about the contract, for any deliveries, couriers and stations. *)
(***************************************************************************)
EXTENDS DeliveryContract, TLAPS

Statuses == {"OPEN", "PENDING_APPROVAL", "CAPTURED", "DELIVERED", "CANCELLED"}

Held(d) == status[d] \in {"CAPTURED", "DELIVERED"}

(* Exactly the holders of captured and delivered deliveries have paid.     *)
HoldersPay ==
    charged = {cd \in Couriers \X Deliveries : Held(cd[2]) /\ holder[cd[2]] = cd[1]}

(* One payment for a delivery at most.                                     *)
OnePays == \A c1, c2 \in Couriers, d \in Deliveries :
               <<c1, d>> \in charged /\ <<c2, d>> \in charged => c1 = c2

(* With what is known of the functions.                                   *)
Inv ==
    /\ status \in [Deliveries -> Statuses]
    /\ wanted \in [Deliveries -> Couriers \cup {None}]
    /\ holder \in [Deliveries -> Couriers \cup {None}]
    /\ \A d \in Deliveries : Held(d) => holder[d] \in Couriers
    /\ HoldersPay

LEMMA InvStep == Inv /\ [Next]_vars => Inv'
  <1> SUFFICES ASSUME Inv, [Next]_vars PROVE Inv'
    OBVIOUS
  <1>1. CASE UNCHANGED vars BY <1>1 DEF vars, Inv, HoldersPay, Held
  <1>2. ASSUME NEW d \in Deliveries, NEW c \in Couriers, Ask(d, c) PROVE Inv'
    BY <1>2 DEF Ask, Move, Inv, HoldersPay, Held, Statuses
  <1>3. ASSUME NEW d \in Deliveries, NEW c \in Couriers, Take(d, c) PROVE Inv'
    <2>1. \A cd \in Couriers \X Deliveries : cd \in charged => cd[2] # d
      BY <1>3 DEF Take, Move, Inv, HoldersPay, Held
    <2>2. \A cd \in Couriers \X Deliveries : cd[2] = d /\ cd[1] = c => cd = <<c, d>>
      OBVIOUS
    <2>3. HoldersPay'
      BY <1>3, <2>1, <2>2 DEF Take, Move, Inv, HoldersPay, Held
    <2>4. QED BY <1>3, <2>3 DEF Take, Move, Inv, Held, Statuses
  <1>4. ASSUME NEW d \in Deliveries, Return(d) PROVE Inv'
    <2>1. \A cd \in Couriers \X Deliveries : cd[2] = d /\ cd[1] = holder[d] => cd = <<holder[d], d>>
      OBVIOUS
    <2>2. HoldersPay' BY <1>4, <2>1 DEF Return, Move, Inv, HoldersPay, Held
    <2>3. QED BY <1>4, <2>2 DEF Return, Move, Inv, Held, Statuses
  <1>5. ASSUME NEW d \in Deliveries, Deny(d) \/ Complete(d) \/ Withdraw(d) PROVE Inv'
    BY <1>5 DEF Deny, Complete, Withdraw, Move, Inv, HoldersPay, Held, Statuses
  <1>6. QED BY <1>1, <1>2, <1>3, <1>4, <1>5 DEF Next

LEMMA InvInit == Init => Inv
  BY DEF Init, Inv, HoldersPay, Held, Statuses

(* Taking and paying are one step, so payment and possession agree for     *)
(* ever.                                                                   *)
THEOREM HoldersPayCorrect == Spec => []HoldersPay
  <1>1. Inv => HoldersPay BY DEF Inv
  <1>2. QED BY <1>1, InvInit, InvStep, PTL DEF Spec

(* Two couriers never both pay.                                            *)
THEOREM OnePaysCorrect == Spec => []OnePays
  <1>1. HoldersPay => OnePays BY DEF HoldersPay, OnePays
  <1>2. QED BY <1>1, HoldersPayCorrect, PTL

=============================================================================
