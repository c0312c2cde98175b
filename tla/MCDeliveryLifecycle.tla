------------------------- MODULE MCDeliveryLifecycle -------------------------
(* Instances of DeliveryLifecycle for TLC. *)
EXTENDS DeliveryLifecycle, TLC

CONSTANTS d1, d2, c1, c2, st, s1, s2, s3

(* Direct deliveries have no station; station deliveries belong to st; of  *)
(* the mixed pair, d1 is direct.                                           *)
Direct  == [d \in Deliveries |-> None]
Station == [d \in Deliveries |-> st]
Mixed   == [d \in Deliveries |-> IF d = d1 THEN None ELSE st]

(* d1 costs 2, d2 costs 4: a wallet limited to -4 pays for either of them, *)
(* one limited to -2 for d1 only, and both can be exhausted exactly.       *)
MCFee == [d \in Deliveries |-> IF d = d1 THEN 2 ELSE 4]
OneFee == [d \in Deliveries |-> 2]
Minus2 == -2
Minus3 == -3
Minus4 == -4

(* Every session serves every entry point. *)
AllEntries == [s \in Sessions |-> EntryPoints]

(* The requests that load an uncaptured delivery before they lock it are   *)
(* served one after the other by s1; the other sessions serve the routes   *)
(* that lock first and concern captured deliveries.                        *)
OneAtATime == [s \in Sessions |->
    IF s = s1 THEN EntryPoints \ {"capture"} ELSE {"deliver", "release"}]

(* Only routes that lock before they read. *)
LockFirst == [s \in Sessions |-> {"capture", "deliver", "release"}]

(* Two requests that follow a link, the race of the violation run. *)
Links == [s \in Sessions |-> {"link"}]

=============================================================================
