------------------------------- MODULE MCOutbox -------------------------------
(* Constants for model checking Outbox with TLC. *)
EXTENDS Outbox, TLC

CONSTANTS direct, broadcast, r1, r2, w1, w2, a1, a2

(* A direct message and a broadcast that reaches its recipient as well. *)
MCAudience == [p \in Payloads |-> IF p = direct THEN {r1} ELSE Recipients]

WorkerSymmetry == Permutations(Workers)

=============================================================================
