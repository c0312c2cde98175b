------------------------------- MODULE MCWebhook -------------------------------
(* Constants for model checking Webhook with TLC. *)
EXTENDS Webhook, TLC

CONSTANTS m1, m2, r1, r2

Symmetry == Permutations(Messages) \cup Permutations(Requests)

=============================================================================
