---------------------------- MODULE MCCircuitBreaker ----------------------------
(* Constants for model checking CircuitBreaker with TLC. *)
EXTENDS CircuitBreaker

CONSTANTS k1, k2, k3, k4

=============================================================================
