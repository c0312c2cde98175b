------------------------------- MODULE MCDrivers -------------------------------
(* Constants for model checking Drivers with TLC. *)
EXTENDS Drivers

CONSTANTS m1, a1, route1, gps

=============================================================================
