----------------------------- MODULE MCDrv10975 -----------------------------
(***************************************************************************)
(* Model values for checking the motor driver alone, under its most        *)
(* general client.  The requests differ in their high bit and in their low *)
(* byte, and include both ends of the range, one past it and the short     *)
(* that negation maps to itself.                                           *)
(***************************************************************************)
EXTENDS DriverWheel

MCRequests == {-32768, -511, -50, 0, 50, 300, 512}
MCLeftover == {0, 50, 300}
=============================================================================
