----------------------------- MODULE DriverWheel -----------------------------
(***************************************************************************)
(* The driver of Drv10975 implements the Wheel: what each transfer does    *)
(* and what its failure leaves behind never shows as anything but an order *)
(* obeyed, given up, or cut short by the death of the process.             *)
(***************************************************************************)
EXTENDS Drv10975

\* A request as an order: its speed on the wire and its direction.
OrderOf(s) == [speed |-> Wire(s), direction |-> Level(s >= 0)]

\* The stage that the life of the object and the death of its process make.
Stage ==
  CASE death # "no"                     -> "dead"
    [] death = "no" /\ life = "none"   -> "off"
    [] death = "no" /\ life = "ctor"   -> "starting"
    [] death = "no" /\ life = "ready"  -> "on"
    [] death = "no" /\ life = "dtor"   -> "stopping"
    [] death = "no" /\ life = "gone"   -> "stopped"
    [] death = "no" /\ life = "failed" -> "failed"

W == INSTANCE Wheel WITH
       Orders <- {OrderOf(s) : s \in Requests},
       stage <- Stage, order <- OrderOf(request), speed <- hwSpeed, direction <- hwDir

\* Once an operation has been called its transfers are made; a transfer
\* returns or fails.
FairDriverSpec == DriverSpec /\ WF_driverVars(DriverStep)

(***************************************************************************)
(* Every behaviour of the driver, under any client and with any transfer   *)
(* failing, is one of the abstract wheel: no order is skipped or mixed     *)
(* with another, the direction pin, which the constructor clears and sets  *)
(* again (drv10975.cpp:74), is switched against the order only when the    *)
(* chip has been sent speed zero, and the wheel is stopped when the        *)
(* destructor has run.                                                     *)
(***************************************************************************)
ImplementsWheel == W!Spec

(***************************************************************************)
(* A speed() call is obeyed or the driver is given up; construction and    *)
(* destruction come to an end.                                             *)
(***************************************************************************)
WheelGoesOn == W!Progress
=============================================================================
