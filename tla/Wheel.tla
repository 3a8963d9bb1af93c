------------------------------- MODULE Wheel -------------------------------
(***************************************************************************)
(* What the driver object promises whoever commands the wheel, without     *)
(* registers, pins and transfers: orders are obeyed one after the other,   *)
(* the wheel never runs at a speed that is not the one ordered last, and   *)
(* it stands still once it has been given up.  Its direction is never one  *)
(* that was not ordered, but for a start, and then only while the wheel    *)
(* stands still.  Only a process that dies leaves it running.              *)
(***************************************************************************)
CONSTANTS
  Orders,    \* records of a speed and a direction that may be ordered
  Leftover,  \* speeds at which an earlier process may have left the wheel
  Levels     \* the directions

VARIABLES
  stage,     \* "off", "starting", "on", "stopping", "stopped", "failed" or "dead"
  order,     \* what was ordered last
  speed,     \* what the wheel does
  direction

wheelVars == <<stage, order, speed, direction>>

Standstill == [speed |-> 0, direction |-> "high"]

\* The wheel does what was ordered.
Settled == speed = order.speed /\ direction = order.direction

Init ==
  /\ stage = "off" /\ order = Standstill
  /\ speed \in Leftover /\ direction \in Levels

\* The new speed, if there is one, is the one ordered.
SpeedObeys == speed' \in {speed, order.speed}

SwitchOn ==
  /\ stage = "off" /\ stage' = "starting"
  /\ UNCHANGED <<order, speed, direction>>

\* Speed and direction follow the order, together or one by one.
Obey ==
  /\ stage \in {"starting", "on"}
  /\ SpeedObeys /\ direction' \in {direction, order.direction}
  /\ UNCHANGED <<stage, order>>

\* A start may switch the direction to and fro once the wheel stands still.
TryDirection ==
  /\ stage = "starting" /\ order = Standstill /\ speed = 0
  /\ direction' \in Levels
  /\ UNCHANGED <<stage, order, speed>>

Ready ==
  /\ stage = "starting" /\ Settled /\ stage' = "on"
  /\ UNCHANGED <<order, speed, direction>>

\* An order is given when the one before has been obeyed, and the direction
\* changes at once; an order that cannot be obeyed may kill the process.
Order(o) ==
  /\ stage = "on" /\ Settled /\ stage' \in {"on", "dead"}
  /\ order' = o /\ direction' = o.direction
  /\ UNCHANGED speed

\* The wheel is given up, perhaps with an order that has not been obeyed, or
\* has been obeyed at the last moment.
GiveUp ==
  /\ stage = "on" /\ stage' = "stopping"
  /\ SpeedObeys
  /\ UNCHANGED <<order, direction>>

\* The start and the end order a standstill themselves.
OrderStandstill ==
  /\ stage \in {"starting", "stopping"}
  /\ order' = Standstill /\ direction' = Standstill.direction
  /\ UNCHANGED <<stage, speed>>

Stop ==
  /\ stage = "stopping" /\ order = Standstill /\ direction = Standstill.direction
  /\ stage' = "stopped" /\ speed' = 0
  /\ UNCHANGED <<order, direction>>

Fail ==
  /\ stage = "starting" /\ stage' = "failed"
  /\ SpeedObeys
  /\ UNCHANGED <<order, direction>>

Die ==
  /\ stage # "dead" /\ stage' = "dead"
  /\ speed' = speed \/ (stage = "stopping" /\ SpeedObeys)
  /\ UNCHANGED <<order, direction>>

Next ==
  \/ SwitchOn \/ Obey \/ TryDirection \/ Ready \/ GiveUp \/ OrderStandstill \/ Stop \/ Fail \/ Die
  \/ \E o \in Orders : Order(o)

Spec == Init /\ [][Next]_wheelVars

(***************************************************************************)
(* Orders are obeyed, a start succeeds or fails, and a wheel that has been *)
(* given up comes to stand still, unless the process dies first.           *)
(***************************************************************************)
Progress ==
  /\ (stage = "on" /\ ~Settled) ~> (Settled \/ stage # "on")
  /\ stage = "starting" ~> stage # "starting"
  /\ stage = "stopping" ~> stage \in {"stopped", "dead"}
=============================================================================
