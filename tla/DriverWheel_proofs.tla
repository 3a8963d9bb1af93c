------------------------- MODULE DriverWheel_proofs -------------------------
(***************************************************************************)
(* The driver implements the abstract wheel, for every set of requests,    *)
(* any number of registers, with or without assertions.  What has to be    *)
(* known of the state before a step is the driver's inductive invariant.   *)
(***************************************************************************)
EXTENDS DriverWheel, Drv10975_proofs

(***************************************************************************)
(* What the abstract stage is, and what the abstract variables become in a *)
(* step.                                                                   *)
(***************************************************************************)
LEMMA StageOf ==
  /\ death # "no" => Stage = "dead"
  /\ death = "no" => /\ life = "none"   => Stage = "off"
                     /\ life = "ctor"   => Stage = "starting"
                     /\ life = "ready"  => Stage = "on"
                     /\ life = "dtor"   => Stage = "stopping"
                     /\ life = "gone"   => Stage = "stopped"
                     /\ life = "failed" => Stage = "failed"
BY DEF Stage

LEMMA StageAfter ==
  /\ death' # "no" => Stage' = "dead"
  /\ death' = "no" => /\ life' = "ctor"   => Stage' = "starting"
                      /\ life' = "ready"  => Stage' = "on"
                      /\ life' = "dtor"   => Stage' = "stopping"
                      /\ life' = "gone"   => Stage' = "stopped"
                      /\ life' = "failed" => Stage' = "failed"
BY DEF Stage

LEMMA StageKept == UNCHANGED <<life, death>> => UNCHANGED Stage
BY DEF Stage

LEMMA OrderKept == UNCHANGED request => UNCHANGED OrderOf(request)
OBVIOUS

LEMMA StandstillIsZero == OrderOf(0) = W!Standstill
BY WireNineBits DEF OrderOf, W!Standstill, Level

(***************************************************************************)
(* A step that the abstract wheel does not see.                            *)
(***************************************************************************)
LEMMA Invisible ==
  UNCHANGED <<life, death, request, hwSpeed, hwDir>> => UNCHANGED W!wheelVars
BY StageKept, OrderKept DEF W!wheelVars

(***************************************************************************)
(* An exception is a failed start, the wheel being given up, or the death  *)
(* of the process, with the order of the moment obeyed or not.             *)
(***************************************************************************)
LEMMA ThrowRefines ==
  ASSUME death = "no", Throw, UNCHANGED <<request, hwDir>>,
         hwSpeed' = hwSpeed \/ hwSpeed' = Wire(request)
  PROVE  W!Next
<1>1. UNCHANGED OrderOf(request)
  BY OrderKept
<1>2. W!SpeedObeys
  BY DEF W!SpeedObeys, OrderOf
<1>3. CASE ThrowFromConstructor
  <2>1. Stage = "starting" /\ Stage' = "failed"
    BY <1>3, StageOf, StageAfter DEF ThrowFromConstructor
  <2> QED
    BY <1>1, <1>2, <2>1 DEF W!Next, W!Fail
<1>4. CASE ThrowFromCall
  <2>1. Stage = "on" /\ Stage' = "stopping"
    BY <1>4, StageOf, StageAfter DEF ThrowFromCall
  <2> QED
    BY <1>1, <1>2, <2>1 DEF W!Next, W!GiveUp
<1>5. CASE ThrowFromDestructor
  <2>1. Stage = "stopping" /\ Stage' = "dead"
    BY <1>5, StageOf, StageAfter DEF ThrowFromDestructor
  <2> QED
    BY <1>1, <1>2, <2>1 DEF W!Next, W!Die
<1> QED
  BY <1>3, <1>4, <1>5 DEF Throw

-----------------------------------------------------------------------------
(***************************************************************************)
(* The initial states of the driver are initial states of the wheel.       *)
(***************************************************************************)
LEMMA WheelInit == DriverInit => W!Init
<1> SUFFICES ASSUME DriverInit PROVE W!Init
  OBVIOUS
<1>1. Stage = "off" /\ OrderOf(request) = W!Standstill
  BY StageOf, StandstillIsZero DEF DriverInit
<1> QED
  BY <1>1 DEF DriverInit, W!Init

(***************************************************************************)
(* A transfer that the wheel does not see, or an exception.                *)
(***************************************************************************)
LEMMA SilentTransfers ==
  ASSUME Open \/ SelectSlave \/ WriteEnable \/ WriteMsb \/ ReadRegister
         \/ \E r \in Registers : Swallow(r)
  PROVE  W!Next \/ UNCHANGED W!wheelVars
<1>1. death = "no" /\ UNCHANGED <<request, hwDir, hwSpeed>>
  BY DEF Open, SelectSlave, WriteEnable, WriteMsb, ReadRegister, Swallow, About, Idle, hwVars
<1>2. Throw \/ UNCHANGED <<life, death>>
  BY DEF Open, SelectSlave, WriteEnable, WriteMsb, ReadRegister, Swallow, Continue
<1> QED
  BY <1>1, <1>2, ThrowRefines, Invisible

(***************************************************************************)
(* The direction pin becomes an output, which the wheel does not see, and  *)
(* is cleared and set when the wheel stands still.                         *)
(***************************************************************************)
LEMMA InitDirPinRefines == InitDirPin => UNCHANGED W!wheelVars
BY Invisible DEF InitDirPin, Continue

LEMMA DirPinRefines == DriverInv /\ (ClearDirPin \/ SetDirPin) => W!Next
<1> SUFFICES ASSUME DriverInv, ClearDirPin \/ SetDirPin PROVE W!Next
  OBVIOUS
<1>1. life = "ctor" /\ death = "no" /\ at \in {"pinlow", "pinhigh"}
  BY DEF DriverInv, DriverTypeOK, ObjectTypeOK, PhaseOK, ClearDirPin, SetDirPin, About
<1>2. request = 0 /\ hwSpeed = 0
  BY <1>1 DEF DriverInv, ConstructionOK
<1>3. Stage = "starting" /\ OrderOf(request) = W!Standstill
  BY <1>1, <1>2, StageOf, StandstillIsZero
<1>4. UNCHANGED Stage /\ UNCHANGED OrderOf(request)
  BY StageKept, OrderKept DEF ClearDirPin, SetDirPin, Continue
<1>5. hwDir' \in Levels /\ UNCHANGED hwSpeed
  BY DEF ClearDirPin, SetDirPin, Level, Levels
<1> QED
  BY <1>2, <1>3, <1>4, <1>5 DEF W!Next, W!TryDirection

(***************************************************************************)
(* The last configuration register makes the wheel ready.                  *)
(***************************************************************************)
LEMMA WriteConfigRefines ==
  DriverInv /\ WriteConfig => W!Next \/ UNCHANGED W!wheelVars
<1> SUFFICES ASSUME DriverInv, WriteConfig PROVE W!Next \/ UNCHANGED W!wheelVars
  OBVIOUS
<1>1. life = "ctor" /\ death = "no"
  BY DEF DriverInv, DriverTypeOK, ObjectTypeOK, PhaseOK, WriteConfig, About
<1>2. hwSpeed = 0 /\ request = 0 /\ hwDir = "high"
  BY <1>1 DEF DriverInv, ConstructionOK, WriteConfig, About
<1>3. UNCHANGED <<request, hwSpeed, hwDir>>
  BY DEF WriteConfig
<1>4. CASE Throw
  BY <1>1, <1>3, <1>4, ThrowRefines
<1>5. CASE UNCHANGED <<life, death>>
  BY <1>3, <1>5, Invisible
<1>6. CASE life' = "ready" /\ UNCHANGED death
  <2>1. Stage = "starting" /\ Stage' = "on"
    BY <1>1, <1>6, StageOf, StageAfter
  <2>2. OrderOf(request) = W!Standstill
    BY <1>2, StandstillIsZero
  <2>3. W!Settled
    BY <1>2, <2>2 DEF W!Settled, W!Standstill
  <2> QED
    BY <1>3, <2>1, <2>3, OrderKept DEF W!Next, W!Ready
<1> QED
  BY <1>4, <1>5, <1>6 DEF WriteConfig

(***************************************************************************)
(* The speed(0) of the constructor and of the destructor.                  *)
(***************************************************************************)
LEMMA ZeroSpeedRefines == DriverInv /\ ZeroSpeed => W!Next
<1> SUFFICES ASSUME DriverInv, ZeroSpeed PROVE W!Next
  OBVIOUS
<1>1. life \in {"ctor", "dtor"} /\ death = "no"
  BY DEF DriverInv, DriverTypeOK, ObjectTypeOK, PhaseOK, ZeroSpeed, About
<1>2. InRange(0)
  BY DEF InRange, Magnitude, NineBits
<1>3. UNCHANGED <<life, death>>
  BY <1>2 DEF ZeroSpeed, StartSpeed
<1>4. request' = 0 /\ hwDir' = "high" /\ UNCHANGED hwSpeed
  BY DEF ZeroSpeed, StartSpeed, DirLevel, Level
<1>5. OrderOf(request)' = W!Standstill
  BY <1>4, StandstillIsZero
<1>6. Stage \in {"starting", "stopping"} /\ UNCHANGED Stage
  BY <1>1, <1>3, StageOf, StageKept
<1> QED
  BY <1>4, <1>5, <1>6 DEF W!Next, W!OrderStandstill, W!Standstill

(***************************************************************************)
(* The low byte puts the order into effect.                                *)
(***************************************************************************)
LEMMA WriteLsbRefines == DriverInv /\ WriteLsb => W!Next
<1> SUFFICES ASSUME DriverInv, WriteLsb PROVE W!Next
  OBVIOUS
<1>1. at = "lsb" /\ death = "no" /\ UNCHANGED <<request, hwDir>>
  BY DEF WriteLsb, About
<1>2. hwMsb = mSpeedCtrl \div 256 /\ mSpeedCtrl = Wire(request) /\ mSpeedCtrl \in NineBits
  BY <1>1 DEF DriverInv, TransferOK, DriverTypeOK, ObjectTypeOK
<1>3. Latched(mSpeedCtrl % 256) = Wire(request)
  BY <1>2, SplitSpeed DEF Latched
<1>4. UNCHANGED OrderOf(request) /\ OrderOf(request).speed = Wire(request)
  BY <1>1, OrderKept DEF OrderOf
<1>5. CASE Throw
  <2>1. hwSpeed' = hwSpeed \/ hwSpeed' = Wire(request)
    BY <1>3 DEF WriteLsb
  <2> QED
    BY <1>1, <1>5, <2>1, ThrowRefines
<1>6. ASSUME hwSpeed' = Latched(mSpeedCtrl % 256), life \in {"ctor", "ready"},
             UNCHANGED <<life, death>>
      PROVE  W!Next
  <2>1. Stage \in {"starting", "on"} /\ UNCHANGED Stage
    BY <1>1, <1>6, StageOf, StageKept
  <2>2. hwSpeed' = OrderOf(request).speed
    BY <1>3, <1>4, <1>6
  <2> QED
    BY <1>1, <1>4, <2>1, <2>2 DEF W!Next, W!Obey, W!SpeedObeys
<1>7. ASSUME hwSpeed' = Latched(mSpeedCtrl % 256), life = "dtor", life' = "gone",
             UNCHANGED death
      PROVE  W!Next
  <2>1. Stage = "stopping" /\ Stage' = "stopped"
    BY <1>1, <1>7, StageOf, StageAfter
  <2>2. request = 0 /\ hwDir = Level(request >= 0)
    BY <1>1, <1>7 DEF DriverInv, TransferOK
  <2>3. OrderOf(request) = W!Standstill /\ hwDir = "high"
    BY <2>2, StandstillIsZero DEF Level
  <2>4. hwSpeed' = 0
    BY <1>3, <1>7, <2>2, WireNineBits
  <2> QED
    BY <1>1, <1>4, <2>1, <2>3, <2>4 DEF W!Next, W!Stop, W!Standstill
<1> QED
  BY <1>5, <1>6, <1>7 DEF WriteLsb, ReturnFromSpeed, Continue

(***************************************************************************)
(* A call of speed() is an order, and comes when the one before is obeyed. *)
(***************************************************************************)
LEMMA CallSpeedRefines ==
  ASSUME DriverInv, NEW s \in Requests, CallSpeed(s)
  PROVE  W!Next
<1>1. life = "ready" /\ at = "idle" /\ death = "no"
  BY DEF CallSpeed, Idle, About
<1>2. W!Settled
  BY <1>1 DEF DriverInv, IdleAgrees, W!Settled, OrderOf
<1>3. request' = s /\ hwDir' = Level(s >= 0) /\ UNCHANGED <<life, hwSpeed>>
  BY DEF CallSpeed, StartSpeed, DirLevel
<1>4. Stage = "on" /\ Stage' \in {"on", "dead"}
  BY <1>1, <1>3, StageOf, StageAfter
<1>5. OrderOf(request)' = OrderOf(s) /\ hwDir' = OrderOf(s).direction
  BY <1>3 DEF OrderOf
<1>6. W!Order(OrderOf(s))
  BY <1>2, <1>3, <1>4, <1>5 DEF W!Order
<1> QED
  BY <1>6 DEF W!Next

(***************************************************************************)
(* The other calls of a client.                                            *)
(***************************************************************************)
LEMMA OtherCallsRefine ==
  ASSUME Construct \/ Destroy \/ CallReadStatus
  PROVE  W!Next \/ UNCHANGED W!wheelVars
<1>1. UNCHANGED <<request, hwSpeed, hwDir, death>> /\ death = "no"
  BY DEF Construct, Destroy, CallReadStatus, About, Idle, hwVars
<1>2. CASE Construct
  <2>1. Stage = "off" /\ Stage' = "starting"
    BY <1>1, <1>2, StageOf, StageAfter DEF Construct
  <2> QED
    BY <1>1, <2>1, OrderKept DEF W!Next, W!SwitchOn
<1>3. CASE Destroy
  <2>1. Stage = "on" /\ Stage' = "stopping"
    BY <1>1, <1>3, StageOf, StageAfter DEF Destroy, Idle
  <2> QED
    BY <1>1, <2>1, OrderKept DEF W!Next, W!GiveUp, W!SpeedObeys
<1>4. CASE CallReadStatus
  BY <1>1, <1>4, Invisible DEF CallReadStatus
<1> QED
  BY <1>2, <1>3, <1>4

-----------------------------------------------------------------------------
(***************************************************************************)
(* Every step of the driver is a step of the wheel or none at all.         *)
(***************************************************************************)
LEMMA WheelStep ==
  DriverInv /\ [DriverNext]_driverVars => [W!Next]_(W!wheelVars)
<1> SUFFICES ASSUME DriverInv, [DriverNext]_driverVars
             PROVE  W!Next \/ UNCHANGED W!wheelVars
  OBVIOUS
<1>1. CASE DriverStep
  BY <1>1, SilentTransfers, InitDirPinRefines, DirPinRefines, WriteConfigRefines,
     ZeroSpeedRefines, WriteLsbRefines DEF DriverStep
<1>2. CASE ClientCall
  BY <1>2, SilentTransfers, OtherCallsRefine, CallSpeedRefines DEF ClientCall
<1>3. CASE Finished \/ UNCHANGED driverVars
  BY <1>3, Invisible DEF Finished, driverVars, objectVars, hwVars
<1> QED
  BY <1>1, <1>2, <1>3 DEF DriverNext

(***************************************************************************)
(* The refinement: whatever transfers fail and whatever the client calls,  *)
(* the driver behaves as the abstract wheel.                               *)
(***************************************************************************)
THEOREM DriverIsWheel == DriverSpec => ImplementsWheel
BY WheelInit, WheelStep, AlwaysInv, PTL DEF DriverSpec, ImplementsWheel, W!Spec
=============================================================================
