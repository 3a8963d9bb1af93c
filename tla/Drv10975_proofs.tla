--------------------------- MODULE Drv10975_proofs ---------------------------
(***************************************************************************)
(* Proofs about the motor driver, for any set of requests, any leftover    *)
(* state of the chip, any number of registers, with or without assertions. *)
(***************************************************************************)
EXTENDS Drv10975, TLAPS

(***************************************************************************)
(* The inductive invariant: which accesses belong to which phase of the    *)
(* object's life, and what is known about the chip before each of them.    *)
(***************************************************************************)
PhaseOK ==
  /\ life = "none"  => at = "idle" /\ ~fd
  /\ life = "ctor"  => at \in {"open", "slave", "enable", "zero", "msb", "lsb", "pinmode",
                           "pinlow", "pinhigh", "config"}
  /\ life = "ready" => at \in {"idle", "msb", "lsb", "read"}
  /\ life = "dtor"  => at \in {"zero", "msb", "lsb"}
  /\ life \in {"gone", "failed"} => at = "idle" /\ ~fd

\* Between the start of a speed() call and its last transfer.
TransferOK ==
  /\ at \in {"msb", "lsb"} => /\ mSpeedCtrl = Wire(request)
                              /\ hwDir = Level(request >= 0)
                              /\ life \in {"ctor", "dtor"} => request = 0
  /\ at = "lsb" => hwMsb = mSpeedCtrl \div 256

\* The rest of the constructor, after its speed(0).
ConstructionOK ==
  /\ life = "ctor" /\ at \in {"pinmode", "pinlow", "pinhigh", "config"} =>
       hwSpeed = 0 /\ mSpeedCtrl = 0 /\ request = 0
  /\ life = "ctor" /\ at \in {"pinlow", "pinhigh", "config"} => hwDirOut
  /\ life = "ctor" /\ at = "config" =>
       /\ hwDir = "high"
       /\ step < ConfigWrites
       /\ \A r \in Registers : r <= step => hwConfig[r] # "leftover"

ReadyOK == life = "ready" => hwDirOut

DriverInv ==
  /\ DriverTypeOK /\ PhaseOK /\ TransferOK /\ ConstructionOK /\ ReadyOK
  /\ IdleAgrees /\ StoppedWhenGone /\ FullyConfigured

-----------------------------------------------------------------------------
(***************************************************************************)
(* Nine bits split into the bit and the byte of the two speed registers,   *)
(* and joined again by the chip, are the number they were.                 *)
(***************************************************************************)
LEMMA SplitSpeed ==
  ASSUME NEW n \in NineBits
  PROVE  /\ n \div 256 \in {0, 1}
         /\ n % 256 \in 0 .. 255
         /\ ((n \div 256) * 256) + (n % 256) = n
BY DEF NineBits

(***************************************************************************)
(* What speed(short) puts on the wire is a nine-bit number, zero for zero. *)
(***************************************************************************)
LEMMA WireNineBits ==
  /\ \A s \in Short : Wire(s) \in NineBits
  /\ Wire(0) = 0
<1>1. ASSUME NEW m \in Int
      PROVE  m % 512 \in NineBits
  BY DEF NineBits
<1>2. ASSUME NEW s \in Short
      PROVE  Magnitude(s) \in Int
  BY DEF Magnitude, Short
<1>3. Magnitude(0) = 0
  BY DEF Magnitude
<1>4. 0 % 512 = 0
  OBVIOUS
<1> QED
  BY <1>1, <1>2, <1>3, <1>4 DEF Wire

(***************************************************************************)
(* The initial states satisfy the inductive invariant.                     *)
(***************************************************************************)
LEMMA InitInv == DriverInit => DriverInv
<1> SUFFICES ASSUME DriverInit PROVE DriverInv
  OBVIOUS
<1>1. DriverTypeOK
  <2>1. hwSpeed \in NineBits
    <3>1. Leftover \subseteq NineBits
      BY DriverAssumption DEF DriverAssumption
    <3> QED
      BY <3>1 DEF DriverInit
  <2>2. mSpeedCtrl \in NineBits /\ request \in Short
    BY DEF DriverInit, NineBits, Short
  <2>3. hwConfig \in [Registers -> {"leftover", "default", "user"}]
    BY DEF DriverInit
  <2> QED
    BY <2>1, <2>2, <2>3 DEF DriverInit, DriverTypeOK, ObjectTypeOK, ChipTypeOK, Steps, Levels
<1>2. PhaseOK /\ TransferOK /\ ConstructionOK /\ ReadyOK
  BY DEF DriverInit, PhaseOK, TransferOK, ConstructionOK, ReadyOK
<1>3. IdleAgrees /\ StoppedWhenGone /\ FullyConfigured
  BY DEF DriverInit, IdleAgrees, StoppedWhenGone, FullyConfigured
<1> QED
  BY <1>1, <1>2, <1>3 DEF DriverInv

(***************************************************************************)
(* An exception leaves the driver's variables within their types.          *)
(***************************************************************************)
LEMMA ThrowTypes ==
  ObjectTypeOK /\ Throw /\ UNCHANGED <<step, mSpeedCtrl, request>> => ObjectTypeOK'
<1> SUFFICES ASSUME ObjectTypeOK, Throw, UNCHANGED <<step, mSpeedCtrl, request>>
             PROVE  ObjectTypeOK'
  OBVIOUS
<1> USE DEF ObjectTypeOK, Steps
<1>1. CASE ThrowFromConstructor
  BY <1>1 DEF ThrowFromConstructor
<1>2. CASE ThrowFromCall
  BY <1>2 DEF ThrowFromCall
<1>3. CASE ThrowFromDestructor
  BY <1>3 DEF ThrowFromDestructor
<1> QED
  BY <1>1, <1>2, <1>3 DEF Throw

(***************************************************************************)
(* A transfer that succeeds and goes on leaves them within their types too.*)
(***************************************************************************)
LEMMA ContinueTypes ==
  ASSUME NEW next \in Steps,
         ObjectTypeOK, Continue(next), UNCHANGED <<mSpeedCtrl, request>>, step' \in Nat
  PROVE  ObjectTypeOK'
BY DEF ObjectTypeOK, Continue

-----------------------------------------------------------------------------
(***************************************************************************)
(* Every step of the driver and of its client preserves the inductive      *)
(* invariant: one step of the proof per action, and under it the types,    *)
(* what is known during an operation, and what is promised outside one.    *)
(***************************************************************************)
LEMMA StepInv == DriverInv /\ [DriverNext]_driverVars => DriverInv'
<1> SUFFICES ASSUME DriverInv, [DriverNext]_driverVars PROVE DriverInv'
  OBVIOUS
<1> USE DEF DriverInv, DriverTypeOK, About, Idle, hwVars, Continue, Level, Levels,
            Throw, ThrowFromConstructor, ThrowFromCall, ThrowFromDestructor
<1>1. CASE Construct
  <2> USE <1>1 DEF Construct
  <2>1. ObjectTypeOK'
    BY WireNineBits DEF ObjectTypeOK, Steps
  <2>2. ChipTypeOK'
    BY DEF ChipTypeOK
  <2>3. PhaseOK' /\ TransferOK' /\ ReadyOK'
    BY DEF PhaseOK, TransferOK, ReadyOK
  <2>4. ConstructionOK'
    BY DEF PhaseOK, TransferOK, ConstructionOK
  <2>5. IdleAgrees' /\ StoppedWhenGone' /\ FullyConfigured'
    BY DEF PhaseOK, ReadyOK, IdleAgrees, StoppedWhenGone, FullyConfigured
  <2> QED
    BY <2>1, <2>2, <2>3, <2>4, <2>5
<1>2. CASE Open
  <2> USE <1>2 DEF Open
  <2>1. ObjectTypeOK'
    BY WireNineBits DEF ObjectTypeOK, Steps
  <2>2. ChipTypeOK'
    BY DEF ChipTypeOK
  <2>3. PhaseOK' /\ TransferOK' /\ ReadyOK'
    BY DEF PhaseOK, TransferOK, ReadyOK
  <2>4. ConstructionOK'
    BY DEF PhaseOK, TransferOK, ConstructionOK
  <2>5. IdleAgrees' /\ StoppedWhenGone' /\ FullyConfigured'
    BY DEF PhaseOK, ReadyOK, IdleAgrees, StoppedWhenGone, FullyConfigured
  <2> QED
    BY <2>1, <2>2, <2>3, <2>4, <2>5
<1>3. CASE SelectSlave
  <2> USE <1>3 DEF SelectSlave
  <2>1. ObjectTypeOK'
    <3>1. "enable" \in Steps /\ step' \in Nat
      BY DEF ObjectTypeOK, Steps
    <3>2. CASE Continue("enable")
      BY <3>1, <3>2, ContinueTypes
    <3>3. CASE Throw
      BY <3>3, ThrowTypes
    <3> QED
      BY <3>2, <3>3
  <2>2. ChipTypeOK'
    BY DEF ChipTypeOK
  <2>3. PhaseOK' /\ TransferOK' /\ ReadyOK'
    BY DEF PhaseOK, TransferOK, ReadyOK
  <2>4. ConstructionOK'
    BY DEF PhaseOK, TransferOK, ConstructionOK
  <2>5. IdleAgrees' /\ StoppedWhenGone' /\ FullyConfigured'
    BY DEF PhaseOK, ReadyOK, IdleAgrees, StoppedWhenGone, FullyConfigured
  <2> QED
    BY <2>1, <2>2, <2>3, <2>4, <2>5
<1>4. CASE WriteEnable
  <2> USE <1>4 DEF WriteEnable
  <2>1. ObjectTypeOK'
    <3>1. "zero" \in Steps /\ step' \in Nat
      BY DEF ObjectTypeOK, Steps
    <3>2. CASE Continue("zero")
      BY <3>1, <3>2, ContinueTypes
    <3>3. CASE Throw
      BY <3>3, ThrowTypes
    <3> QED
      BY <3>2, <3>3
  <2>2. ChipTypeOK'
    BY DEF ChipTypeOK
  <2>3. PhaseOK' /\ TransferOK' /\ ReadyOK'
    BY DEF PhaseOK, TransferOK, ReadyOK
  <2>4. ConstructionOK'
    BY DEF PhaseOK, TransferOK, ConstructionOK
  <2>5. IdleAgrees' /\ StoppedWhenGone' /\ FullyConfigured'
    BY DEF PhaseOK, ReadyOK, IdleAgrees, StoppedWhenGone, FullyConfigured
  <2> QED
    BY <2>1, <2>2, <2>3, <2>4, <2>5
<1>5. CASE InitDirPin
  <2> USE <1>5 DEF InitDirPin
  <2>1. ObjectTypeOK'
    BY DEF ObjectTypeOK, Steps
  <2>2. ChipTypeOK'
    BY DEF ChipTypeOK
  <2>3. PhaseOK' /\ TransferOK' /\ ConstructionOK' /\ ReadyOK'
    BY DEF PhaseOK, TransferOK, ConstructionOK, ReadyOK
  <2>4. IdleAgrees' /\ StoppedWhenGone' /\ FullyConfigured'
    BY DEF PhaseOK, IdleAgrees, StoppedWhenGone, FullyConfigured
  <2> QED
    BY <2>1, <2>2, <2>3, <2>4
<1>6. CASE ClearDirPin
  <2> USE <1>6 DEF ClearDirPin
  <2>1. ObjectTypeOK'
    BY DEF ObjectTypeOK, Steps
  <2>2. ChipTypeOK'
    BY DEF ChipTypeOK
  <2>3. PhaseOK' /\ TransferOK' /\ ConstructionOK' /\ ReadyOK'
    BY DEF PhaseOK, TransferOK, ConstructionOK, ReadyOK
  <2>4. IdleAgrees' /\ StoppedWhenGone' /\ FullyConfigured'
    BY DEF PhaseOK, IdleAgrees, StoppedWhenGone, FullyConfigured
  <2> QED
    BY <2>1, <2>2, <2>3, <2>4
<1>7. CASE SetDirPin
  <2> USE <1>7 DEF SetDirPin
  <2>1. ObjectTypeOK'
    BY DEF ObjectTypeOK, Steps
  <2>2. ChipTypeOK'
    BY DEF ChipTypeOK
  <2>3. PhaseOK' /\ TransferOK' /\ ReadyOK'
    BY DEF PhaseOK, TransferOK, ReadyOK
  <2>4. ConstructionOK'
    <3>1. 0 < ConfigWrites /\ \A r \in Registers : ~(r <= 0)
      BY DriverAssumption DEF DriverAssumption, Registers
    <3> QED
      BY <3>1 DEF PhaseOK, ConstructionOK, Registers
  <2>5. IdleAgrees' /\ StoppedWhenGone' /\ FullyConfigured'
    BY DEF PhaseOK, IdleAgrees, StoppedWhenGone, FullyConfigured
  <2> QED
    BY <2>1, <2>2, <2>3, <2>4, <2>5
<1>8. CASE WriteConfig
  <2> USE <1>8 DEF WriteConfig
  <2>1. life = "ctor"
    BY DEF PhaseOK, ObjectTypeOK
  <2>2. ObjectTypeOK'
    <3>1. step' \in Nat
      BY DEF ObjectTypeOK
    <3>2. life' \in {"ctor", "ready", "dtor", "failed"} /\ at' \in {"config", "idle", "zero"}
      BY <2>1
    <3>3. UNCHANGED <<mSpeedCtrl, request>> /\ fd' \in BOOLEAN /\ unwinding' \in BOOLEAN
      BY DEF ObjectTypeOK
    <3>4. death' \in {"no", "destructor"}
      BY DEF ObjectTypeOK
    <3> QED
      BY <3>1, <3>2, <3>3, <3>4 DEF ObjectTypeOK, Steps
  <2>3. ChipTypeOK'
    BY DEF ChipTypeOK
  <2>4. PhaseOK'
    BY DEF PhaseOK
  <2>5. TransferOK' /\ ReadyOK'
    BY <2>1 DEF PhaseOK, TransferOK, ConstructionOK, ReadyOK
  <2> DEFINE Done(k, config) == \A r \in Registers : r <= k => config[r] # "leftover"
             written == [hwConfig EXCEPT ![step + 1] = "default"]
  <2>6. step + 1 \in Registers /\ step + 1 <= ConfigWrites /\ Done(step + 1, written)
    <3>1. step \in Nat /\ step < ConfigWrites /\ Done(step, hwConfig)
      BY <2>1 DEF ConstructionOK, ObjectTypeOK
    <3>2. step + 1 \in Registers /\ step + 1 <= ConfigWrites
      BY <3>1, DriverAssumption DEF Registers, DriverAssumption
    <3>3. ASSUME NEW r \in Registers, r <= step + 1
          PROVE  r <= step \/ r = step + 1
      BY <3>1, <3>3 DEF Registers
    <3> QED
      BY <3>1, <3>2, <3>3 DEF ChipTypeOK
  <2>7. ConstructionOK'
    <3> SUFFICES ASSUME life' = "ctor" PROVE ConstructionOK'
      BY DEF ConstructionOK
    <3>1. step' = step + 1 /\ hwConfig' = written /\ step + 1 # ConfigWrites
      BY <2>1 DEF LastConfig
    <3>2. step + 1 < ConfigWrites
      BY <2>6, <3>1, DriverAssumption DEF DriverAssumption, Registers
    <3> QED
      BY <2>1, <2>6, <3>1, <3>2 DEF ConstructionOK
  <2>8. IdleAgrees' /\ StoppedWhenGone'
    <3>1. hwSpeed = 0 /\ mSpeedCtrl = 0 /\ request = 0 /\ hwDir = "high" /\ hwDirOut
      BY <2>1 DEF ConstructionOK
    <3>2. UNCHANGED <<hwSpeed, mSpeedCtrl, request, hwDir, hwDirOut>>
      OBVIOUS
    <3>3. IdleAgrees'
      BY <3>1, <3>2, WireNineBits DEF IdleAgrees
    <3>4. StoppedWhenGone'
      BY <2>1 DEF StoppedWhenGone
    <3> QED
      BY <3>3, <3>4
  <2>9. FullyConfigured'
    <3> SUFFICES ASSUME life' = "ready" PROVE FullyConfigured'
      BY DEF FullyConfigured
    <3>1. hwConfig' = written /\ step + 1 = ConfigWrites
      BY <2>1 DEF LastConfig
    <3>2. \A r \in Registers : r <= ConfigWrites
      BY DriverAssumption DEF DriverAssumption, Registers
    <3> QED
      BY <2>6, <3>1, <3>2 DEF FullyConfigured
  <2> QED
    BY <2>2, <2>3, <2>4, <2>5, <2>7, <2>8, <2>9
<1>9. CASE ZeroSpeed
  <2> USE <1>9 DEF ZeroSpeed
  <2>1. InRange(0) /\ Wire(0) = 0 /\ 0 \in NineBits /\ 0 \in Short
    <3>1. Magnitude(0) = 0
      BY DEF Magnitude
    <3>2. 0 \in NineBits /\ 0 \in Short
      BY DEF NineBits, Short
    <3> QED
      BY <3>1, <3>2, WireNineBits DEF InRange
  <2>2. /\ at' = "msb" /\ request' = 0 /\ mSpeedCtrl' = 0 /\ hwDir' = "high"
        /\ UNCHANGED <<life, step, fd, unwinding, death, hwSpeed, hwMsb, hwDirOut, hwConfig>>
    BY <2>1 DEF StartSpeed, DirLevel, FirstByte
  <2>3. DriverTypeOK'
    BY <2>1, <2>2 DEF ObjectTypeOK, ChipTypeOK, Steps
  <2>4. PhaseOK' /\ ConstructionOK' /\ ReadyOK'
    BY <2>2 DEF PhaseOK, ConstructionOK, ReadyOK
  <2>5. TransferOK'
    BY <2>1, <2>2 DEF TransferOK
  <2>6. IdleAgrees' /\ StoppedWhenGone' /\ FullyConfigured'
    BY <2>2 DEF PhaseOK, IdleAgrees, StoppedWhenGone, FullyConfigured
  <2> QED
    BY <2>3, <2>4, <2>5, <2>6
<1>10. CASE WriteMsb
  <2> USE <1>10 DEF WriteMsb
  <2>1. mSpeedCtrl \div 256 \in {0, 1}
    BY SplitSpeed DEF ObjectTypeOK
  <2>2. ObjectTypeOK'
    <3>1. "lsb" \in Steps /\ step' \in Nat
      BY DEF ObjectTypeOK, Steps
    <3>2. CASE Continue("lsb")
      BY <3>1, <3>2, ContinueTypes
    <3>3. CASE Throw
      BY <3>3, ThrowTypes
    <3> QED
      BY <3>2, <3>3
  <2>3. ChipTypeOK'
    BY <2>1 DEF ChipTypeOK
  <2>4. PhaseOK' /\ TransferOK' /\ ConstructionOK' /\ ReadyOK'
    BY DEF PhaseOK, TransferOK, ConstructionOK, ReadyOK
  <2>5. IdleAgrees' /\ StoppedWhenGone' /\ FullyConfigured'
    BY DEF PhaseOK, IdleAgrees, StoppedWhenGone, FullyConfigured
  <2> QED
    BY <2>2, <2>3, <2>4, <2>5
<1>11. CASE WriteLsb
  <2> USE <1>11 DEF WriteLsb
  <2>1. Latched(mSpeedCtrl % 256) = mSpeedCtrl
    BY SplitSpeed DEF Latched, TransferOK, ObjectTypeOK
  <2>2. hwSpeed' \in {hwSpeed, mSpeedCtrl} /\ mSpeedCtrl = Wire(request)
    BY <2>1 DEF TransferOK
  <2>3. CASE hwSpeed' = mSpeedCtrl /\ ReturnFromSpeed
    <3> USE <2>3 DEF ReturnFromSpeed
    <3>1. ObjectTypeOK' /\ ChipTypeOK'
      <4>1. life' \in {"ctor", "ready", "gone"} /\ at' \in Steps
        BY DEF Steps
      <4>2. fd' \in BOOLEAN /\ unwinding' \in BOOLEAN /\ UNCHANGED death
        BY DEF ObjectTypeOK
      <4>3. ObjectTypeOK'
        BY <4>1, <4>2 DEF ObjectTypeOK
      <4>4. ChipTypeOK'
        BY DEF ObjectTypeOK, ChipTypeOK
      <4> QED
        BY <4>3, <4>4
    <3>2. PhaseOK' /\ TransferOK' /\ ReadyOK'
      BY DEF PhaseOK, TransferOK, ReadyOK
    <3>3. ConstructionOK'
      BY <2>2, WireNineBits DEF TransferOK, ConstructionOK
    <3>4. IdleAgrees'
      BY <2>2 DEF TransferOK, ReadyOK, IdleAgrees
    <3>5. StoppedWhenGone'
      <4> SUFFICES ASSUME life' = "gone" PROVE hwSpeed' = 0 /\ hwDir' = "high" /\ ~fd'
        BY DEF StoppedWhenGone
      <4>1. life = "dtor" /\ request = 0 /\ fd' = FALSE
        BY DEF TransferOK
      <4>2. hwSpeed' = 0
        BY <2>2, <4>1, WireNineBits
      <4>3. hwDir = "high"
        BY <4>1 DEF TransferOK
      <4> QED
        BY <4>1, <4>2, <4>3
    <3>6. FullyConfigured'
      BY DEF FullyConfigured
    <3> QED
      BY <3>1, <3>2, <3>3, <3>4, <3>5, <3>6
  <2>4. CASE Throw
    <3>1. DriverTypeOK'
      BY <2>2, <2>4 DEF ObjectTypeOK, ChipTypeOK, Steps
    <3>2. PhaseOK' /\ TransferOK' /\ ConstructionOK' /\ ReadyOK'
      BY <2>4 DEF PhaseOK, TransferOK, ConstructionOK, ReadyOK
    <3>3. IdleAgrees' /\ StoppedWhenGone' /\ FullyConfigured'
      BY <2>4 DEF PhaseOK, IdleAgrees, StoppedWhenGone, FullyConfigured
    <3> QED
      BY <3>1, <3>2, <3>3
  <2> QED
    BY <2>1, <2>3, <2>4
<1>12. CASE ReadRegister
  <2> USE <1>12 DEF ReadRegister
  <2>1. step' \in Nat /\ at' \in Steps
    BY DEF ObjectTypeOK, Steps
  <2>2. ObjectTypeOK'
    BY <2>1 DEF ObjectTypeOK
  <2>3. ChipTypeOK'
    BY DEF ChipTypeOK
  <2>4. PhaseOK' /\ TransferOK' /\ ConstructionOK' /\ ReadyOK'
    BY DEF PhaseOK, TransferOK, ConstructionOK, ReadyOK
  <2>5. IdleAgrees' /\ StoppedWhenGone' /\ FullyConfigured'
    BY DEF PhaseOK, IdleAgrees, StoppedWhenGone, FullyConfigured
  <2> QED
    BY <2>2, <2>3, <2>4, <2>5
<1>13. CASE CallReadStatus
  <2> USE <1>13 DEF CallReadStatus
  <2>1. ObjectTypeOK'
    BY WireNineBits DEF ObjectTypeOK, Steps
  <2>2. ChipTypeOK'
    BY DEF ChipTypeOK
  <2>3. PhaseOK' /\ TransferOK' /\ ReadyOK'
    BY DEF PhaseOK, TransferOK, ReadyOK
  <2>4. ConstructionOK'
    BY DEF PhaseOK, TransferOK, ConstructionOK
  <2>5. IdleAgrees' /\ StoppedWhenGone' /\ FullyConfigured'
    BY DEF PhaseOK, ReadyOK, IdleAgrees, StoppedWhenGone, FullyConfigured
  <2> QED
    BY <2>1, <2>2, <2>3, <2>4, <2>5
<1>14. CASE Destroy
  <2> USE <1>14 DEF Destroy
  <2>1. ObjectTypeOK'
    BY WireNineBits DEF ObjectTypeOK, Steps
  <2>2. ChipTypeOK'
    BY DEF ChipTypeOK
  <2>3. PhaseOK' /\ TransferOK' /\ ReadyOK'
    BY DEF PhaseOK, TransferOK, ReadyOK
  <2>4. ConstructionOK'
    BY DEF PhaseOK, TransferOK, ConstructionOK
  <2>5. IdleAgrees' /\ StoppedWhenGone' /\ FullyConfigured'
    BY DEF PhaseOK, ReadyOK, IdleAgrees, StoppedWhenGone, FullyConfigured
  <2> QED
    BY <2>1, <2>2, <2>3, <2>4, <2>5
<1>15. ASSUME NEW s \in Requests, CallSpeed(s) PROVE DriverInv'
  <2> USE <1>15 DEF CallSpeed, StartSpeed, DirLevel, FirstByte
  <2>1. s \in Short /\ Wire(s) \in NineBits
    BY DriverAssumption, WireNineBits DEF DriverAssumption
  <2>2. ObjectTypeOK'
    BY <2>1 DEF ObjectTypeOK, Steps
  <2>3. ChipTypeOK'
    BY DEF ChipTypeOK
  <2>4. PhaseOK' /\ TransferOK' /\ ConstructionOK' /\ ReadyOK'
    BY DEF PhaseOK, TransferOK, ConstructionOK, ReadyOK
  <2>5. IdleAgrees' /\ StoppedWhenGone' /\ FullyConfigured'
    BY DEF IdleAgrees, StoppedWhenGone, FullyConfigured
  <2> QED
    BY <2>2, <2>3, <2>4, <2>5
<1>16. ASSUME NEW r \in Registers, Swallow(r) PROVE DriverInv'
  <2> USE <1>16 DEF Swallow
  <2>1. ObjectTypeOK'
    <3>1. "idle" \in Steps /\ step' \in Nat
      BY DEF ObjectTypeOK, Steps
    <3>2. CASE Continue("idle")
      BY <3>1, <3>2, ContinueTypes
    <3>3. CASE Throw
      BY <3>3, ThrowTypes
    <3> QED
      BY <3>2, <3>3
  <2>2. ChipTypeOK'
    BY DEF ChipTypeOK
  <2>3. PhaseOK' /\ TransferOK' /\ ConstructionOK' /\ ReadyOK'
    BY DEF PhaseOK, TransferOK, ConstructionOK, ReadyOK
  <2>4. IdleAgrees' /\ StoppedWhenGone'
    BY DEF IdleAgrees, StoppedWhenGone
  <2>5. FullyConfigured'
    BY DEF FullyConfigured, ChipTypeOK
  <2> QED
    BY <2>1, <2>2, <2>3, <2>4, <2>5
<1>17. CASE UNCHANGED driverVars
  BY <1>17 DEF driverVars, objectVars, ObjectTypeOK, ChipTypeOK, PhaseOK, TransferOK,
     ConstructionOK, ReadyOK, IdleAgrees, StoppedWhenGone, FullyConfigured
<1> QED
  BY <1>1, <1>2, <1>3, <1>4, <1>5, <1>6, <1>7, <1>8, <1>9, <1>10, <1>11, <1>12,
     <1>13, <1>14, <1>15, <1>16, <1>17 DEF DriverNext, DriverStep, ClientCall, Finished

-----------------------------------------------------------------------------
(***************************************************************************)
(* The inductive invariant holds in every behaviour of the driver.         *)
(***************************************************************************)
LEMMA AlwaysInv == DriverSpec => []DriverInv
BY InitInv, StepInv, PTL DEF DriverSpec

(***************************************************************************)
(* Type correctness.                                                       *)
(***************************************************************************)
THEOREM DriverTypeCorrect == DriverSpec => []DriverTypeOK
<1>1. DriverInv => DriverTypeOK
  BY DEF DriverInv
<1> QED
  BY AlwaysInv, <1>1, PTL

(***************************************************************************)
(* Between operations chip, pin and cached speed agree with the latest     *)
(* request: speed() takes effect as a whole or does not return.            *)
(***************************************************************************)
THEOREM SpeedTakesEffect == DriverSpec => []IdleAgrees
<1>1. DriverInv => IdleAgrees
  BY DEF DriverInv
<1> QED
  BY AlwaysInv, <1>1, PTL

(***************************************************************************)
(* However the driver ends, by its scope or by an exception, the motor has *)
(* been set to zero and the descriptor is closed.                          *)
(***************************************************************************)
THEOREM MotorIsStopped == DriverSpec => []StoppedWhenGone
<1>1. DriverInv => StoppedWhenGone
  BY DEF DriverInv
<1> QED
  BY AlwaysInv, <1>1, PTL

(***************************************************************************)
(* A ready driver never runs on a register value of an earlier process.    *)
(***************************************************************************)
THEOREM NothingLeftOver == DriverSpec => []FullyConfigured
<1>1. DriverInv => FullyConfigured
  BY DEF DriverInv
<1> QED
  BY AlwaysInv, <1>1, PTL

(***************************************************************************)
(* A step that changes the speed is the transfer of the low byte, and the  *)
(* high bit is already there.                                              *)
(***************************************************************************)
LEMMA CommitStep ==
  ASSUME DriverInv, DriverNext, hwSpeed' # hwSpeed
  PROVE  hwSpeed' = Wire(request)
<1>1. WriteLsb
  BY DEF DriverNext, DriverStep, ClientCall, Finished, driverVars, hwVars, Construct, Open,
     SelectSlave, WriteEnable, InitDirPin, ClearDirPin, SetDirPin, WriteConfig, ZeroSpeed,
     StartSpeed, WriteMsb, CallSpeed, CallReadStatus, ReadRegister, Swallow, Destroy
<1>2. hwSpeed' = Latched(mSpeedCtrl % 256)
  BY <1>1 DEF WriteLsb
<1>3. at = "lsb" /\ hwMsb = mSpeedCtrl \div 256 /\ mSpeedCtrl = Wire(request)
  BY <1>1 DEF WriteLsb, About, DriverInv, TransferOK
<1> QED
  BY <1>2, <1>3, SplitSpeed DEF Latched, DriverInv, DriverTypeOK, ObjectTypeOK

(***************************************************************************)
(* The chip only ever adopts the speed of the request being served: the    *)
(* order of the two transfers keeps bit and byte of different requests     *)
(* apart, whichever transfers failed.                                      *)
(***************************************************************************)
THEOREM NoMixedSpeed == DriverSpec => CommitsRequest
<1>1. DriverInv /\ [DriverNext]_driverVars => [hwSpeed' # hwSpeed => hwSpeed' = Wire(request)]_driverVars
  <2> SUFFICES ASSUME DriverInv, [DriverNext]_driverVars, hwSpeed' # hwSpeed
               PROVE  hwSpeed' = Wire(request)
    OBVIOUS
  <2>1. DriverNext
    BY DEF driverVars, hwVars
  <2> QED
    BY <2>1, CommitStep
<1> QED
  BY AlwaysInv, <1>1, PTL DEF DriverSpec, CommitsRequest
=============================================================================
