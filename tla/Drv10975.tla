------------------------------ MODULE Drv10975 ------------------------------
(***************************************************************************)
(* The motor driver object (class drv10975) together with the part of the  *)
(* motor controller chip and of the direction pin that it commands.        *)
(*                                                                         *)
(* The driver is used by one thread.  Every transfer on the i2c bus is a   *)
(* step of its own, because every one of them may fail: safe_ioctl then    *)
(* throws, the operation is abandoned where it stands, and what the chip   *)
(* has received so far stays received.  The chip and the pin keep their    *)
(* state when the process ends, so Init lets them hold whatever an earlier *)
(* process left there.                                                     *)
(***************************************************************************)
EXTENDS Integers

CONSTANTS
  Requests,       \* arguments callers pass to speed(short)
  Leftover,       \* speeds an earlier process may have left in the chip
  ConfigWrites,   \* registers the constructor configures (12 in the code)
  StatusReads,    \* registers read_driver_status reads (11 in the code)
  AssertsEnabled  \* FALSE for a build that defines NDEBUG

Short == -32768 .. 32767
NineBits == 0 .. 511

ASSUME DriverAssumption ==
  /\ Requests \subseteq Short
  /\ 0 \in Requests
  /\ Leftover \subseteq NineBits
  /\ ConfigWrites \in Nat \ {0}
  /\ StatusReads \in Nat \ {0}
  /\ AssertsEnabled \in BOOLEAN

VARIABLES
  life,       \* "none", "ctor", "ready", "dtor", "gone" or "failed"
  at,         \* the next bus or pin access of the operation in progress
  step,       \* registers done so far in a loop over registers
  fd,         \* the i2c_device holds an open file descriptor
  mSpeedCtrl, \* mSpeedCtrl1 and the low bit of mSpeedCtrl2, as one number
  unwinding,  \* the destructor runs because an exception propagates
  death,      \* why the process was terminated, "no" while it was not
  request,    \* the argument of the latest speed() call
  hwSpeed,    \* the speed the chip drives the motor with
  hwMsb,      \* the most significant speed bit, received but not yet in effect
  hwDir,      \* the level of the direction pin, "high" for forward
  hwDirOut,   \* the direction pin is configured as an output
  hwConfig    \* who wrote each configuration register last

objectVars == <<life, at, step, fd, mSpeedCtrl, unwinding, death, request>>
hwVars     == <<hwSpeed, hwMsb, hwDir, hwDirOut, hwConfig>>
driverVars == <<objectVars, hwVars>>

Registers == 1 .. ConfigWrites
Steps == {"idle", "open", "slave", "enable", "zero", "msb", "lsb", "pinmode",
          "pinlow", "pinhigh", "config", "read"}

(***************************************************************************)
(* Speeds.  speed(short) takes the absolute value in a short, where the    *)
(* negation of -32768 is -32768 again, and puts nine bits on the wire.     *)
(***************************************************************************)
Magnitude(s) == IF s < 0 /\ s # -32768 THEN -s ELSE s
Wire(s)      == Magnitude(s) % 512
InRange(s)   == Magnitude(s) \in NineBits

\* What set_dir_pin() writes to the direction pin.
Levels   == {"low", "high"}
Level(b) == IF b THEN "high" ELSE "low"

-----------------------------------------------------------------------------
DriverInit ==
  /\ life = "none" /\ at = "idle" /\ step = 0 /\ fd = FALSE
  /\ mSpeedCtrl = 0  \* indeterminate in the code, and written before it is read
  /\ unwinding = FALSE /\ death = "no" /\ request = 0
  /\ hwSpeed \in Leftover
  /\ hwMsb \in {0, 1}
  /\ hwDir \in Levels
  /\ hwDirOut \in BOOLEAN
  /\ hwConfig = [r \in Registers |-> "leftover"]

\* The operation in progress is about to make the access `where`.
About(where) == death = "no" /\ at = where

\* The driver exists and no operation is in progress.
Idle == life = "ready" /\ About("idle")

(***************************************************************************)
(* An exception leaves the operation in progress.  Out of the constructor  *)
(* only the i2c_device member is destroyed; out of any other operation the *)
(* stack of motor_main unwinds into the destructor, which calls speed(0);  *)
(* out of the destructor, which is noexcept, it terminates the process.    *)
(***************************************************************************)
ThrowFromConstructor ==
  /\ life = "ctor"
  /\ life' = "failed" /\ at' = "idle" /\ fd' = FALSE
  /\ UNCHANGED <<unwinding, death>>

\* Mutant: the wheel is left as it is when an operation fails.
ThrowFromCallNoDestructor ==
  /\ life = "ready"
  /\ life' = "gone" /\ at' = "idle" /\ unwinding' = TRUE /\ fd' = FALSE
  /\ UNCHANGED death
ThrowFromCall ==
  /\ life = "ready"
  /\ life' = "dtor" /\ at' = "zero" /\ unwinding' = TRUE
  /\ UNCHANGED <<fd, death>>

\* Mutant: the destructor starts again when it fails.
ThrowFromDestructorRetries ==
  /\ life = "dtor" /\ at' = "zero"
  /\ UNCHANGED <<life, fd, unwinding, death>>
ThrowFromDestructor ==
  /\ life = "dtor"
  /\ death' = "destructor"
  /\ UNCHANGED <<life, at, fd, unwinding>>

Throw == ThrowFromConstructor \/ ThrowFromCall \/ ThrowFromDestructor

\* A transfer succeeded and the operation goes on with the access `next`.
Continue(next) == at' = next /\ UNCHANGED <<life, fd, unwinding, death>>

-----------------------------------------------------------------------------
(***************************************************************************)
(* Construction: open the bus, select the slave, enable the chip, speed(0),*)
(* then the direction pin and the configuration registers.                 *)
(***************************************************************************)
Construct ==
  /\ life = "none" /\ About("idle")
  /\ life' = "ctor" /\ at' = "open"
  /\ UNCHANGED <<step, fd, mSpeedCtrl, unwinding, death, request, hwVars>>

Open ==
  /\ About("open")
  /\ \/ fd' = TRUE /\ at' = "slave" /\ UNCHANGED <<life, unwinding, death>>
     \/ Throw
  /\ UNCHANGED <<step, mSpeedCtrl, request, hwVars>>

SelectSlave ==
  /\ About("slave")
  /\ Continue("enable") \/ Throw
  /\ UNCHANGED <<step, mSpeedCtrl, request, hwVars>>

\* Mutant: the direction pin is set up while the wheel may still be spinning.
WriteEnableOnly ==
  /\ About("enable")
  /\ Continue("pinmode") \/ Throw
  /\ UNCHANGED <<step, mSpeedCtrl, request, hwVars>>
WriteEnable ==
  /\ About("enable")
  /\ Continue("zero") \/ Throw
  /\ UNCHANGED <<step, mSpeedCtrl, request, hwVars>>

\* init_dir_pin() makes the pin an output and clears it; then the constructor
\* sets it.  None of the three can fail.
InitDirPin ==
  /\ About("pinmode") /\ Continue("pinlow")
  /\ hwDirOut' = TRUE
  /\ UNCHANGED <<step, mSpeedCtrl, request, hwSpeed, hwMsb, hwDir, hwConfig>>

ClearDirPin ==
  /\ About("pinlow") /\ Continue("pinhigh")
  /\ hwDir' = Level(FALSE)
  /\ UNCHANGED <<step, mSpeedCtrl, request, hwSpeed, hwMsb, hwDirOut, hwConfig>>

SetDirPin ==
  /\ About("pinhigh") /\ Continue("config")
  /\ hwDir' = Level(TRUE)
  /\ step' = 0
  /\ UNCHANGED <<mSpeedCtrl, request, hwSpeed, hwMsb, hwDirOut, hwConfig>>

\* Mutant: the loop over the configuration registers ends one early.
LastConfigEarly(r) == r >= ConfigWrites - 1

LastConfig(r) == r = ConfigWrites

WriteConfig ==
  LET reg     == step + 1
      written == [hwConfig EXCEPT ![reg] = "default"]
  IN /\ About("config")
     /\ \/ /\ hwConfig' = written
           /\ step' = reg
           /\ IF LastConfig(reg)
                THEN life' = "ready" /\ at' = "idle"
                ELSE UNCHANGED <<life, at>>
           /\ UNCHANGED <<fd, unwinding, death>>
        \/ /\ hwConfig' \in {hwConfig, written}
           /\ Throw
           /\ UNCHANGED step
     /\ UNCHANGED <<mSpeedCtrl, request, hwSpeed, hwMsb, hwDir, hwDirOut>>

-----------------------------------------------------------------------------
(***************************************************************************)
(* speed(s) sets the direction pin, then asserts the range, then sends the *)
(* two speed registers, the most significant bit first.                    *)
(***************************************************************************)

\* Mutant: the direction pin is driven for a non-zero request only.
DirLevelKeptOnZero(s) == IF s = 0 THEN hwDir ELSE Level(s > 0)
DirLevel(s) == Level(s >= 0)

\* Mutant: the high bit is not sent when the cached one is the same.
FirstByteUnlessCached(s) ==
  IF Wire(s) \div 256 = mSpeedCtrl \div 256 THEN "lsb" ELSE "msb"
FirstByte(s) == "msb"

StartSpeed(s) ==
  /\ hwDir' = DirLevel(s)
  /\ request' = s
  /\ IF AssertsEnabled /\ ~InRange(s)
       THEN death' = "assert" /\ UNCHANGED <<at, mSpeedCtrl>>
       ELSE at' = FirstByte(s) /\ mSpeedCtrl' = Wire(s) /\ UNCHANGED death
  /\ UNCHANGED <<step, fd, hwSpeed, hwMsb, hwDirOut, hwConfig>>

\* The speed(0) of the constructor and of the destructor.
ZeroSpeed == About("zero") /\ StartSpeed(0) /\ UNCHANGED <<life, unwinding>>

WriteMsb ==
  LET bit == mSpeedCtrl \div 256
  IN /\ About("msb")
     /\ \/ hwMsb' = bit /\ Continue("lsb")
        \/ hwMsb' \in {hwMsb, bit} /\ Throw
     /\ UNCHANGED <<step, mSpeedCtrl, request, hwSpeed, hwDir, hwDirOut, hwConfig>>

\* speed() returns to its caller.
ReturnFromSpeed ==
  \/ life = "ctor" /\ Continue("pinmode")
  \/ life = "ready" /\ Continue("idle")
  \/ /\ life = "dtor"
     /\ life' = "gone" /\ at' = "idle" /\ fd' = FALSE
     /\ UNCHANGED <<unwinding, death>>

\* The chip puts a speed into effect when it receives the low byte.
Latched(low) == hwMsb * 256 + low

WriteLsb ==
  LET committed == Latched(mSpeedCtrl % 256)
  IN /\ About("lsb")
     /\ \/ hwSpeed' = committed /\ ReturnFromSpeed
        \/ hwSpeed' \in {hwSpeed, committed} /\ Throw
     /\ UNCHANGED <<step, mSpeedCtrl, request, hwMsb, hwDir, hwDirOut, hwConfig>>

-----------------------------------------------------------------------------
(***************************************************************************)
(* The other operations a client may call on an idle driver.               *)
(***************************************************************************)
CallSpeed(s) == Idle /\ StartSpeed(s) /\ UNCHANGED <<life, unwinding>>

CallReadStatus ==
  /\ Idle
  /\ at' = "read" /\ step' = 0
  /\ UNCHANGED <<life, fd, mSpeedCtrl, unwinding, death, request, hwVars>>

ReadRegister ==
  /\ About("read")
  /\ \/ step' = step + 1 /\ Continue(IF step + 1 = StatusReads THEN "idle" ELSE "read")
     \/ Throw /\ UNCHANGED step
  /\ UNCHANGED <<mSpeedCtrl, request, hwVars>>

\* swallow(): the register override of the user interface, one register each.
Swallow(r) ==
  LET written == [hwConfig EXCEPT ![r] = "user"]
  IN /\ Idle
     /\ \/ hwConfig' = written /\ Continue("idle")
        \/ hwConfig' \in {hwConfig, written} /\ Throw
     /\ UNCHANGED <<step, mSpeedCtrl, request, hwSpeed, hwMsb, hwDir, hwDirOut>>

\* The owner leaves the driver's scope.
Destroy ==
  /\ Idle
  /\ life' = "dtor" /\ at' = "zero"
  /\ UNCHANGED <<step, fd, mSpeedCtrl, unwinding, death, request, hwVars>>

-----------------------------------------------------------------------------
\* What the driver does on its own once an operation has been called.
DriverStep ==
  \/ Open \/ SelectSlave \/ WriteEnable
  \/ InitDirPin \/ ClearDirPin \/ SetDirPin \/ WriteConfig
  \/ ZeroSpeed \/ WriteMsb \/ WriteLsb \/ ReadRegister

\* The most general client: any operation, at any time the driver is idle.
ClientCall ==
  \/ Construct \/ CallReadStatus \/ Destroy
  \/ \E s \in Requests : CallSpeed(s)
  \/ \E r \in Registers : Swallow(r)

\* Nothing more can happen to the object.
Finished ==
  /\ life \in {"gone", "failed"} \/ death # "no"
  /\ UNCHANGED driverVars

DriverNext == DriverStep \/ ClientCall \/ Finished
DriverSpec == DriverInit /\ [][DriverNext]_driverVars

-----------------------------------------------------------------------------
ObjectTypeOK ==
  /\ life \in {"none", "ctor", "ready", "dtor", "gone", "failed"}
  /\ at \in Steps
  /\ step \in Nat
  /\ fd \in BOOLEAN
  /\ mSpeedCtrl \in NineBits
  /\ unwinding \in BOOLEAN
  /\ death \in {"no", "assert", "destructor", "main"}
  /\ request \in Short

ChipTypeOK ==
  /\ hwSpeed \in NineBits
  /\ hwMsb \in {0, 1}
  /\ hwDir \in Levels
  /\ hwDirOut \in BOOLEAN
  /\ hwConfig \in [Registers -> {"leftover", "default", "user"}]

DriverTypeOK == ObjectTypeOK /\ ChipTypeOK

(***************************************************************************)
(* Every speed the chip ever puts into effect is the nine bits of the      *)
(* request being served, never a byte of one request joined to the bit of  *)
(* another, whatever transfers failed before ("MSB must be written first", *)
(* drv10975.cpp:110).                                                      *)
(***************************************************************************)
CommitsRequest == [][hwSpeed' # hwSpeed => hwSpeed' = Wire(request)]_driverVars

(***************************************************************************)
(* Between operations the chip, the direction pin and the value that the   *)
(* driver reports from its cache (speed()) all agree with the latest       *)
(* request, and the pin is an output: a speed() call that returns has      *)
(* taken effect as a whole.                                                *)
(***************************************************************************)
IdleAgrees ==
  life = "ready" /\ at \in {"idle", "read"} /\ death = "no" =>
    /\ hwSpeed = Wire(request)
    /\ mSpeedCtrl = hwSpeed
    /\ hwDir = Level(request >= 0)
    /\ hwDirOut

(***************************************************************************)
(* A driver that finished its destructor left the motor at speed zero and  *)
(* closed its file descriptor, whether it was destroyed at the end of its  *)
(* scope or by an exception; a driver whose constructor failed has closed  *)
(* its file descriptor too.                                                *)
(***************************************************************************)
StoppedWhenGone ==
  /\ life = "gone" => hwSpeed = 0 /\ hwDir = "high" /\ ~fd
  /\ life = "failed" => ~fd

(***************************************************************************)
(* A ready driver runs on this process's configuration: no configuration   *)
(* register still holds what an earlier process left in it.                *)
(***************************************************************************)
FullyConfigured ==
  life = "ready" => \A r \in Registers : hwConfig[r] # "leftover"
=============================================================================
