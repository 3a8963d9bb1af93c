---------------------------- MODULE ReactionWheel ----------------------------
(***************************************************************************)
(* The program: main() and the frontend loop on the main thread, the       *)
(* sensor thread and the motor thread (main.cpp, frontend.cpp), joined by  *)
(* the three channels and the stop flag of ThreadBus, the motor thread     *)
(* owning the driver of Drv10975.                                          *)
(*                                                                         *)
(* One action is one access to something that threads share (a queue, the  *)
(* stop flag, a bus) with the thread-local code around it.  Every transfer *)
(* on a bus may fail, and the user may press any key at any time.          *)
(***************************************************************************)
EXTENDS Drv10975, ThreadBus

CONSTANTS
  UserSpeeds,  \* numbers the user may give to the command "motor speed"
  Readings,    \* <<x, y>> accelerations the sensor may deliver
  MaxBacklog   \* bound: a loop starts no round while a queue it posts to is this full

VARIABLES
  mainPc,      \* where the main thread is
  sensorPc,    \* where the sensor thread is
  motorPc,     \* where the motor thread is
  accel,       \* mAcceleration of the sensor object
  cmdmsg,      \* the command that motor_main has popped
  late         \* history: commands popped by the motor thread since stop_flag was set

threadVars == <<mainPc, sensorPc, motorPc, accel, cmdmsg, late>>
vars == <<driverVars, busVars, threadVars>>

-----------------------------------------------------------------------------
\* The value of an int converted to short.
ToShort(v) == ((v + 32768) % 65536) - 32768

(***************************************************************************)
(* The sensor thread's decision: -50 iff atan(x / y) < 0 in doubles.  A    *)
(* zero y is +0.0, so x / y is then -inf, +inf or NaN by the sign of x,    *)
(* and NaN < 0 is false.                                                   *)
(***************************************************************************)
AngleNegative(x, y) == (x < 0 /\ y >= 0) \/ (x > 0 /\ y < 0)
SteerSpeed(r) == IF AngleNegative(r[1], r[2]) THEN -50 ELSE 50

Kinds == {"none", "data", "status", "speed", "override"}
Messages == [kind : Kinds, value : Int]
Msg(k, v) == [kind |-> k, value |-> v]

ASSUME WheelAssumption ==
  /\ Channels = {"sensorFrontend", "motorFrontend", "sensorMotor"}
  /\ UserSpeeds \subseteq Int
  /\ {ToShort(v) : v \in UserSpeeds} \cup {-50, 50} \subseteq Requests
  /\ Readings # {} /\ Readings \subseteq Int \X Int
  /\ MaxBacklog \in Nat \ {0}

\* Who holds which end: main() hands the second port of the first two pairs
\* and the two ports of the third pair to the threads it starts.
FrontendSensor == Port("sensorFrontend", FALSE)
SensorFrontend == Port("sensorFrontend", TRUE)
FrontendMotor  == Port("motorFrontend", FALSE)
MotorFrontend  == Port("motorFrontend", TRUE)
SensorMotor    == Port("sensorMotor", FALSE)
MotorSensor    == Port("sensorMotor", TRUE)

\* Room in the queue that p posts to: where the model bounds the queues.
Room(p) == Len(queues[OutQueue(p)]) < MaxBacklog

Alive == death = "no"

Init ==
  /\ DriverInit
  /\ BusInit
  /\ mainPc = "spawnSensor" /\ sensorPc = "unborn" /\ motorPc = "unborn"
  /\ accel = <<0, 0>>
  /\ cmdmsg = Msg("none", 0)
  /\ late = 0

-----------------------------------------------------------------------------
(***************************************************************************)
(* The main thread.                                                        *)
(***************************************************************************)
AtMain(pc) == Alive /\ mainPc = pc
MainGoes(pc) == mainPc' = pc /\ UNCHANGED <<driverVars, accel, cmdmsg, late>>

SpawnSensor ==
  /\ AtMain("spawnSensor") /\ MainGoes("spawnMotor")
  /\ sensorPc' = "ctor"
  /\ UNCHANGED <<busVars, motorPc>>

SpawnMotor ==
  /\ AtMain("spawnMotor") /\ MainGoes("curses")
  /\ motorPc' = "start"
  /\ UNCHANGED <<busVars, sensorPc>>

StartCurses ==
  /\ AtMain("curses") /\ MainGoes("frontend")
  /\ UNCHANGED <<busVars, sensorPc, motorPc>>

\* A thread cannot be started, or the session, which is set up outside the
\* try block, fails: main() is left by an exception, past threads that it has
\* not joined, and the process is terminated.
SetupFails ==
  /\ Alive /\ mainPc \in {"spawnSensor", "spawnMotor", "curses"}
  /\ death' = "main"
  /\ UNCHANGED <<life, at, step, fd, mSpeedCtrl, unwinding, request, hwVars,
                 busVars, threadVars>>

BuildFrontend ==
  /\ AtMain("frontend") /\ MainGoes("live")
  /\ UNCHANGED <<busVars, sensorPc, motorPc>>

\* live() without a key, or with one that only edits the input line or
\* changes the page, or with a command that fails or sends nothing.
LiveQuiet ==
  /\ AtMain("live") /\ MainGoes("popSensor")
  /\ UNCHANGED <<busVars, sensorPc, motorPc>>

LiveCommand(msg) ==
  /\ AtMain("live") /\ Room(FrontendMotor) /\ MainGoes("popSensor")
  /\ Posted(FrontendMotor, msg)
  /\ UNCHANGED <<refs, stop_flag, sensorPc, motorPc>>

LiveStop ==
  /\ AtMain("live") /\ MainGoes("popSensor")
  /\ Stop
  /\ UNCHANGED <<queues, refs, sensorPc, motorPc>>

LiveF9 ==
  /\ AtMain("live") /\ MainGoes("leave")
  /\ Stop
  /\ UNCHANGED <<queues, refs, sensorPc, motorPc>>

\* try_pop() on one of the frontend's ports; the message is displayed.
FrontendPops(p, pc, next) ==
  /\ AtMain(pc) /\ MainGoes(next)
  /\ IF Waiting(p) THEN Popped(p) ELSE UNCHANGED queues
  /\ UNCHANGED <<refs, stop_flag, sensorPc, motorPc>>

FrontendThrows ==
  /\ mainPc \in {"frontend", "live", "popSensor", "popMotor"} /\ Alive
  /\ MainGoes("leave")
  /\ UNCHANGED <<busVars, sensorPc, motorPc>>

\* frontend_main returns or unwinds, and with it go its two ports.
FrontendEnds ==
  /\ AtMain("leave") /\ MainGoes("stop")
  /\ Release({"sensorFrontend", "motorFrontend"})
  /\ UNCHANGED <<stop_flag, sensorPc, motorPc>>

\* Mutant: main() joins the threads without stopping them.
MainJoinsOnly ==
  /\ AtMain("stop") /\ MainGoes("joinMotor")
  /\ UNCHANGED <<busVars, sensorPc, motorPc>>
MainStops ==
  /\ AtMain("stop") /\ MainGoes("joinMotor")
  /\ Stop
  /\ UNCHANGED <<queues, refs, sensorPc, motorPc>>

JoinMotor ==
  /\ AtMain("joinMotor") /\ motorPc = "done" /\ MainGoes("joinSensor")
  /\ UNCHANGED <<busVars, sensorPc, motorPc>>

JoinSensor ==
  /\ AtMain("joinSensor") /\ sensorPc = "done" /\ MainGoes("returned")
  /\ UNCHANGED <<busVars, sensorPc, motorPc>>

Main ==
  \/ SpawnSensor \/ SpawnMotor \/ StartCurses \/ SetupFails \/ BuildFrontend
  \/ LiveQuiet \/ LiveStop \/ LiveF9
  \/ \E v \in UserSpeeds : LiveCommand(Msg("speed", v))
  \/ \E r \in Registers : LiveCommand(Msg("override", r))
  \/ FrontendPops(FrontendSensor, "popSensor", "popMotor")
  \/ FrontendPops(FrontendMotor, "popMotor", "live")
  \/ FrontendThrows \/ FrontendEnds \/ MainStops \/ JoinMotor \/ JoinSensor

-----------------------------------------------------------------------------
(***************************************************************************)
(* The sensor thread.                                                      *)
(***************************************************************************)
AtSensor(pc) == Alive /\ sensorPc = pc
SensorGoes(pc) ==
  sensorPc' = pc /\ UNCHANGED <<driverVars, mainPc, motorPc, cmdmsg, late>>

SensorConstructs ==
  /\ AtSensor("ctor")
  /\ SensorGoes("check") \/ SensorGoes("catch")
  /\ UNCHANGED <<busVars, accel>>

\* Mutant: the sensor thread stays until its commands have been taken.
SensorSeesStopWhenDrained ==
  /\ AtSensor("check") /\ stop_flag /\ queues[OutQueue(SensorMotor)] = <<>>
  /\ SensorGoes("leave")
  /\ UNCHANGED <<busVars, accel>>
SensorSeesStop ==
  /\ AtSensor("check") /\ stop_flag /\ SensorGoes("leave")
  /\ UNCHANGED <<busVars, accel>>

\* update(): fourteen register reads, each of which may fail.
SensorUpdates ==
  /\ AtSensor("check") /\ ~stop_flag
  /\ Room(SensorFrontend) /\ Room(SensorMotor)
  /\ \/ accel' \in Readings /\ SensorGoes("postData")
     \/ UNCHANGED accel /\ SensorGoes("catch")
  /\ UNCHANGED busVars

SensorPostsData ==
  /\ AtSensor("postData") /\ SensorGoes("postSpeed")
  /\ Posted(SensorFrontend, Msg("data", 0))
  /\ UNCHANGED <<refs, stop_flag, accel>>

SensorPostsSpeed ==
  /\ AtSensor("postSpeed") /\ SensorGoes("check")
  /\ Posted(SensorMotor, Msg("speed", SteerSpeed(accel)))
  /\ UNCHANGED <<refs, stop_flag, accel>>

\* Mutant: the handler reports the exception and does not call stop().
SensorCatchesQuietly ==
  /\ AtSensor("catch") /\ SensorGoes("leave")
  /\ UNCHANGED <<busVars, accel>>
SensorCatches ==
  /\ AtSensor("catch") /\ SensorGoes("leave")
  /\ Stop
  /\ UNCHANGED <<queues, refs, accel>>

SensorEnds ==
  /\ AtSensor("leave") /\ SensorGoes("done")
  /\ Release({"sensorFrontend", "sensorMotor"})
  /\ UNCHANGED <<stop_flag, accel>>

Sensor ==
  \/ SensorConstructs \/ SensorSeesStop \/ SensorUpdates \/ SensorPostsData
  \/ SensorPostsSpeed \/ SensorCatches \/ SensorEnds

-----------------------------------------------------------------------------
(***************************************************************************)
(* The motor thread.  While an operation of the driver is in progress the  *)
(* thread is inside it, and DriverStep moves it on.                        *)
(***************************************************************************)
AtMotor(pc) == Alive /\ motorPc = pc
MotorGoes(pc) == motorPc' = pc /\ UNCHANGED <<mainPc, sensorPc, accel>>

MotorConstructs ==
  /\ AtMotor("start") /\ MotorGoes("ctor")
  /\ Construct
  /\ UNCHANGED <<busVars, cmdmsg, late>>

MotorZeroes ==
  /\ AtMotor("ctor") /\ MotorGoes("call")
  /\ CallSpeed(0)
  /\ UNCHANGED <<busVars, cmdmsg, late>>

MotorCallReturns ==
  /\ AtMotor("call") /\ Idle /\ MotorGoes("check")
  /\ UNCHANGED <<driverVars, busVars, cmdmsg, late>>

\* Mutant: the loop goes on after a stop as long as there are commands.
MotorReadsStatusWhileWaiting ==
  /\ AtMotor("check") /\ (~stop_flag \/ Waiting(MotorFrontend) \/ Waiting(MotorSensor))
  /\ Room(MotorFrontend) /\ MotorGoes("status")
  /\ CallReadStatus
  /\ UNCHANGED <<busVars, cmdmsg, late>>
MotorReadsStatus ==
  /\ AtMotor("check") /\ ~stop_flag /\ Room(MotorFrontend) /\ MotorGoes("status")
  /\ CallReadStatus
  /\ UNCHANGED <<busVars, cmdmsg, late>>

MotorPostsStatus ==
  /\ AtMotor("status") /\ Idle /\ MotorGoes("popFrontend")
  /\ Posted(MotorFrontend, Msg("status", 0))
  /\ UNCHANGED <<driverVars, refs, stop_flag, cmdmsg, late>>

\* try_pop() on p; `empty` is where the thread goes when there is no message.
MotorPops(p, pc, empty) ==
  /\ AtMotor(pc)
  /\ \/ /\ Waiting(p) /\ MotorGoes("dispatch")
        /\ cmdmsg' = First(p)
        /\ Popped(p)
        /\ late' = IF stop_flag THEN late + 1 ELSE late
     \/ /\ ~Waiting(p) /\ MotorGoes(empty)
        /\ UNCHANGED <<queues, cmdmsg, late>>
  /\ UNCHANGED <<driverVars, refs, stop_flag>>

\* Mutant: the number is passed on as the int that it is in the message.
MotorDispatchesInt ==
  /\ AtMotor("dispatch") /\ MotorGoes("call")
  /\ \/ cmdmsg.kind = "speed" /\ CallSpeed(cmdmsg.value)
     \/ cmdmsg.kind = "override" /\ Swallow(cmdmsg.value)
  /\ cmdmsg' = Msg("none", 0)
  /\ UNCHANGED <<busVars, late>>
\* Mutant: a command to turn backwards is dropped.
MotorIgnoresReverse ==
  /\ AtMotor("dispatch") /\ MotorGoes("call")
  /\ \/ cmdmsg.kind = "speed" /\ cmdmsg.value >= 0 /\ CallSpeed(ToShort(cmdmsg.value))
     \/ cmdmsg.kind = "speed" /\ cmdmsg.value < 0 /\ UNCHANGED driverVars
     \/ cmdmsg.kind = "override" /\ Swallow(cmdmsg.value)
  /\ cmdmsg' = Msg("none", 0)
  /\ UNCHANGED <<busVars, late>>
MotorDispatches ==
  /\ AtMotor("dispatch") /\ MotorGoes("call")
  /\ \/ cmdmsg.kind = "speed" /\ CallSpeed(ToShort(cmdmsg.value))
     \/ cmdmsg.kind = "override" /\ Swallow(cmdmsg.value)
  /\ cmdmsg' = Msg("none", 0)
  /\ UNCHANGED <<busVars, late>>

MotorSeesStop ==
  /\ AtMotor("check") /\ stop_flag /\ MotorGoes("scopeEnd")
  /\ Destroy
  /\ UNCHANGED <<busVars, cmdmsg, late>>

MotorLeavesTry ==
  /\ AtMotor("scopeEnd") /\ life = "gone" /\ ~unwinding /\ MotorGoes("leave")
  /\ UNCHANGED <<driverVars, busVars, cmdmsg, late>>

\* The handler runs after the driver's destructor, if one ran.
MotorCatches ==
  /\ Alive /\ motorPc \notin {"leave", "done"} /\ MotorGoes("leave")
  /\ life = "failed" \/ (life = "gone" /\ unwinding)
  /\ Stop
  /\ cmdmsg' = Msg("none", 0)
  /\ UNCHANGED <<driverVars, queues, refs, late>>

MotorEnds ==
  /\ AtMotor("leave") /\ MotorGoes("done")
  /\ Release({"motorFrontend", "sensorMotor"})
  /\ UNCHANGED <<driverVars, stop_flag, cmdmsg, late>>

MotorInDriver == DriverStep /\ UNCHANGED <<busVars, threadVars>>

Motor ==
  \/ MotorConstructs \/ MotorZeroes \/ MotorCallReturns \/ MotorReadsStatus
  \/ MotorPostsStatus
  \/ MotorPops(MotorFrontend, "popFrontend", "popSensor")
  \/ MotorPops(MotorSensor, "popSensor", "check")
  \/ MotorDispatches \/ MotorSeesStop \/ MotorLeavesTry \/ MotorCatches
  \/ MotorEnds \/ MotorInDriver

-----------------------------------------------------------------------------
\* The process has ended, by returning from main() or by being terminated.
ProcessEnded ==
  /\ mainPc = "returned" \/ ~Alive
  /\ UNCHANGED vars

Next == Main \/ Sensor \/ Motor \/ ProcessEnded

Spec == Init /\ [][Next]_vars

(***************************************************************************)
(* The three threads are scheduled by the operating system, and a bus      *)
(* transfer returns or fails.  Nothing is assumed of the user.             *)
(***************************************************************************)
FairSpec == Spec /\ WF_vars(Main) /\ WF_vars(Sensor) /\ WF_vars(Motor)

-----------------------------------------------------------------------------
MainPcs   == {"spawnSensor", "spawnMotor", "curses", "frontend", "live", "popSensor",
              "popMotor", "leave", "stop", "joinMotor", "joinSensor", "returned"}
SensorPcs == {"unborn", "ctor", "check", "postData", "postSpeed", "catch", "leave", "done"}
MotorPcs  == {"unborn", "start", "ctor", "call", "check", "status", "popFrontend",
              "popSensor", "dispatch", "scopeEnd", "leave", "done"}

TypeOK ==
  /\ DriverTypeOK
  /\ queues \in [Queues -> Seq(Messages)]
  /\ refs \in [Channels -> 0 .. 2]
  /\ stop_flag \in BOOLEAN
  /\ mainPc \in MainPcs /\ sensorPc \in SensorPcs /\ motorPc \in MotorPcs
  /\ accel \in Int \X Int
  /\ cmdmsg \in Messages
  /\ late \in Nat

(***************************************************************************)
(* When main() returns, both threads have ended, the wheel stands still    *)
(* (or the driver never came up), the motor's file descriptor is closed    *)
(* and every channel has been destroyed with the messages in it: whichever *)
(* thread failed, and in whichever order the threads ended.                *)
(***************************************************************************)
CleanExit ==
  mainPc = "returned" =>
    /\ sensorPc = "done" /\ motorPc = "done"
    /\ hwSpeed = 0 \/ life = "failed"
    /\ ~fd
    /\ \A c \in Channels : refs[c] = 0
    /\ \A q \in Queues : queues[q] = <<>>

One(b) == IF b THEN 1 ELSE 0

(***************************************************************************)
(* A channel exists exactly as long as a thread that may still use one of  *)
(* its ports: the threads keep posting to the frontend after it has ended, *)
(* and never to a queue that has been destroyed.                           *)
(***************************************************************************)
ChannelLifetime ==
  LET frontend == One(mainPc \notin {"stop", "joinMotor", "joinSensor", "returned"})
      sensor   == One(sensorPc # "done")
      motor    == One(motorPc # "done")
  IN /\ refs["sensorFrontend"] = frontend + sensor
     /\ refs["motorFrontend"]  = frontend + motor
     /\ refs["sensorMotor"]    = sensor + motor

(***************************************************************************)
(* What waits at a port is what its thread expects there: the motor gets   *)
(* commands only, at the port to the sensor only plus or minus fifty, the  *)
(* frontend gets data and status, and nobody ever sends to the sensor.     *)
(* (A message of any other kind would be dropped without a word.)          *)
(***************************************************************************)
Receives(p, msgs) == \A i \in DOMAIN queues[InQueue(p)] : queues[InQueue(p)][i] \in msgs

RoutedMessages ==
  /\ Receives(MotorFrontend, [kind : {"speed"}, value : UserSpeeds]
                             \cup [kind : {"override"}, value : Registers])
  /\ Receives(MotorSensor, [kind : {"speed"}, value : {-50, 50}])
  /\ Receives(FrontendSensor, {Msg("data", 0)})
  /\ Receives(FrontendMotor, {Msg("status", 0)})
  /\ Receives(SensorFrontend, {})
  /\ Receives(SensorMotor, {})

(***************************************************************************)
(* Once the stop flag is set, the motor thread obeys at most one more      *)
(* command, the one of the round that is under way.                        *)
(***************************************************************************)
StopIsPrompt == late <= 1

(***************************************************************************)
(* speed() is called with a magnitude of at most 511, as the assertion in  *)
(* drv10975.cpp:106 says.                                                  *)
(***************************************************************************)
SpeedAssertion == death # "assert"

(***************************************************************************)
(* Setting the stop flag ends both worker threads.                         *)
(***************************************************************************)
WorkersDone == sensorPc = "done" /\ motorPc = "done"
StopEndsWorkers == stop_flag ~> (WorkersDone \/ ~Alive)

(***************************************************************************)
(* The failure of one worker stops the other one, and with it the wheel.   *)
(***************************************************************************)
FailureStopsWheel ==
  (sensorPc = "catch" \/ life = "failed" \/ unwinding)
    ~> ((WorkersDone /\ (hwSpeed = 0 \/ life = "failed")) \/ ~Alive)

(***************************************************************************)
(* Leaving the user interface, by F9 or by an exception, ends the process. *)
(***************************************************************************)
LeavingEndsProcess == mainPc = "leave" ~> (mainPc = "returned" \/ ~Alive)

Queued(p, v) == \E i \in DOMAIN queues[OutQueue(p)] : queues[OutQueue(p)][i] = Msg("speed", v)

(***************************************************************************)
(* A speed that the user has entered is eventually the one the chip is     *)
(* asked for, whatever the sensor thread sends, unless the program is      *)
(* stopped first.                                                          *)
(***************************************************************************)
UserCommandApplied ==
  \A v \in UserSpeeds :
    Queued(FrontendMotor, v) ~> (request = ToShort(v) \/ stop_flag \/ ~Alive)

(***************************************************************************)
(* A steering command is eventually obeyed if the user pauses often enough *)
(* for the motor thread to look at the sensor's queue.  (User commands     *)
(* have priority: without a pause they hold steering up for ever.)         *)
(***************************************************************************)
SteeringApplied ==
  []<>(motorPc = "popSensor" \/ stop_flag \/ ~Alive) =>
    \A v \in {-50, 50} :
      Queued(SensorMotor, v) ~> (request = v \/ stop_flag \/ ~Alive)
=============================================================================
