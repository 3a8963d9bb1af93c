------------------------ MODULE ReactionWheel_proofs ------------------------
(***************************************************************************)
(* Proofs about the program, for every set of user commands and readings,  *)
(* every bound on the backlog and every driver that Drv10975_proofs is     *)
(* about.                                                                  *)
(***************************************************************************)
EXTENDS ReactionWheel, DriverWheel_proofs, SequenceTheorems

UserCommands ==
  [kind : {"speed"}, value : UserSpeeds] \cup [kind : {"override"}, value : Registers]
Steering == [kind : {"speed"}, value : {-50, 50}]

\* What may wait in a queue.
Allowed(q) ==
  IF q = <<"motorFrontend", FALSE>> THEN UserCommands
  ELSE IF q = <<"sensorMotor", FALSE>> THEN Steering
  ELSE IF q = <<"sensorFrontend", TRUE>> THEN {Msg("data", 0)}
  ELSE IF q = <<"motorFrontend", TRUE>> THEN {Msg("status", 0)}
  ELSE {}

(***************************************************************************)
(* The channels: every queue holds what it should, a channel that has been *)
(* destroyed holds nothing.                                                *)
(***************************************************************************)
FrontendEnded == mainPc \in {"stop", "joinMotor", "joinSensor", "returned"}

BusInv ==
  /\ queues \in [Queues -> Seq(Messages)]
  /\ \A q \in Queues : queues[q] \in Seq(Allowed(q))
  /\ refs \in [Channels -> 0 .. 2]
  /\ \A q \in Queues : refs[q[1]] = 0 => queues[q] = <<>>
  /\ ChannelLifetime

(***************************************************************************)
(* The threads: who has been started and who has been joined.              *)
(***************************************************************************)
ThreadInv ==
  /\ mainPc \in MainPcs /\ sensorPc \in SensorPcs /\ motorPc \in MotorPcs
  /\ accel \in Int \X Int
  /\ stop_flag \in BOOLEAN
  /\ mainPc = "spawnSensor" => sensorPc = "unborn"
  /\ mainPc \in {"spawnSensor", "spawnMotor"} => motorPc = "unborn"
  /\ mainPc \in {"joinSensor", "returned"} => motorPc = "done"
  /\ mainPc = "returned" => sensorPc = "done"

(***************************************************************************)
(* The motor thread: the phase of the driver it is in, the command it is   *)
(* about to obey, and how many it has obeyed since the stop.               *)
(***************************************************************************)
MotorInv ==
  /\ cmdmsg \in Messages /\ late \in Nat
  /\ motorPc \in {"unborn", "start"} => life = "none"
  /\ motorPc \in {"leave", "done"} => life \in {"gone", "failed"}
  /\ motorPc = "dispatch" => cmdmsg \in UserCommands \cup Steering
  /\ late <= 1
  /\ late # 0 => stop_flag /\ motorPc \in {"dispatch", "call", "check", "scopeEnd", "leave", "done"}

WheelInv == DriverInv /\ BusInv /\ ThreadInv /\ MotorInv

-----------------------------------------------------------------------------
(***************************************************************************)
(* Which queue each port posts to and pops from.                           *)
(***************************************************************************)
LEMMA Ends ==
  /\ OutQueue(FrontendMotor)  = <<"motorFrontend", FALSE>>
  /\ InQueue(MotorFrontend)   = <<"motorFrontend", FALSE>>
  /\ OutQueue(MotorFrontend)  = <<"motorFrontend", TRUE>>
  /\ InQueue(FrontendMotor)   = <<"motorFrontend", TRUE>>
  /\ OutQueue(SensorFrontend) = <<"sensorFrontend", TRUE>>
  /\ InQueue(FrontendSensor)  = <<"sensorFrontend", TRUE>>
  /\ InQueue(SensorFrontend)  = <<"sensorFrontend", FALSE>>
  /\ OutQueue(SensorMotor)    = <<"sensorMotor", FALSE>>
  /\ InQueue(MotorSensor)     = <<"sensorMotor", FALSE>>
  /\ InQueue(SensorMotor)     = <<"sensorMotor", TRUE>>
BY DEF OutQueue, InQueue, Port, FrontendSensor, SensorFrontend, FrontendMotor,
       MotorFrontend, SensorMotor, MotorSensor

LEMMA AllQueues ==
  /\ \A c \in {"sensorFrontend", "motorFrontend", "sensorMotor"} :
       <<c, TRUE>> \in Queues /\ <<c, FALSE>> \in Queues
  /\ \A q \in Queues : q[1] \in Channels
BY WheelAssumption DEF Queues

(***************************************************************************)
(* Everything that may wait anywhere is a message.                         *)
(***************************************************************************)
LEMMA AllowedAreMessages ==
  /\ UserCommands \subseteq Messages /\ Steering \subseteq Messages
  /\ \A q : Allowed(q) \subseteq Messages
  /\ Msg("none", 0) \in Messages
<1>1. UserSpeeds \subseteq Int
  BY WheelAssumption
<1>2. Registers \subseteq Int
  BY DEF Registers
<1>3. UserCommands \subseteq Messages
  BY <1>1, <1>2 DEF UserCommands, Messages, Kinds
<1>4. Steering \subseteq Messages
  BY DEF Steering, Messages, Kinds
<1>5. \A k \in Kinds : Msg(k, 0) \in Messages
  BY DEF Msg, Messages
<1> QED
  BY <1>3, <1>4, <1>5 DEF Allowed, Kinds

LEMMA WhatIsAllowed ==
  /\ Allowed(InQueue(MotorFrontend)) = UserCommands
  /\ Allowed(InQueue(MotorSensor)) = Steering
  /\ Allowed(InQueue(FrontendSensor)) = {Msg("data", 0)}
  /\ Allowed(InQueue(FrontendMotor)) = {Msg("status", 0)}
  /\ Allowed(InQueue(SensorFrontend)) = {}
  /\ Allowed(InQueue(SensorMotor)) = {}
BY Ends DEF Allowed

(***************************************************************************)
(* The bus under the things that threads do to it.                         *)
(***************************************************************************)
SamePresence ==
  /\ FrontendEnded' <=> FrontendEnded
  /\ (sensorPc' = "done") <=> (sensorPc = "done")
  /\ (motorPc' = "done") <=> (motorPc = "done")

LEMMA PresenceKeepsRefs ==
  ASSUME ChannelLifetime, SamePresence, UNCHANGED refs
  PROVE  ChannelLifetime'
BY DEF ChannelLifetime, SamePresence, FrontendEnded, One

LEMMA BusUntouched ==
  ASSUME BusInv, SamePresence, UNCHANGED <<queues, refs>>
  PROVE  BusInv'
BY PresenceKeepsRefs DEF BusInv

LEMMA BusPosted ==
  ASSUME BusInv, SamePresence, UNCHANGED refs,
         NEW q \in Queues, NEW msg \in Allowed(q), refs[q[1]] # 0,
         queues' = [queues EXCEPT ![q] = Append(@, msg)]
  PROVE  BusInv'
<1>1. msg \in Messages
  BY AllowedAreMessages
<1>2. queues[q] \in Seq(Messages) /\ queues[q] \in Seq(Allowed(q))
  BY DEF BusInv
<1>3. queues' \in [Queues -> Seq(Messages)]
  BY <1>1, <1>2, AppendProperties DEF BusInv
<1>4. \A r \in Queues : queues'[r] = IF r = q THEN Append(queues[q], msg) ELSE queues[r]
  BY DEF BusInv
<1>5. \A r \in Queues : queues'[r] \in Seq(Allowed(r))
  BY <1>2, <1>4, AppendProperties DEF BusInv
<1>6. \A r \in Queues : refs'[r[1]] = 0 => queues'[r] = <<>>
  BY <1>4 DEF BusInv
<1> QED
  BY <1>3, <1>5, <1>6, PresenceKeepsRefs DEF BusInv

LEMMA BusPopped ==
  ASSUME BusInv, SamePresence, UNCHANGED refs,
         NEW q \in Queues, queues[q] # <<>>,
         queues' = [queues EXCEPT ![q] = Tail(@)]
  PROVE  BusInv' /\ Head(queues[q]) \in Allowed(q)
<1>1. queues[q] \in Seq(Messages) /\ queues[q] \in Seq(Allowed(q))
  BY DEF BusInv
<1>2. queues' \in [Queues -> Seq(Messages)]
  BY <1>1, HeadTailProperties DEF BusInv
<1>3. \A r \in Queues : queues'[r] = IF r = q THEN Tail(queues[q]) ELSE queues[r]
  BY DEF BusInv
<1>4. \A r \in Queues : queues'[r] \in Seq(Allowed(r))
  BY <1>1, <1>3, HeadTailProperties DEF BusInv
<1>5. \A r \in Queues : refs'[r[1]] = 0 => queues'[r] = <<>>
  BY <1>3 DEF BusInv
<1> QED
  BY <1>1, <1>2, <1>4, <1>5, HeadTailProperties, PresenceKeepsRefs DEF BusInv

(***************************************************************************)
(* A function ends that holds a port on each of two channels.              *)
(***************************************************************************)
LEMMA BusReleased ==
  ASSUME BusInv, NEW cs \in SUBSET Channels, Release(cs),
         ChannelLifetime', refs' \in [Channels -> 0 .. 2]
  PROVE  BusInv'
<1>1. \A q \in Queues : queues'[q] = IF refs'[q[1]] = 0 THEN <<>> ELSE queues[q]
  BY DEF Release
<1>2. \A q \in Queues : <<>> \in Seq(Allowed(q)) /\ <<>> \in Seq(Messages)
  BY EmptySeq
<1>3. queues' \in [Queues -> Seq(Messages)]
  <2>1. queues' = [q \in Queues |-> queues'[q]]
    BY DEF Release
  <2> QED
    BY <1>1, <1>2, <2>1 DEF BusInv
<1> QED
  BY <1>1, <1>2, <1>3 DEF BusInv

-----------------------------------------------------------------------------
(***************************************************************************)
(* The steps of the main and the sensor thread do not touch the driver and *)
(* what the motor thread knows.                                            *)
(***************************************************************************)
LEMMA DriverUntouched ==
  ASSUME DriverInv, UNCHANGED driverVars
  PROVE  DriverInv'
BY StepInv

LEMMA MotorUntouched ==
  ASSUME MotorInv, UNCHANGED <<life, cmdmsg, late, motorPc>>, stop_flag => stop_flag'
  PROVE  MotorInv'
BY DEF MotorInv

LEMMA InitWheel == Init => WheelInv
<1> SUFFICES ASSUME Init
             PROVE  WheelInv
  OBVIOUS
<1>1. DriverInv
  BY InitInv DEF Init
<1>2. BusInv
  <2>1. \A q \in Queues : queues[q] = <<>>
    BY DEF Init, BusInit
  <2>2. \A S : <<>> \in Seq(S)
    BY EmptySeq
  <2>3. queues \in [Queues -> Seq(Messages)]
    BY <2>2 DEF Init, BusInit
  <2>4. refs \in [Channels -> 0 .. 2] /\ \A c \in Channels : refs[c] = 2
    BY DEF Init, BusInit
  <2>5. ChannelLifetime
    BY <2>4, WheelAssumption DEF Init, ChannelLifetime, One
  <2> QED
    BY <2>1, <2>2, <2>3, <2>4, <2>5 DEF BusInv
<1>3. ThreadInv
  <2>1. accel \in Int \X Int
    BY DEF Init
  <2>2. stop_flag \in BOOLEAN
    BY DEF Init, BusInit
  <2> QED
    BY <2>1, <2>2 DEF Init, ThreadInv, MainPcs, SensorPcs, MotorPcs
<1>4. MotorInv
  BY AllowedAreMessages DEF Init, DriverInit, MotorInv
<1> QED
  BY <1>1, <1>2, <1>3, <1>4 DEF WheelInv

LEMMA MainStep ==
  ASSUME WheelInv, Main
  PROVE  WheelInv'
<1> USE DEF WheelInv
<1>1. ASSUME NEW pc, MainGoes(pc), UNCHANGED motorPc, stop_flag => stop_flag'
      PROVE  DriverInv' /\ MotorInv'
  BY <1>1, DriverUntouched, MotorUntouched DEF MainGoes, driverVars, objectVars
<1>2. CASE SpawnSensor
  <2>1. SamePresence
    BY <1>2 DEF SpawnSensor, AtMain, MainGoes, ThreadInv, SamePresence, FrontendEnded
  <2>2. ThreadInv'
    BY <1>2 DEF SpawnSensor, AtMain, MainGoes, ThreadInv, MainPcs, SensorPcs, busVars
  <2> QED
    BY <1>1, <1>2, <2>1, <2>2, BusUntouched DEF SpawnSensor, busVars
<1>3. CASE SpawnMotor
  <2>1. SamePresence
    BY <1>3 DEF SpawnMotor, AtMain, MainGoes, ThreadInv, SamePresence, FrontendEnded
  <2>2. ThreadInv'
    BY <1>3 DEF SpawnMotor, AtMain, MainGoes, ThreadInv, MainPcs, MotorPcs, busVars
  <2>3. DriverInv'
    BY <1>3, DriverUntouched DEF SpawnMotor, MainGoes
  <2>4. MotorInv'
    BY <1>3 DEF SpawnMotor, AtMain, MainGoes, ThreadInv, MotorInv, driverVars, objectVars, busVars
  <2> QED
    BY <1>3, <2>1, <2>2, <2>3, <2>4, BusUntouched DEF SpawnMotor, busVars
<1>4. CASE StartCurses
  <2>1. SamePresence /\ ThreadInv'
    BY <1>4 DEF StartCurses, AtMain, MainGoes, ThreadInv, SamePresence, FrontendEnded, MainPcs, busVars
  <2> QED
    BY <1>1, <1>4, <2>1, BusUntouched DEF StartCurses, busVars
<1>5. CASE SetupFails
  <2>1. SamePresence /\ ThreadInv' /\ MotorInv'
    BY <1>5 DEF SetupFails, threadVars, busVars, ThreadInv, SamePresence, FrontendEnded, MotorInv
  <2>2. DriverInv'
    BY <1>5 DEF SetupFails, Alive, hwVars, DriverInv, DriverTypeOK, ObjectTypeOK, ChipTypeOK,
       PhaseOK, TransferOK, ConstructionOK, ReadyOK, IdleAgrees, StoppedWhenGone, FullyConfigured
  <2> QED
    BY <1>5, <2>1, <2>2, BusUntouched DEF SetupFails, busVars
<1>6. CASE BuildFrontend
  <2>1. SamePresence /\ ThreadInv'
    BY <1>6 DEF BuildFrontend, AtMain, MainGoes, ThreadInv, SamePresence, FrontendEnded, MainPcs, busVars
  <2> QED
    BY <1>1, <1>6, <2>1, BusUntouched DEF BuildFrontend, busVars
<1>7. CASE LiveQuiet
  <2>1. SamePresence /\ ThreadInv'
    BY <1>7 DEF LiveQuiet, AtMain, MainGoes, ThreadInv, SamePresence, FrontendEnded, MainPcs, busVars
  <2> QED
    BY <1>1, <1>7, <2>1, BusUntouched DEF LiveQuiet, busVars
<1>8. ASSUME NEW msg \in UserCommands, LiveCommand(msg)
      PROVE  WheelInv'
  <2>1. SamePresence /\ ThreadInv'
    BY <1>8 DEF LiveCommand, AtMain, MainGoes, ThreadInv, SamePresence, FrontendEnded, MainPcs
  <2>2. refs["motorFrontend"] # 0
    BY <1>8 DEF LiveCommand, AtMain, BusInv, ChannelLifetime, One
  <2>3. BusInv'
    <3> DEFINE q == <<"motorFrontend", FALSE>>
    <3>1. q \in Queues /\ q[1] = "motorFrontend" /\ msg \in Allowed(q)
      BY AllQueues DEF Allowed
    <3>2. queues' = [queues EXCEPT ![q] = Append(@, msg)] /\ UNCHANGED refs
      BY <1>8, Ends DEF LiveCommand, Posted
    <3> QED
      BY <2>1, <2>2, <3>1, <3>2, BusPosted
  <2> QED
    BY <1>1, <1>8, <2>1, <2>3 DEF LiveCommand
<1>9. CASE LiveStop
  <2>1. SamePresence /\ ThreadInv'
    BY <1>9 DEF LiveStop, Stop, AtMain, MainGoes, ThreadInv, SamePresence, FrontendEnded, MainPcs
  <2> QED
    BY <1>1, <1>9, <2>1, BusUntouched DEF LiveStop, Stop
<1>10. CASE LiveF9
  <2>1. SamePresence /\ ThreadInv'
    BY <1>10 DEF LiveF9, Stop, AtMain, MainGoes, ThreadInv, SamePresence, FrontendEnded, MainPcs
  <2> QED
    BY <1>1, <1>10, <2>1, BusUntouched DEF LiveF9, Stop
<1>11. ASSUME NEW p, InQueue(p) \in Queues, NEW pc \in {"popSensor", "popMotor"},
              NEW next \in {"popMotor", "live"}, FrontendPops(p, pc, next)
       PROVE  WheelInv'
  <2>1. SamePresence /\ ThreadInv'
    BY <1>11 DEF FrontendPops, AtMain, MainGoes, ThreadInv, SamePresence, FrontendEnded, MainPcs
  <2>2. BusInv'
    <3>1. CASE Waiting(p)
      <4>1. /\ queues[InQueue(p)] # <<>> /\ UNCHANGED refs
            /\ queues' = [queues EXCEPT ![InQueue(p)] = Tail(@)]
        BY <1>11, <3>1 DEF FrontendPops, Waiting, Popped
      <4> QED
        BY <1>11, <2>1, <4>1, BusPopped
    <3>2. CASE ~Waiting(p)
      BY <1>11, <2>1, <3>2, BusUntouched DEF FrontendPops
    <3> QED
      BY <3>1, <3>2
  <2> QED
    BY <1>1, <1>11, <2>1, <2>2 DEF FrontendPops
<1>12. CASE FrontendThrows
  <2>1. SamePresence /\ ThreadInv'
    BY <1>12 DEF FrontendThrows, MainGoes, ThreadInv, SamePresence, FrontendEnded, MainPcs, busVars
  <2> QED
    BY <1>1, <1>12, <2>1, BusUntouched DEF FrontendThrows, busVars
<1>13. CASE FrontendEnds
  <2> DEFINE cs == {"sensorFrontend", "motorFrontend"}
  <2>1. ThreadInv'
    BY <1>13 DEF FrontendEnds, AtMain, MainGoes, ThreadInv, MainPcs
  <2>2. cs \in SUBSET Channels
    BY WheelAssumption
  <2>3. /\ refs' \in [Channels -> 0 .. 2]
        /\ ChannelLifetime'
    <3>1. refs' = [c \in Channels |-> IF c \in cs THEN refs[c] - 1 ELSE refs[c]]
      BY <1>13 DEF FrontendEnds, Release, RefsAfter
    <3>2. /\ refs'["sensorFrontend"] = refs["sensorFrontend"] - 1
          /\ refs'["motorFrontend"] = refs["motorFrontend"] - 1
          /\ refs'["sensorMotor"] = refs["sensorMotor"]
      BY <3>1, WheelAssumption
    <3>3. /\ refs["sensorFrontend"] = 1 + One(sensorPc # "done")
          /\ refs["motorFrontend"] = 1 + One(motorPc # "done")
          /\ refs["sensorMotor"] = One(sensorPc # "done") + One(motorPc # "done")
      BY <1>13 DEF FrontendEnds, AtMain, BusInv, ChannelLifetime, One
    <3>4. One(sensorPc # "done") \in 0 .. 1 /\ One(motorPc # "done") \in 0 .. 1
      BY DEF One
    <3>5. UNCHANGED <<sensorPc, motorPc>> /\ mainPc' = "stop"
      BY <1>13 DEF FrontendEnds, MainGoes
    <3>6. ChannelLifetime'
      BY <3>2, <3>3, <3>4, <3>5 DEF ChannelLifetime, One
    <3>7. \A c \in Channels : refs'[c] \in 0 .. 2
      BY <3>2, <3>3, <3>4, WheelAssumption
    <3> QED
      BY <3>1, <3>6, <3>7
  <2>4. BusInv'
    BY <1>13, <2>2, <2>3, BusReleased DEF FrontendEnds
  <2> QED
    BY <1>1, <1>13, <2>1, <2>4 DEF FrontendEnds
<1>14. CASE MainStops
  <2>1. SamePresence /\ ThreadInv'
    BY <1>14 DEF MainStops, Stop, AtMain, MainGoes, ThreadInv, SamePresence, FrontendEnded, MainPcs
  <2> QED
    BY <1>1, <1>14, <2>1, BusUntouched DEF MainStops, Stop
<1>15. CASE JoinMotor
  <2>1. SamePresence /\ ThreadInv'
    BY <1>15 DEF JoinMotor, AtMain, MainGoes, ThreadInv, SamePresence, FrontendEnded, MainPcs, busVars
  <2> QED
    BY <1>1, <1>15, <2>1, BusUntouched DEF JoinMotor, busVars
<1>16. CASE JoinSensor
  <2>1. SamePresence /\ ThreadInv'
    BY <1>16 DEF JoinSensor, AtMain, MainGoes, ThreadInv, SamePresence, FrontendEnded, MainPcs, busVars
  <2> QED
    BY <1>1, <1>16, <2>1, BusUntouched DEF JoinSensor, busVars
<1>17. /\ \A v \in UserSpeeds : Msg("speed", v) \in UserCommands
       /\ \A r \in Registers : Msg("override", r) \in UserCommands
  BY DEF Msg, UserCommands
<1>18. InQueue(FrontendSensor) \in Queues /\ InQueue(FrontendMotor) \in Queues
  BY Ends, AllQueues
<1> QED
  BY <1>2, <1>3, <1>4, <1>5, <1>6, <1>7, <1>8, <1>9, <1>10, <1>11, <1>12, <1>13,
     <1>14, <1>15, <1>16, <1>17, <1>18 DEF Main

-----------------------------------------------------------------------------
LEMMA SensorStep ==
  ASSUME WheelInv, Sensor
  PROVE  WheelInv'
<1> USE DEF WheelInv
<1>1. ASSUME NEW pc, SensorGoes(pc), stop_flag => stop_flag'
      PROVE  DriverInv' /\ MotorInv'
  BY <1>1, DriverUntouched, MotorUntouched DEF SensorGoes, driverVars, objectVars
<1>2. CASE SensorConstructs
  <2>1. SamePresence
    BY <1>2 DEF SensorConstructs, AtSensor, SensorGoes, SamePresence, FrontendEnded
  <2>2. ThreadInv'
    BY <1>2 DEF SensorConstructs, AtSensor, SensorGoes, ThreadInv, SensorPcs, busVars
  <2> QED
    BY <1>1, <1>2, <2>1, <2>2, BusUntouched DEF SensorConstructs, busVars
<1>3. CASE SensorSeesStop
  <2>1. SamePresence
    BY <1>3 DEF SensorSeesStop, AtSensor, SensorGoes, SamePresence, FrontendEnded
  <2>2. ThreadInv'
    BY <1>3 DEF SensorSeesStop, AtSensor, SensorGoes, ThreadInv, SensorPcs, busVars
  <2> QED
    BY <1>1, <1>3, <2>1, <2>2, BusUntouched DEF SensorSeesStop, busVars
<1>4. CASE SensorUpdates
  <2>1. SamePresence
    BY <1>4 DEF SensorUpdates, AtSensor, SensorGoes, SamePresence, FrontendEnded
  <2>2. accel' \in Int \X Int
    BY <1>4, WheelAssumption DEF SensorUpdates, ThreadInv
  <2>3. ThreadInv'
    BY <1>4, <2>2 DEF SensorUpdates, AtSensor, SensorGoes, ThreadInv, SensorPcs, busVars
  <2> QED
    BY <1>1, <1>4, <2>1, <2>3, BusUntouched DEF SensorUpdates, busVars
<1>5. CASE SensorPostsData
  <2>1. SamePresence /\ ThreadInv'
    BY <1>5 DEF SensorPostsData, AtSensor, SensorGoes, ThreadInv, SamePresence, FrontendEnded, SensorPcs
  <2>2. refs["sensorFrontend"] # 0
    BY <1>5 DEF SensorPostsData, AtSensor, BusInv, ChannelLifetime, One
  <2>3. BusInv'
    <3> DEFINE q == <<"sensorFrontend", TRUE>>
    <3>1. q \in Queues /\ q[1] = "sensorFrontend" /\ Msg("data", 0) \in Allowed(q)
      BY AllQueues DEF Allowed
    <3>2. queues' = [queues EXCEPT ![q] = Append(@, Msg("data", 0))] /\ UNCHANGED refs
      BY <1>5, Ends DEF SensorPostsData, Posted
    <3> QED
      BY <2>1, <2>2, <3>1, <3>2, BusPosted
  <2> QED
    BY <1>1, <1>5, <2>1, <2>3 DEF SensorPostsData
<1>6. CASE SensorPostsSpeed
  <2> DEFINE msg == Msg("speed", SteerSpeed(accel))
  <2>1. SamePresence /\ ThreadInv'
    BY <1>6 DEF SensorPostsSpeed, AtSensor, SensorGoes, ThreadInv, SamePresence, FrontendEnded, SensorPcs
  <2>2. refs["sensorMotor"] # 0
    BY <1>6 DEF SensorPostsSpeed, AtSensor, BusInv, ChannelLifetime, One
  <2>3. BusInv'
    <3> DEFINE q == <<"sensorMotor", FALSE>>
    <3>1. SteerSpeed(accel) \in {-50, 50}
      BY DEF SteerSpeed
    <3>2. q \in Queues /\ q[1] = "sensorMotor" /\ msg \in Allowed(q)
      BY <3>1, AllQueues DEF Allowed, Steering, Msg
    <3>3. queues' = [queues EXCEPT ![q] = Append(@, msg)] /\ UNCHANGED refs
      BY <1>6, Ends DEF SensorPostsSpeed, Posted
    <3> HIDE DEF msg
    <3> QED
      BY <2>1, <2>2, <3>2, <3>3, BusPosted
  <2> QED
    BY <1>1, <1>6, <2>1, <2>3 DEF SensorPostsSpeed
<1>7. CASE SensorCatches
  <2>1. SamePresence
    BY <1>7 DEF SensorCatches, AtSensor, SensorGoes, SamePresence, FrontendEnded
  <2>2. ThreadInv'
    BY <1>7 DEF SensorCatches, Stop, AtSensor, SensorGoes, ThreadInv, SensorPcs
  <2> QED
    BY <1>1, <1>7, <2>1, <2>2, BusUntouched DEF SensorCatches, Stop
<1>8. CASE SensorEnds
  <2> DEFINE cs == {"sensorFrontend", "sensorMotor"}
  <2>1. ThreadInv'
    BY <1>8 DEF SensorEnds, AtSensor, SensorGoes, ThreadInv, SensorPcs
  <2>2. cs \in SUBSET Channels
    BY WheelAssumption
  <2>3. refs' \in [Channels -> 0 .. 2] /\ ChannelLifetime'
    <3> DEFINE frontend == mainPc \notin {"stop", "joinMotor", "joinSensor", "returned"}
    <3>1. refs' = [c \in Channels |-> IF c \in cs THEN refs[c] - 1 ELSE refs[c]]
      BY <1>8 DEF SensorEnds, Release, RefsAfter
    <3>2. /\ refs'["sensorFrontend"] = refs["sensorFrontend"] - 1
          /\ refs'["sensorMotor"] = refs["sensorMotor"] - 1
          /\ refs'["motorFrontend"] = refs["motorFrontend"]
      BY <3>1, WheelAssumption
    <3>3. /\ refs["sensorFrontend"] = One(frontend) + 1
          /\ refs["motorFrontend"] = One(frontend) + One(motorPc # "done")
          /\ refs["sensorMotor"] = 1 + One(motorPc # "done")
      BY <1>8 DEF SensorEnds, AtSensor, BusInv, ChannelLifetime, One
    <3>4. One(frontend) \in 0 .. 1 /\ One(motorPc # "done") \in 0 .. 1
      BY DEF One
    <3>5. UNCHANGED <<mainPc, motorPc>> /\ sensorPc' = "done"
      BY <1>8 DEF SensorEnds, SensorGoes
    <3>6. ChannelLifetime'
      BY <3>2, <3>3, <3>4, <3>5 DEF ChannelLifetime, One
    <3>7. \A c \in Channels : refs'[c] \in 0 .. 2
      BY <3>2, <3>3, <3>4, WheelAssumption
    <3> QED
      BY <3>1, <3>6, <3>7
  <2>4. BusInv'
    BY <1>8, <2>2, <2>3, BusReleased DEF SensorEnds
  <2> QED
    BY <1>1, <1>8, <2>1, <2>4 DEF SensorEnds
<1> QED
  BY <1>2, <1>3, <1>4, <1>5, <1>6, <1>7, <1>8 DEF Sensor

-----------------------------------------------------------------------------
(***************************************************************************)
(* The commands that reach the driver are requests it is made for.         *)
(***************************************************************************)
LEMMA CommandsAreRequests ==
  ASSUME NEW msg \in UserCommands \cup Steering
  PROVE  /\ msg.kind = "speed" => ToShort(msg.value) \in Requests
         /\ msg.kind = "override" => msg.value \in Registers
<1>1. \A v \in UserSpeeds : ToShort(v) \in Requests
  BY WheelAssumption
<1>2. ToShort(50) = 50 /\ ToShort(-50) = -50
  BY DEF ToShort
<1>3. -50 \in Requests /\ 50 \in Requests
  BY WheelAssumption
<1>4. msg \in UserCommands => (msg.kind = "speed" => msg.value \in UserSpeeds)
                              /\ (msg.kind = "override" => msg.value \in Registers)
  BY DEF UserCommands
<1>5. msg \in Steering => msg.kind = "speed" /\ msg.value \in {-50, 50}
  BY DEF Steering
<1> QED
  BY <1>1, <1>2, <1>3, <1>4, <1>5

LEMMA DriverStepped ==
  ASSUME DriverInv, DriverNext
  PROVE  DriverInv'
BY StepInv

(***************************************************************************)
(* An operation of the driver that is in progress belongs to a living      *)
(* object.                                                                 *)
(***************************************************************************)
LEMMA DriverStepLives ==
  ASSUME DriverInv, DriverStep
  PROVE  life \in {"ctor", "ready", "dtor"}
<1>1. at # "idle"
  BY DEF DriverStep, About, Open, SelectSlave, WriteEnable, InitDirPin, ClearDirPin,
     SetDirPin, WriteConfig, ZeroSpeed, WriteMsb, WriteLsb, ReadRegister
<1> QED
  BY <1>1 DEF DriverInv, PhaseOK, DriverTypeOK, ObjectTypeOK

LEMMA MotorStep ==
  ASSUME WheelInv, Motor
  PROVE  WheelInv'
<1> USE DEF WheelInv
<1>1. ASSUME motorPc # "done", motorPc' # "done", UNCHANGED <<mainPc, sensorPc>>
      PROVE  SamePresence
  BY <1>1 DEF SamePresence, FrontendEnded
<1>2. ASSUME NEW pc \in MotorPcs, MotorGoes(pc), motorPc \notin {"unborn", "done"},
             stop_flag' \in BOOLEAN
      PROVE  ThreadInv'
  BY <1>2 DEF MotorGoes, ThreadInv
<1>3. CASE MotorConstructs
  <2>1. DriverInv'
    BY <1>3, DriverStepped DEF MotorConstructs, DriverNext, ClientCall
  <2>2. SamePresence /\ ThreadInv'
    BY <1>1, <1>2, <1>3 DEF MotorConstructs, AtMotor, MotorGoes, MotorPcs, busVars, ThreadInv
  <2>3. MotorInv'
    BY <1>3 DEF MotorConstructs, AtMotor, MotorGoes, MotorInv
  <2> QED
    BY <1>3, <2>1, <2>2, <2>3, BusUntouched DEF MotorConstructs, busVars
<1>4. CASE MotorZeroes
  <2>1. DriverInv'
    BY <1>4, DriverStepped, DriverAssumption DEF MotorZeroes, DriverNext, ClientCall
  <2>2. SamePresence /\ ThreadInv'
    BY <1>1, <1>2, <1>4 DEF MotorZeroes, AtMotor, MotorGoes, MotorPcs, busVars, ThreadInv
  <2>3. MotorInv'
    BY <1>4 DEF MotorZeroes, AtMotor, MotorGoes, MotorInv, busVars
  <2> QED
    BY <1>4, <2>1, <2>2, <2>3, BusUntouched DEF MotorZeroes, busVars
<1>5. CASE MotorCallReturns
  <2>1. DriverInv'
    BY <1>5, DriverUntouched DEF MotorCallReturns
  <2>2. SamePresence /\ ThreadInv'
    BY <1>1, <1>2, <1>5 DEF MotorCallReturns, AtMotor, MotorGoes, MotorPcs, busVars, ThreadInv
  <2>3. MotorInv'
    BY <1>5 DEF MotorCallReturns, AtMotor, MotorGoes, MotorInv, busVars
  <2> QED
    BY <1>5, <2>1, <2>2, <2>3, BusUntouched DEF MotorCallReturns, busVars
<1>6. CASE MotorReadsStatus
  <2>1. DriverInv'
    BY <1>6, DriverStepped DEF MotorReadsStatus, DriverNext, ClientCall
  <2>2. SamePresence /\ ThreadInv'
    BY <1>1, <1>2, <1>6 DEF MotorReadsStatus, AtMotor, MotorGoes, MotorPcs, busVars, ThreadInv
  <2>3. MotorInv'
    BY <1>6 DEF MotorReadsStatus, AtMotor, MotorGoes, MotorInv, busVars
  <2> QED
    BY <1>6, <2>1, <2>2, <2>3, BusUntouched DEF MotorReadsStatus, busVars
<1>7. CASE MotorPostsStatus
  <2>1. DriverInv'
    BY <1>7, DriverUntouched DEF MotorPostsStatus
  <2>2. SamePresence /\ ThreadInv'
    BY <1>1, <1>2, <1>7 DEF MotorPostsStatus, AtMotor, MotorGoes, MotorPcs, ThreadInv
  <2>3. MotorInv'
    BY <1>7 DEF MotorPostsStatus, AtMotor, MotorGoes, MotorInv, driverVars, objectVars
  <2>4. BusInv'
    <3> DEFINE q == <<"motorFrontend", TRUE>>
    <3>1. q \in Queues /\ q[1] = "motorFrontend" /\ Msg("status", 0) \in Allowed(q)
      BY AllQueues DEF Allowed
    <3>2. queues' = [queues EXCEPT ![q] = Append(@, Msg("status", 0))] /\ UNCHANGED refs
      BY <1>7, Ends DEF MotorPostsStatus, Posted
    <3>3. refs["motorFrontend"] # 0
      BY <1>7 DEF MotorPostsStatus, AtMotor, BusInv, ChannelLifetime, One
    <3> QED
      BY <2>2, <3>1, <3>2, <3>3, BusPosted
  <2> QED
    BY <2>1, <2>2, <2>3, <2>4
<1>8. ASSUME NEW p, InQueue(p) \in Queues, Allowed(InQueue(p)) \subseteq UserCommands \cup Steering,
             NEW pc \in {"popFrontend", "popSensor"}, NEW empty \in {"popSensor", "check"},
             MotorPops(p, pc, empty)
      PROVE  WheelInv'
  <2>1. DriverInv'
    BY <1>8, DriverUntouched DEF MotorPops
  <2>2. SamePresence /\ ThreadInv'
    <3>1. CASE MotorGoes("dispatch")
      BY <1>1, <1>2, <1>8, <3>1 DEF MotorPops, AtMotor, MotorGoes, MotorPcs, ThreadInv
    <3>2. CASE MotorGoes(empty)
      BY <1>1, <1>2, <1>8, <3>2 DEF MotorPops, AtMotor, MotorGoes, MotorPcs, ThreadInv
    <3> QED
      BY <1>8, <3>1, <3>2 DEF MotorPops
  <2>3. late = 0
    BY <1>8 DEF MotorPops, AtMotor, MotorInv
  <2>4. CASE Waiting(p) /\ MotorGoes("dispatch")
    <3>1. /\ queues[InQueue(p)] # <<>> /\ UNCHANGED refs
          /\ queues' = [queues EXCEPT ![InQueue(p)] = Tail(@)]
          /\ cmdmsg' = Head(queues[InQueue(p)])
      BY <1>8, <2>4 DEF MotorPops, Waiting, Popped, First
    <3>2. BusInv' /\ cmdmsg' \in UserCommands \cup Steering
      BY <1>8, <2>2, <3>1, BusPopped
    <3>3. late' = (IF stop_flag THEN late + 1 ELSE late) /\ UNCHANGED stop_flag /\ UNCHANGED life
      BY <1>8, <2>4 DEF MotorPops, driverVars, objectVars
    <3>4. late' \in Nat /\ late' <= 1 /\ (late' # 0 => stop_flag')
      BY <2>3, <3>3
    <3>5. MotorInv'
      BY <2>4, <3>2, <3>4, AllowedAreMessages DEF MotorGoes, MotorInv
    <3> QED
      BY <2>1, <2>2, <3>2, <3>5
  <2>5. CASE ~Waiting(p) /\ MotorGoes(empty)
    <3>1. UNCHANGED <<queues, refs, stop_flag, cmdmsg, late, life>>
      BY <1>8, <2>5 DEF MotorPops, driverVars, objectVars
    <3>2. MotorInv'
      BY <2>3, <2>5, <3>1 DEF MotorGoes, MotorInv
    <3> QED
      BY <2>1, <2>2, <3>1, <3>2, BusUntouched
  <2> QED
    BY <1>8, <2>4, <2>5 DEF MotorPops
<1>9. CASE MotorDispatches
  <2>1. DriverInv'
    <3>1. motorPc = "dispatch" /\ cmdmsg \in UserCommands \cup Steering
      BY <1>9 DEF MotorDispatches, AtMotor, MotorInv
    <3>2. \/ \E s \in Requests : CallSpeed(s)
          \/ \E r \in Registers : Swallow(r)
      BY <1>9, <3>1, CommandsAreRequests DEF MotorDispatches
    <3> QED
      BY <3>2, DriverStepped DEF DriverNext, ClientCall
  <2>2. SamePresence /\ ThreadInv'
    BY <1>1, <1>2, <1>9 DEF MotorDispatches, AtMotor, MotorGoes, MotorPcs, busVars, ThreadInv
  <2>3. MotorInv'
    BY <1>9, AllowedAreMessages DEF MotorDispatches, AtMotor, MotorGoes, MotorInv, busVars
  <2> QED
    BY <1>9, <2>1, <2>2, <2>3, BusUntouched DEF MotorDispatches, busVars
<1>10. CASE MotorSeesStop
  <2>1. DriverInv'
    BY <1>10, DriverStepped DEF MotorSeesStop, DriverNext, ClientCall
  <2>2. SamePresence /\ ThreadInv'
    BY <1>1, <1>2, <1>10 DEF MotorSeesStop, AtMotor, MotorGoes, MotorPcs, busVars, ThreadInv
  <2>3. MotorInv'
    BY <1>10 DEF MotorSeesStop, AtMotor, MotorGoes, MotorInv, busVars
  <2> QED
    BY <1>10, <2>1, <2>2, <2>3, BusUntouched DEF MotorSeesStop, busVars
<1>11. CASE MotorLeavesTry
  <2>1. DriverInv'
    BY <1>11, DriverUntouched DEF MotorLeavesTry
  <2>2. SamePresence /\ ThreadInv'
    BY <1>1, <1>2, <1>11 DEF MotorLeavesTry, AtMotor, MotorGoes, MotorPcs, busVars, ThreadInv
  <2>3. MotorInv'
    BY <1>11 DEF MotorLeavesTry, AtMotor, MotorGoes, MotorInv, busVars, driverVars, objectVars
  <2> QED
    BY <1>11, <2>1, <2>2, <2>3, BusUntouched DEF MotorLeavesTry, busVars
<1>12. CASE MotorCatches
  <2>1. DriverInv'
    BY <1>12, DriverUntouched DEF MotorCatches
  <2>2. motorPc # "unborn"
    BY <1>12 DEF MotorCatches, MotorInv
  <2>3. SamePresence /\ ThreadInv'
    BY <1>1, <1>2, <1>12, <2>2 DEF MotorCatches, Stop, MotorGoes, MotorPcs
  <2>4. MotorInv'
    BY <1>12, AllowedAreMessages DEF MotorCatches, Stop, MotorGoes, MotorInv, driverVars, objectVars
  <2> QED
    BY <1>12, <2>1, <2>3, <2>4, BusUntouched DEF MotorCatches
<1>13. CASE MotorEnds
  <2> DEFINE cs == {"motorFrontend", "sensorMotor"}
  <2>1. DriverInv'
    BY <1>13, DriverUntouched DEF MotorEnds
  <2>2. ThreadInv'
    BY <1>2, <1>13 DEF MotorEnds, AtMotor, MotorPcs, ThreadInv
  <2>3. MotorInv'
    BY <1>13 DEF MotorEnds, AtMotor, MotorGoes, MotorInv, driverVars, objectVars
  <2>4. cs \in SUBSET Channels
    BY WheelAssumption
  <2>5. refs' \in [Channels -> 0 .. 2] /\ ChannelLifetime'
    <3> DEFINE frontend == mainPc \notin {"stop", "joinMotor", "joinSensor", "returned"}
    <3>1. refs' = [c \in Channels |-> IF c \in cs THEN refs[c] - 1 ELSE refs[c]]
      BY <1>13 DEF MotorEnds, Release, RefsAfter
    <3>2. /\ refs'["motorFrontend"] = refs["motorFrontend"] - 1
          /\ refs'["sensorMotor"] = refs["sensorMotor"] - 1
          /\ refs'["sensorFrontend"] = refs["sensorFrontend"]
      BY <3>1, WheelAssumption
    <3>3. /\ refs["motorFrontend"] = One(frontend) + 1
          /\ refs["sensorFrontend"] = One(frontend) + One(sensorPc # "done")
          /\ refs["sensorMotor"] = One(sensorPc # "done") + 1
      BY <1>13 DEF MotorEnds, AtMotor, BusInv, ChannelLifetime, One
    <3>4. One(frontend) \in 0 .. 1 /\ One(sensorPc # "done") \in 0 .. 1
      BY DEF One
    <3>5. UNCHANGED <<mainPc, sensorPc>> /\ motorPc' = "done"
      BY <1>13 DEF MotorEnds, MotorGoes
    <3>6. ChannelLifetime'
      BY <3>2, <3>3, <3>4, <3>5 DEF ChannelLifetime, One
    <3>7. \A c \in Channels : refs'[c] \in 0 .. 2
      BY <3>2, <3>3, <3>4, WheelAssumption
    <3> QED
      BY <3>1, <3>6, <3>7
  <2>6. BusInv'
    BY <1>13, <2>4, <2>5, BusReleased DEF MotorEnds
  <2> QED
    BY <2>1, <2>2, <2>3, <2>6
<1>14. CASE MotorInDriver
  <2>1. DriverInv'
    BY <1>14, DriverStepped DEF MotorInDriver, DriverNext
  <2>2. SamePresence /\ ThreadInv'
    BY <1>14 DEF MotorInDriver, threadVars, busVars, ThreadInv, SamePresence, FrontendEnded
  <2>3. MotorInv'
    BY <1>14, DriverStepLives DEF MotorInDriver, threadVars, busVars, MotorInv
  <2> QED
    BY <1>14, <2>1, <2>2, <2>3, BusUntouched DEF MotorInDriver, busVars
<1>15. /\ InQueue(MotorFrontend) \in Queues /\ InQueue(MotorSensor) \in Queues
       /\ Allowed(InQueue(MotorFrontend)) = UserCommands
       /\ Allowed(InQueue(MotorSensor)) = Steering
  BY Ends, AllQueues, WhatIsAllowed
<1> QED
  BY <1>3, <1>4, <1>5, <1>6, <1>7, <1>8, <1>9, <1>10, <1>11, <1>12, <1>13, <1>14, <1>15
     DEF Motor

-----------------------------------------------------------------------------
LEMMA StepWheel == WheelInv /\ [Next]_vars => WheelInv'
<1> SUFFICES ASSUME WheelInv, [Next]_vars
             PROVE  WheelInv'
  OBVIOUS
<1>1. CASE UNCHANGED vars
  <2>1. SamePresence /\ ThreadInv'
    BY <1>1 DEF WheelInv, vars, threadVars, busVars, ThreadInv, SamePresence, FrontendEnded
  <2>2. DriverInv' /\ MotorInv'
    BY <1>1, DriverUntouched, MotorUntouched
       DEF WheelInv, vars, threadVars, busVars, driverVars, objectVars
  <2> QED
    BY <1>1, <2>1, <2>2, BusUntouched DEF WheelInv, vars, busVars
<1> QED
  BY <1>1, MainStep, SensorStep, MotorStep DEF Next, ProcessEnded

LEMMA AlwaysWheelInv == Spec => []WheelInv
BY InitWheel, StepWheel, PTL DEF Spec

(***************************************************************************)
(* Type correctness of the program.                                        *)
(***************************************************************************)
THEOREM ProgramTypeCorrect == Spec => []TypeOK
<1>1. WheelInv => TypeOK
  BY DEF WheelInv, DriverInv, BusInv, ThreadInv, MotorInv, TypeOK
<1> QED
  BY <1>1, AlwaysWheelInv, PTL

(***************************************************************************)
(* A channel exists exactly as long as a thread that may use it.           *)
(***************************************************************************)
THEOREM ChannelsLiveWhileUsed == Spec => []ChannelLifetime
<1>1. WheelInv => ChannelLifetime
  BY DEF WheelInv, BusInv
<1> QED
  BY <1>1, AlwaysWheelInv, PTL

(***************************************************************************)
(* Every message arrives at the thread it is meant for.                    *)
(***************************************************************************)
THEOREM MessagesAreRouted == Spec => []RoutedMessages
<1>1. ASSUME WheelInv, NEW p, InQueue(p) \in Queues
      PROVE  Receives(p, Allowed(InQueue(p)))
  <2>1. queues[InQueue(p)] \in Seq(Allowed(InQueue(p)))
    BY <1>1 DEF WheelInv, BusInv
  <2>2. \A i \in 1 .. Len(queues[InQueue(p)]) : queues[InQueue(p)][i] \in Allowed(InQueue(p))
    BY <2>1, ElementOfSeq
  <2>3. DOMAIN queues[InQueue(p)] = 1 .. Len(queues[InQueue(p)])
    BY <2>1, LenProperties
  <2> QED
    BY <2>2, <2>3 DEF Receives
<1>2. /\ InQueue(MotorFrontend) \in Queues /\ InQueue(MotorSensor) \in Queues
      /\ InQueue(FrontendSensor) \in Queues /\ InQueue(FrontendMotor) \in Queues
      /\ InQueue(SensorFrontend) \in Queues /\ InQueue(SensorMotor) \in Queues
  BY Ends, AllQueues
<1>3. WheelInv => RoutedMessages
  BY <1>1, <1>2, WhatIsAllowed, ZenonT(40) DEF RoutedMessages, UserCommands, Steering
<1> QED
  BY <1>3, AlwaysWheelInv, PTL

(***************************************************************************)
(* After a stop the motor thread obeys at most the command of the round    *)
(* that is under way, whatever waits in its queues.                        *)
(***************************************************************************)
THEOREM StopIsObeyedPromptly == Spec => []StopIsPrompt
<1>1. WheelInv => StopIsPrompt
  BY DEF WheelInv, MotorInv, StopIsPrompt
<1> QED
  BY <1>1, AlwaysWheelInv, PTL

(***************************************************************************)
(* When main() returns the wheel stands still, the descriptor is closed    *)
(* and nothing is left of the channels.                                    *)
(***************************************************************************)
THEOREM ExitIsClean == Spec => []CleanExit
<1>1. WheelInv => CleanExit
  <2> SUFFICES ASSUME WheelInv, mainPc = "returned"
               PROVE  /\ sensorPc = "done" /\ motorPc = "done"
                      /\ hwSpeed = 0 \/ life = "failed"
                      /\ ~fd
                      /\ \A c \in Channels : refs[c] = 0
                      /\ \A q \in Queues : queues[q] = <<>>
    BY DEF CleanExit
  <2>1. sensorPc = "done" /\ motorPc = "done"
    BY DEF WheelInv, ThreadInv
  <2>2. (hwSpeed = 0 \/ life = "failed") /\ ~fd
    BY <2>1 DEF WheelInv, MotorInv, DriverInv, StoppedWhenGone
  <2>3. \A c \in Channels : refs[c] = 0
    BY <2>1, WheelAssumption DEF WheelInv, BusInv, ChannelLifetime, One
  <2>4. \A q \in Queues : queues[q] = <<>>
    BY <2>3, AllQueues DEF WheelInv, BusInv
  <2> QED
    BY <2>1, <2>2, <2>3, <2>4
<1> QED
  BY <1>1, AlwaysWheelInv, PTL

-----------------------------------------------------------------------------
(***************************************************************************)
(* The program is a client of the driver that Drv10975 allows: each of its *)
(* steps is a step of the driver's specification or leaves the driver      *)
(* alone, but for a failed set-up, which ends the process.                 *)
(***************************************************************************)
LEMMA StepsOfTheDriver ==
  ASSUME WheelInv, [Next]_vars
  PROVE  [DriverNext \/ SetupFails]_driverVars
<1>1. CASE Main
  BY <1>1 DEF Main, MainGoes, SpawnSensor, SpawnMotor, StartCurses, BuildFrontend, LiveQuiet,
     LiveStop, LiveF9, LiveCommand, FrontendPops, FrontendThrows, FrontendEnds, MainStops,
     JoinMotor, JoinSensor
<1>2. CASE Sensor
  BY <1>2 DEF Sensor, SensorGoes, SensorConstructs, SensorSeesStop, SensorUpdates,
     SensorPostsData, SensorPostsSpeed, SensorCatches, SensorEnds
<1>3. CASE Motor
  <2>1. CASE MotorDispatches
    <3>1. cmdmsg \in UserCommands \cup Steering
      BY <2>1 DEF WheelInv, MotorInv, MotorDispatches, AtMotor
    <3> QED
      BY <2>1, <3>1, CommandsAreRequests DEF MotorDispatches, DriverNext, ClientCall
  <2>2. CASE MotorConstructs \/ MotorZeroes \/ MotorReadsStatus \/ MotorSeesStop \/ MotorInDriver
    BY <2>2, DriverAssumption DEF MotorConstructs, MotorZeroes, MotorReadsStatus, MotorSeesStop,
       MotorInDriver, DriverNext, ClientCall
  <2>3. CASE MotorCallReturns \/ MotorPostsStatus \/ MotorLeavesTry \/ MotorCatches \/ MotorEnds
    BY <2>3 DEF MotorCallReturns, MotorPostsStatus, MotorLeavesTry, MotorCatches, MotorEnds
  <2>4. ASSUME NEW p, NEW pc, NEW empty, MotorPops(p, pc, empty)
        PROVE  UNCHANGED driverVars
    BY <2>4 DEF MotorPops
  <2> QED
    BY <1>3, <2>1, <2>2, <2>3, <2>4 DEF Motor
<1>4. CASE ProcessEnded \/ UNCHANGED vars
  BY <1>4 DEF ProcessEnded, vars
<1> QED
  BY <1>1, <1>2, <1>3, <1>4 DEF Next

(***************************************************************************)
(* The refinement as a theorem.                                            *)
(***************************************************************************)
THEOREM ProgramUsesDriver ==
  Spec => DriverInit /\ [][DriverNext \/ SetupFails]_driverVars
<1>1. Init => DriverInit
  BY DEF Init
<1> QED
  BY <1>1, AlwaysWheelInv, StepsOfTheDriver, PTL DEF Spec

(***************************************************************************)
(* In the running program, too, the chip adopts only the speed that is     *)
(* being requested, whoever sent the command.                              *)
(***************************************************************************)
THEOREM NoMixedSpeedInProgram == Spec => CommitsRequest
<1>1. WheelInv /\ [Next]_vars => [hwSpeed' # hwSpeed => hwSpeed' = Wire(request)]_driverVars
  <2> SUFFICES ASSUME WheelInv, [Next]_vars, hwSpeed' # hwSpeed
               PROVE  hwSpeed' = Wire(request)
    OBVIOUS
  <2>1. DriverNext \/ SetupFails \/ UNCHANGED driverVars
    BY StepsOfTheDriver
  <2>2. DriverNext
    BY <2>1 DEF SetupFails, hwVars, driverVars
  <2> QED
    BY <2>2, CommitStep DEF WheelInv
<1> QED
  BY <1>1, AlwaysWheelInv, PTL DEF Spec, CommitsRequest

(***************************************************************************)
(* The wheel of the running program is the abstract wheel as well: the     *)
(* commands of two threads, failures of both buses and a stop at any time  *)
(* are to it a sequence of orders, each obeyed before the next, or given   *)
(* up.  A set-up that fails is the death of the process.                   *)
(***************************************************************************)
LEMMA SetupFailsRefines == DriverInv /\ SetupFails => W!Next
<1> SUFFICES ASSUME DriverInv, SetupFails PROVE W!Next
  OBVIOUS
<1>1. death = "no" /\ death' = "main" /\ UNCHANGED <<life, request, hwSpeed, hwDir>>
  BY DEF SetupFails, Alive, hwVars
<1>2. Stage' = "dead" /\ Stage # "dead"
  BY <1>1, StageOf, StageAfter DEF DriverInv, DriverTypeOK, ObjectTypeOK
<1>3. UNCHANGED OrderOf(request)
  BY <1>1, OrderKept
<1> QED
  BY <1>1, <1>2, <1>3 DEF W!Next, W!Die

THEOREM ProgramIsWheel == Spec => ImplementsWheel
<1>1. Init => W!Init
  BY WheelInit DEF Init
<1>2. WheelInv /\ [Next]_vars => [W!Next]_(W!wheelVars)
  <2> SUFFICES ASSUME WheelInv, [Next]_vars
               PROVE  W!Next \/ UNCHANGED W!wheelVars
    OBVIOUS
  <2>1. DriverNext \/ SetupFails \/ UNCHANGED driverVars
    BY StepsOfTheDriver
  <2>2. DriverInv
    BY DEF WheelInv
  <2> QED
    BY <2>1, <2>2, WheelStep, SetupFailsRefines
<1> QED
  BY <1>1, <1>2, AlwaysWheelInv, PTL DEF Spec, ImplementsWheel, W!Spec
=============================================================================
