--------------------------- MODULE MCReactionWheel ---------------------------
(***************************************************************************)
(* Model values for checking the whole program.  The number the user types *)
(* does not fit a short and arrives as 300, which needs the ninth speed    *)
(* bit; the readings take the steering decision both ways; the wheel may   *)
(* have been left spinning by an earlier process.                          *)
(***************************************************************************)
EXTENDS ReactionWheel

MCChannels == {"sensorFrontend", "motorFrontend", "sensorMotor"}
MCRequests == {-50, 0, 50, 300}
MCUserSpeeds == {65536 + 300}
MCLeftover == {300}
MCReadings == {<<-1, 1>>, <<1, 1>>}

\* For the liveness runs: the sensor steers one way.
MCOneReading == {<<1, -1>>}

\* A number past the end of the range, and what speed() may then be called with.
MCTooFast == {600}
MCRequestsTooFast == MCRequests \cup MCTooFast
MCAnySpeeds == MCUserSpeeds \cup MCTooFast
=============================================================================
