CONSTANTS
  Channels <- MCChannels
  Requests <- MCRequestsTooFast
  Leftover <- MCLeftover
  UserSpeeds <- MCTooFast
  Readings <- MCOneReading
  ConfigWrites = 1
  StatusReads = 1
  AssertsEnabled = TRUE
  MaxBacklog = 1

SPECIFICATION Spec

INVARIANT SpeedAssertion
