CONSTANTS
  Channels <- MCChannels
  Requests <- MCRequests
  Leftover <- MCLeftover
  UserSpeeds <- MCUserSpeeds
  Readings <- MCOneReading
  ConfigWrites = 1
  StatusReads = 1
  AssertsEnabled = TRUE
  MaxBacklog = 1

SPECIFICATION FairSpec

PROPERTY UserCommandApplied
PROPERTY SteeringApplied
