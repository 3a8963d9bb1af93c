CONSTANTS
  Channels <- MCChannels
  Requests <- MCRequestsTooFast
  Leftover <- MCLeftover
  UserSpeeds <- MCAnySpeeds
  Readings <- MCReadings
  ConfigWrites = 1
  StatusReads = 1
  AssertsEnabled = TRUE
  MaxBacklog = 1

SPECIFICATION Spec

INVARIANT TypeOK
INVARIANT CleanExit
INVARIANT ChannelLifetime
INVARIANT RoutedMessages
INVARIANT StopIsPrompt
