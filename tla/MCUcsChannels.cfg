SPECIFICATION UcsSpec
CONSTANTS
  Channels <- MCChannels
  Payloads <- MCPayloads
  Masks <- MCMasks
  MaxConnections = 2
INVARIANT NeverAnotherChannel
PROPERTY LearnedNamesStay
