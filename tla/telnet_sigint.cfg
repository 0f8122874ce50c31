CONSTANTS
  UserLines = 1
  PeerLines = 1
SPECIFICATION TelnetFairSpec
PROPERTIES SigintEnds
CHECK_DEADLOCK FALSE
