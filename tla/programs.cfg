CONSTANTS
  MaxStages = 3
  Amount = 3
  UserLines = 2
  PeerLines = 1
  MaxInflight = 2
  w1 = w1
  w2 = w2
  w3 = w3
  Workers = {w1, w2, w3}
  Counts = {0, 4}
  Limits <- MCLimits
  Modulus = 8
SPECIFICATION FairSpec
INVARIANTS TypeOK OutputIsSource ClientLeavesInOrder LeavesInOrder BoundedOverrun ResultTellsErrors
PROPERTIES OutputEnds TakenIsDelivered ClientEnds StartedStopsInOrder ProgramEnds EachTaskOnce RunReturns
CHECK_DEADLOCK FALSE
