SPECIFICATION FairSpec
CONSTANTS
  Person = {"p1", "p2", "p3"}
  Creator = "p1"
  MaxMatches = 3
  MaxTroubles = 2
INVARIANTS PaidOnce AttemptIsAwaited
PROPERTIES PairingEndsOnce RoomGoesOn
CHECK_DEADLOCK FALSE
