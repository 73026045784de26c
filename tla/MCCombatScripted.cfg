SPECIFICATION FairSpec
CONSTANTS
  Player = {a, b}
  Scripted = {b}
  Book <- MixedBook
  Health = 3
  Batch = 2
  Opening = 1
  Duration = 5
  CastTicks = 1
  Enforce = FALSE
  BotIdle = 2
  MaxDelay = 2
  MaxClock = 7
  MaxTyped = 3
  MaxCrashes = 1
INVARIANTS WindowIsCoherent
PROPERTIES ImplementsLedger MatchEnds
CHECK_DEADLOCK FALSE
