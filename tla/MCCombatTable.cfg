SPECIFICATION Spec
CONSTANTS
  Player = {a, b, c}
  Scripted = {}
  Book <- MixedBook
  Health = 2
  Batch = 2
  Opening = 1
  Duration = 3
  CastTicks = 1
  Enforce = TRUE
  BotIdle = 2
  MaxDelay = 1
  MaxClock = 5
  MaxTyped = 3
  MaxCrashes = 0
SYMMETRY Symmetry
INVARIANTS SharesAreExact NeverUnsettled EndsInItsTime NoIdleDuel CompletionsConsumedOnce
PROPERTIES FallsInOrder SettledForever LeaverIsOut
CHECK_DEADLOCK FALSE
