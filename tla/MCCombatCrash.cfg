SPECIFICATION Spec
CONSTANTS
  Player = {a, b}
  Scripted = {}
  Book <- UniformBook
  Health = 1
  Batch = 1
  Opening = 1
  Duration = 2
  CastTicks = 1
  Enforce = FALSE
  BotIdle = 1
  MaxDelay = 1
  MaxClock = 4
  MaxTyped = 1
  MaxCrashes = 1
INVARIANTS NoIdleDuel
CHECK_DEADLOCK FALSE
