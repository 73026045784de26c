SPECIFICATION Spec
CONSTANTS
  User = {1, 2}
  Room = {r1}
  Request = {q1, q2}
  None = None
  Quitter = {1, 2}
  TicketTicks = 2
  HoldTicks = 1
  PatienceTicks = 1
  Passes = 1
  MaxRestarts = 1
  Prompt = {}
  Drains = TRUE
  Crashes = TRUE
  Reuse = TRUE
SYMMETRY Symmetry
INVARIANTS DrainEmptiesQueue TicketsMatchSeats CancelledIsFree NoLockCycle
PROPERTIES SyntheticWaitsItsTurn
