SPECIFICATION Spec
CONSTANTS
  User = {1, 2}
  Room = {r1}
  Request = {q1, q2}
  None = None
  Quitter = {1}
  TicketTicks = 2
  HoldTicks = 1
  PatienceTicks = 2
  Passes = 2
  MaxRestarts = 1
  Prompt = {}
  Drains = TRUE
  Crashes = TRUE
  Reuse = TRUE
SYMMETRY Symmetry
INVARIANTS CancelledIsTrue
