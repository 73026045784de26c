SPECIFICATION FairSpec
CONSTANTS
  User = {1, 2, 3}
  Room = {r1, r2, r3}
  Request = {1, 2, 3}
  None = None
  Quitter = {}
  TicketTicks = 2
  HoldTicks = 1
  PatienceTicks = 1
  Passes = 1
  MaxRestarts = 0
  Prompt = {1, 2}
  Drains = FALSE
  Crashes = FALSE
  Reuse = FALSE
PROPERTIES NobodyWaitsForever
