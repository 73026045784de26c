SPECIFICATION FairSpec
CONSTANTS
  Executor = {e1, e2}
  Image = {old, new, bad}
  Sound = {old, new}
  None = None
  MaxWork = 1
  MaxFaults = 3
INVARIANTS JournalAhead OpenOnTheRecord
PROPERTIES NoGameStopped MigratesAlone RecoveryEnds
CHECK_DEADLOCK FALSE
