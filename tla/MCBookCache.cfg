SPECIFICATION FairSpec
CONSTANTS
  Process = {p1, p2}
  Request = {q1, q2, q3}
  None = None
  LeaseTicks = 1
  FreshTicks = 1
INVARIANTS SingleFlight BookMeansNoFailure OwnerIsJoinable
PROPERTIES NewestBookStays EveryoneAnswered
CHECK_DEADLOCK FALSE
