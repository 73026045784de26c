SPECIFICATION FairSpec
CONSTANTS
  Process = {p1, p2}
  Connection = {c1, c2}
  Operator = {o1}
  Room = {r1}
  User = {u1}
  None = None
  LeaseTicks = 2
  HoldTicks = 1
  MaxStarts = 2
  MaxRevision = 2
INVARIANTS FencedTransactions ReadyCertificate
PROPERTIES ImplementsBarrier LeaseIsHandedOver DrainCompletes
CHECK_DEADLOCK FALSE
