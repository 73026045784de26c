SPECIFICATION Spec
CONSTANTS
  u1 = u1  u2 = u2  s1 = s1  s2 = s2  t1 = t1  t2 = t2
  User = {u1, u2}
  Session = {s1, s2}
  Tab = {t1, t2}
  AccountOf <- OneAccount
  SessionOf <- OneEach
  Line = {1, 2}
  None = None
  Creator = u1
  MaxTroubles = 0
PROPERTIES NewerReplacesOlder
CHECK_DEADLOCK FALSE
