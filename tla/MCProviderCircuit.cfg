CONSTANTS
  t1 = t1  t2 = t2  p1 = p1
  Tasks = {t1, t2}
  Probes = {p1}
  Threshold = 2
  Cooldown = 1
  Lease = 1
  RetryDelays = {2}
  MaxTime = 3
  MaxEvents = 4
SPECIFICATION FairSpec
PROPERTIES
  
  Recoverable
CHECK_DEADLOCK FALSE
