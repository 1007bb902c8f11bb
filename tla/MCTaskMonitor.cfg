CONSTANTS
  r1 = r1  r3 = r3  c1 = c1  c2 = c2  w1 = w1  w2 = w2
  None = None
  Requests = {r1, r3}
  Monitored = {r1}
  Calls = {c1, c2}
  RequestOf <- MCRequestOf
  Protected = {r1}
  Waiters = {w1}
  MaxEntries = 1
  MaxAnswers = 2
  MaxFaults = 1
CHECK_DEADLOCK FALSE
SPECIFICATION FairSpec
INVARIANTS
  MonitorTrue
PROPERTY EveryAnswerSaved
