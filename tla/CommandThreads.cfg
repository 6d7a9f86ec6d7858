SPECIFICATION FairSpec
CONSTANTS
  Devices = {d1}
  Threads = {t1, t2}
  Workers = {w1, w2}
  Values = {dark}
  Dark = dark
  None = None
  MaxTries = 1
  Lossy = TRUE
  MaxCalls = 3
  QueueCap = 1
INVARIANTS TableSound NoStrandedWorker
PROPERTY EveryCallReturns
