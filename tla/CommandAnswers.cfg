SPECIFICATION Spec
CONSTANTS
  Devices = {d1, d2}
  Threads = {t1, t2}
  Workers = {w1, w2}
  Values = {dark}
  Dark = dark
  None = None
  MaxTries = 2
  Lossy = FALSE
  MaxCalls = 3
  QueueCap = 1
SYMMETRY Alike
INVARIANTS SetNeverRefused NoFalseAnswer
