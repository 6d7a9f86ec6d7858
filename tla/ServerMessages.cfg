SPECIFICATION FairReceiver
CONSTANTS
  Payloads <- MCPayloads
  Pool = 2
  Burst = 2
  MaxLosses = 1
INVARIANTS WholeCommands Understood
PROPERTIES Recovers
CHECK_DEADLOCK FALSE
