SPECIFICATION FairSpec
CONSTANTS
  None = None
  TxQueue = 2
  RxQueue = 1
  MaxTokens = 2
  MaxFrames = 4
  MaxArrivals = 1
  MaxErrors = 1
INVARIANTS ReceptionLives BusyMeansPending OnceInOrder
PROPERTIES MutexFreed QueueDrains
