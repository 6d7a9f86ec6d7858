SPECIFICATION FairSpec
CONSTANTS
  Main = main
  Others = {timer, inventory}
  Sockets = {s1, s2}
  None = None
  Error = Error
  Capacity = 2
  MaxSegments = 2
  MaxCommands = 2
  MaxEvents = 1
INVARIANTS NeverBlocks WaitsForNoAck StreamIsWhole NoSocketLost
PROPERTIES QueueEmpties
CHECK_DEADLOCK FALSE
