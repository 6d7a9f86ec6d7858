SPECIFICATION FairSpec
CONSTANTS
  Cards = {a, b}
  Coded = {a}
  NoCard = NoCard
  InitTags = {NoCard}
  RFID_TIME_COUNT = 1
  MaxEvents = 4
  QueueCap = 1
INVARIANTS AckedMeansSeen
PROPERTIES EventuallySeen EventuallyQuiet
CHECK_DEADLOCK FALSE
