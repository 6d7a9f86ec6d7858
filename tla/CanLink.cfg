SPECIFICATION FairSpec
CONSTANTS
  plain = plain
  coded = coded
  Contents <- MCContents
  Size <- MCSize
  Slots = {3, 4}
  None = None
  MaxEvents = 2
  MailCap = 2
INVARIANTS NothingStale
PROPERTIES Intact WaitsForLast EventuallyDelivered
CHECK_DEADLOCK FALSE
