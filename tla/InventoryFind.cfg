SPECIFICATION FairSpec
CONSTANTS
  Units = {1, 2}
  Cards = {a, b}
  NoCard = NoCard
  MaxEvents = 3
PROPERTY EventuallyFound
CHECK_DEADLOCK FALSE
