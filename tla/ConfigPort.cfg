SPECIFICATION FairSpec
CONSTANTS
  Block <- TheBlock
  v = v
  Values = {v}
  Menu <- TheMenu
  Default = Default
  Unset = Unset
  Torn = Torn
  Size = 5
  MaxCommands = 2
  MaxOutages = 2
INVARIANTS AckedSurvives RunsConfigured
PROPERTIES EveryCommandDone
