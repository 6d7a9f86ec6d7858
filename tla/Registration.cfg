SPECIFICATION FairSpec
CONSTANTS
  Units = {u1, u2}
  EarlyUnits = {u1}
  Prompt = TRUE
  LossyFrames = {"heartbeat", "live"}
  MaxHostResets = 2
  MaxUnitResets = 2
  QueueCap = 2
INVARIANTS NoOrphan KnownIsRegistered
PROPERTIES ConfirmStops CleanBootFindsAll
