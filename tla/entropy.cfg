\* Prices stop at MaxCount and a hand at MaxTurns, so the run may end.  The
\* console may be cut off anywhere, and every call of a write may fail.
SPECIFICATION EntropySpec
CONSTANTS
  Moves = {1, 2, 4, 6}
  TURN_SAMPLES = 2
  TURN_FIELDS = 2
  TURN_ROLL = 3
  TURNS_WRAP = 2
  Buttons = {up, cross, shoulder}
  NoButton = nobutton
  PRESS_GAP = 3
  PRESS_RATE = 1
  PRESS_SAVED = 6
  Button = {2, 3}
  Moment = {2, 3}
  Predictors = {lag}
  CAP = 48
  MaxCount = 32
  Turnings = {2, 6}
  RING = 16
  MaxPeriod = 4
  Swaps = {24, 48}
  MaxTurns = 40
  Patience = 14
  Device = TRUE
  MayFail = {"read", "open", "write", "sync", "dropBak", "aside", "promote", "rollback", "tidy"}
  MaxSeeds = 4
INVARIANTS
  RollTurns
  OwedAsTold
  GroundBacksTwo
  WallCostsATurn
  PressCeiling
  PriceExact
  RoundsAgainst
  PatternCalled
  SeedIsWhole
PROPERTIES
  HandsPace
  ImplementsAccount
  SeedNeverLost
  ImplementsCell
CHECK_DEADLOCK FALSE
