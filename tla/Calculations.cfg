CONSTANTS
  Burst = 1
  SwitchWindow = 1
  RapidExit = 1
  MinHold = 2
  MinTrades = 3
  MaxTokens = 1
  MaxSwitches = 1
  MaxRapid = 0
  Dust = 8
  Unit = 19
  Largest = 400
  Error = 1
  Rounded <- ToyRounded
  FullTrades = 4
  FullTokens = 2
SPECIFICATION Spec
INVARIANTS
  StyleIsByDefinition
  HoldingsAgree
  PositionsKeepBooks
  GradesNeedEvidence
CHECK_DEADLOCK FALSE
