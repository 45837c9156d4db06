\* Two positions: one whose reconciliation collides, one whose order waits.
SPECIFICATION FairSpec
CONSTANTS
  Wallet = {w1, w2}
  Token = {t1}
  Sig = {s1, s2, s3}
  NoWallet = NoWallet
  NoKey = NoKey
  Amounts = {4}
  Holdings = {0}
  Prices = {1}
  StartedAt = 1
  InitialCash = 8
  Allocation = 4
  MaxOpenPositions = 2
  ReactionDelay = 0
  RetryDelay = 1
  MaxAttempts = 1
  MaxAge = 0
  MaxBuys = 2
  AllowAveragingDown = FALSE
  MinSourceValue = 1
  SourceCapPct = 100
  TokenCapPct = 100
  StopLossPct = 30
  BreakEvenPct = 50
  TrailingPct = 100
  TrailingDrawdownPct = 25
  MaxBalance = 4
  MaxFaults = 0
PROPERTY OrdersSettle
